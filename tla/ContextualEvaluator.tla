------------------------- MODULE ContextualEvaluator -------------------------
(***************************************************************************)
(* The contextual evaluator: the local one of                              *)
(* src/src/evaluator/localEvaluator.ts with its scoring.ts, what           *)
(* detectorSignals.ts makes of the guards' findings and of the evaluator's *)
(* opinion, and the manager that asks it (manager.ts, runtime.ts).         *)
(*                                                                         *)
(* An input is a record; a patch is a record of some of its fields.        *)
(*   sideEffect, discloses, crosses, writes: what the action does          *)
(*   boundary: where it goes; allowed, forbidden: boundaries               *)
(*   granted: scopes; needed, approvals: approvals asked for, and held     *)
(*   justification: "none", "short" (under 24 characters) or "concrete"    *)
(*   rank, sourceRank, maxRank: classifications from public, 0, to         *)
(*     restricted, 3, of the data, of its sources (-1: none), and allowed  *)
(*   unjustified, unresolved, overBudget: a source without justification,  *)
(*     prerequisites, more records than the budget                         *)
(*   unclear: missing facts, questions, open clarifications                *)
(*   reflection: [missing, deviations, doubts, review, clarify]            *)
(*   routing: the wording is about reaching someone                        *)
(*   findings: what the guards found                                       *)
(* Weights are hundredths.                                                 *)
(***************************************************************************)
EXTENDS ContentGuard, Integers, FiniteSets

CONSTANTS
    DenyAt, EscalateAt,   \* thresholds of the score: 85 and 45
    MaxDescribed          \* findings the evaluator is told of: 25

ASSUME EvaluatorAssumption ==
    DenyAt \in 0 .. 100 /\ EscalateAt \in 0 .. 100 /\ MaxDescribed \in Nat \ {0}

Decided == {"allow", "escalate", "clarify", "deny"}
ReflectionRecords ==
    [missing : Nat, deviations : Nat, doubts : Nat, review : BOOLEAN, clarify : BOOLEAN]
Nowhere == "nowhere"

Larger(x, y)  == IF x > y THEN x ELSE y
Smaller(x, y) == IF x < y THEN x ELSE y

----------------------------------------------------------------------------
(***************************************************************************)
(* The findings of the guards, as the evaluator sees them.                 *)
(***************************************************************************)
\* isHardDenyDescriptor: what no context excuses.
Hard(f) ==
    \/ f.severity = "critical"
    \/ f.code \in {"agent_secret", "agent_prompt_injection", "agent_command_unsafe",
                   "agent_malicious_code", "agent_data_exfil"}
    \/ f.code = "agent_pii" /\ f.subject \in {"ssn", "card"}

\* The address of a role and not of a person.
RoleMailbox(f) == f.code = "agent_pii" /\ f.subject = "mailbox" /\ ~Hard(f)

Described(findings) == SubSeq(findings, 1, Smaller(Len(findings), MaxDescribed))

\* The findings up to the n-th that are not of a role's mailbox.
OfPersons(findings, n) == {m \in DOMAIN findings : m <= n /\ ~RoleMailbox(findings[m])}

\* All that resolveDetectorContextualViolation asks of findings; a hard one
\* behind the last that is described is not seen.
ClassOf(findings) ==
    CASE findings = <<>> -> "none"
      [] findings # <<>> /\ OfPersons(findings, Len(findings)) = {} -> "mailbox"
      [] \E n \in DOMAIN findings :
            Hard(findings[n]) /\ Cardinality(OfPersons(findings, n)) <= MaxDescribed -> "hard"
      [] OTHER -> "soft"

\* Mutant: what the evaluator allows is no violation, be it hard or not.
AdjudicatedByAny(violation, class, opinion) ==
    IF opinion = "allow" THEN "none" ELSE violation

\* What the opinion makes of a violation.  A role's mailbox is set aside unless
\* the evaluator denies; what it allows is no violation, unless it is hard.
Adjudicated(violation, class, opinion) ==
    LET dropped == class = "mailbox" /\ opinion \notin {"none", "deny"}
        own     == CASE opinion = "deny"     -> "contextual_evaluator_denied"
                     [] opinion = "escalate" -> "contextual_evaluator_escalated"
                     [] OTHER                -> "none"
    IN  CASE opinion = "none" -> violation
          [] opinion = "allow" /\ class = "soft" -> "none"
          [] opinion # "none" /\ (violation = "none" \/ (violation = "agent_guard_failed" /\ dropped))
               -> own
          [] OTHER -> violation

----------------------------------------------------------------------------
(***************************************************************************)
(* The score.                                                              *)
(***************************************************************************)
When(condition, principle, weight) ==
    IF condition THEN <<[principle |-> principle, weight |-> weight]>> ELSE <<>>

WeightOf(severity) ==
    CASE severity = "critical" -> 40 [] severity = "high" -> 30 [] severity = "medium" -> 20
      [] severity = "low" -> 12 [] OTHER -> 10

RequiredScopes(i) ==
    {IF i.sideEffect \/ i.writes THEN "write" ELSE "read"}
      \cup (IF i.crosses THEN {"cross_boundary"} ELSE {})
      \cup (IF i.discloses THEN {"disclose"} ELSE {})
      \cup (IF Larger(i.rank, i.sourceRank) >= 2 THEN {"sensitive_data"} ELSE {})

\* An actor without a list of scopes is not held to one.
MissingScopes(i) == IF i.granted = {} THEN {} ELSE RequiredScopes(i) \ i.granted

OfAuthority(i) ==
    When(i.boundary # Nowhere /\ i.allowed # {} /\ i.boundary \notin i.allowed,
         "authority_scope_mismatch", 35)
    \o When(MissingScopes(i) # {}, "authority_scope_mismatch", 25)
    \o When(i.boundary \in i.forbidden, "boundary_crossing_without_justification", 25)
    \o When(i.crosses /\ i.justification # "concrete",
            "boundary_crossing_without_justification", 20)

OfSources(i) ==
    When(i.unjustified, "source_use_misalignment", 20)
    \o When(Larger(i.rank, i.sourceRank) > i.maxRank, "source_use_misalignment", 20)
    \o When(i.unresolved, "unmet_preconditions", 25)
    \o When(~(i.needed \subseteq i.approvals), "unmet_preconditions", 25)

OfDisclosure(i) ==
    When(i.discloses /\ (i.overBudget \/ i.rank >= 2), "disproportionate_disclosure", 20)
    \o When((i.sideEffect \/ i.discloses \/ i.crosses \/ Larger(i.rank, i.sourceRank) >= 2)
               /\ i.justification # "concrete", "insufficient_justification", 15)

NeedsReview(i) == i.reflection.doubts > 0 \/ i.reflection.review

OfReflection(i) ==
    When(i.reflection.missing > 0, "unmet_preconditions",
         Smaller(20, 8 + 3 * i.reflection.missing))
    \o When(i.reflection.deviations > 0, "insufficient_justification",
            Smaller(18, 8 + 3 * i.reflection.deviations))
    \o When(NeedsReview(i), "insufficient_justification",
            Smaller(18, 8 + 3 * i.reflection.doubts))

\* applyDetectorFindingSignals.  The families that are always hard get no further.
OfFinding(i, f) ==
    LET w == WeightOf(f.severity) IN
    CASE RoleMailbox(f) /\ i.routing -> <<>>
      [] Hard(f) -> When(TRUE, "disproportionate_disclosure", Larger(w, 35))
                    \o When(TRUE, "insufficient_justification", 20)
      [] f.code = "agent_pii" /\ ~Hard(f) /\ ~(RoleMailbox(f) /\ i.routing) ->
             When(TRUE, "disproportionate_disclosure", w)
             \o When(f.subject \in {"email", "mailbox", "phone"},
                     "source_use_misalignment", Larger(25, w))
             \o When(i.justification = "none", "insufficient_justification", 15)
      [] f.code = "agent_policy_violation" /\ ~Hard(f) ->
             When(TRUE, "source_use_misalignment", w)
             \o When("prerequisite" \in f.hints, "unmet_preconditions", Larger(20, w - 5))
             \o When("commitment" \in f.hints,
                     "boundary_crossing_without_justification", Larger(20, w - 5))
             \o When("disclosure" \in f.hints,
                     "disproportionate_disclosure", Larger(20, w - 5))
      [] OTHER -> <<>>

Concerns(i) ==
    OfAuthority(i) \o OfSources(i) \o OfDisclosure(i) \o OfReflection(i)
      \o FlattenSeq([n \in DOMAIN i.findings |-> OfFinding(i, i.findings[n])])

PrinciplesOf(concerns) == {concerns[n].principle : n \in DOMAIN concerns}

\* Mutant: of the concerns of one principle the last one counts.
LastCounts(concerns, n) ==
    \A m \in n + 1 .. Len(concerns) : concerns[m].principle # concerns[n].principle

\* addFinding: of the concerns of one principle the first counts, not the worst.
Counts(concerns, n) ==
    \A m \in 1 .. n - 1 : concerns[m].principle # concerns[n].principle

Total(weights) ==
    LET sum[n \in 0 .. Len(weights)] == IF n = 0 THEN 0 ELSE sum[n - 1] + weights[n]
    IN  sum[Len(weights)]

Score(concerns) ==
    Smaller(100, Total([n \in DOMAIN concerns |->
                           IF Counts(concerns, n) THEN concerns[n].weight ELSE 0]))

----------------------------------------------------------------------------
(***************************************************************************)
(* The decision.                                                           *)
(***************************************************************************)
\* The code adds fractions: a sum that comes to the threshold on paper may
\* fall short of it in binary (0.15 + 0.2 + 0.1 is less than 0.45).
Reaches(score, threshold) == IF score = threshold THEN BOOLEAN ELSE {score > threshold}

NeedsClarification(i, principles) ==
    /\ i.unclear \/ i.reflection.missing > 0 \/ i.reflection.clarify
    /\ principles \cap {"authority_scope_mismatch", "source_use_misalignment"} = {}

\* A question outranks the call for a human.
Opinion(i, principles, denies, escalates) ==
    IF denies \/ {"authority_scope_mismatch", "unmet_preconditions"} \subseteq principles
    THEN "deny"
    ELSE IF NeedsClarification(i, principles) THEN "clarify"
    ELSE IF escalates \/ NeedsReview(i) THEN "escalate" ELSE "allow"

LocalOpinions(i) ==
    LET concerns == Concerns(i) IN
    {Opinion(i, PrinciplesOf(concerns), denies, escalates) :
        denies \in Reaches(Score(concerns), DenyAt),
        escalates \in Reaches(Score(concerns), EscalateAt)}

\* mergeEvaluatorInput: a list that is patched is replaced.
Merged(i, patch) ==
    [field \in DOMAIN i \cup DOMAIN patch |->
        IF field \in DOMAIN patch THEN patch[field] ELSE i[field]]

\* defaultContextualEvaluatorEligible
Eligible(i) ==
    i.sideEffect \/ i.crosses \/ i.discloses \/ i.unresolved
      \/ i.sourceRank >= 0 \/ i.rank >= 0

\* What an enforcement point is told of an input: "none" when nobody judged it
\* (in time), and of a remote evaluator anything.
OpinionsOn(manager, i) ==
    CASE manager.source = "disabled" \/ manager.mode = "async" \/ ~Eligible(i) -> {"none"}
      [] manager.source = "local" /\ manager.mode # "async" /\ Eligible(i) -> LocalOpinions(i)
      [] OTHER -> {"none"} \cup Decided
=============================================================================
