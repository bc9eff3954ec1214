------------------------ MODULE ToolInvocation_proofs ------------------------
(***************************************************************************)
(* Proofs about ToolInvocation, for any number of calls of the tool, any   *)
(* policies and any window of the breaker: what may run (LetThrough), that *)
(* caller, record and reviewer are told the same (ToldAlike), the guards   *)
(* on the process' I/O under overlapping calls (GuardsHold), and a breaker *)
(* that, once open with nothing in flight, stays open (OpenForGood).       *)
(***************************************************************************)
EXTENDS ToolInvocation, FiniteSetTheorems, SequenceTheorems, TLAPS

----------------------------------------------------------------------------
\* What is known of a call, by the stage it is in.

\* What LetThrough asks of one that runs.
LetGo(k) ==
    /\ k.error = "none"
    /\ k.violation \in EvaluatorReasons => k.violation \notin k.denyOn
    /\ k.violation \in AdmissionReasons => k.denyOn # {} /\ k.violation \notin k.denyOn

\* Whoever is denied has a denial in the record to come, and the other way
\* round a denial has its violation or its error.
Accounted(k) ==
    /\ k.error \in Reasons => k.decision = "deny"
    /\ k.decision = "deny" /\ k.error = "none" => k.violation # "none"

Reviewed(k) ==
    k.error \in Reasons =>
        (k.escalation # "none" <=> k.error \in EscalateOn \cup EvaluatorReasons)

Matches(k) ==
    k.entry # NoEntry =>
        /\ k.error \in Reasons => k.entry.decision = "deny"
        /\ k.error = "none" /\ k.entry.decision = "deny" => k.entry.violation # "none"
        /\ k.entry.decision = "allow" => k.error \in {"none"} \cup Failures

Sound(k) ==
    /\ k.stage \in {"new", "policy"} =>
          k.violation = "none" /\ k.decision = "allow" /\ k.error = "none"
    /\ k.stage = "judge" => k.violation \in AdmissionReasons /\ k.decision = "deny"
    /\ k.stage = "evaluate" => k.violation = "none" /\ k.error = "none"
    /\ k.stage = "running" => LetGo(k)
    /\ k.stage = "blocked" =>
          k.violation \in GuardReasons /\ k.decision = "deny" /\ k.error = "none"
    /\ k.stage # "ended" => Accounted(k)
    /\ k.stage \notin {"audit", "ended"} => k.escalation = "none"
    /\ k.stage = "audit" => Reviewed(k)
    /\ k.stage = "ended" => Matches(k) /\ Reviewed(k)

CallInv == call \in [Calls -> CallRecord] /\ \A c \in Calls : Sound(call[c])

LEMMA SoundIsLetThrough == CallInv => LetThrough
  BY DEF CallInv, Sound, LetGo, LetThrough, Running, Listed, Denies

LEMMA SoundIsTold == CallInv => RecordMatchesAnswer /\ AsksAboutTheDenial
  BY DEF CallInv, Sound, Matches, Reviewed, RecordMatchesAnswer, AsksAboutTheDenial

\* A fresh call.
LEMMA NewCallIs ==
    ASSUME published \in Policies
    PROVE  NewCall \in CallRecord /\ Sound(NewCall)
<1>1. NewCall \in CallRecord
  BY DEF NewCall, CallRecord, Stages, NoEntry
<1>2. Sound(NewCall)
  BY DEF NewCall, Sound, Accounted, LetGo, Reviewed, Matches, NoEntry, Reasons,
         AdmissionReasons, EvaluatorReasons, GuardReasons, Signals
<1> QED
  BY <1>1, <1>2

\* How a step of one call shows in the guards: not at all, or as its handler's start.
Aside ==
    /\ Running' = Running
    /\ \A d \in Running : call'[d].saved = call[d].saved
    /\ UNCHANGED << guards, inside >>

Entering(c) ==
    /\ c \notin Running /\ Running' = Running \cup {c}
    /\ \A d \in Running : call'[d].saved = call[d].saved
    /\ call'[c].saved = guards
    /\ guards' = guards \cup {c}
    /\ inside' = [inside EXCEPT ![c] = Running]

Moved(c) == Aside \/ Entering(c)

\* One call goes on to another stage, and nothing is heard of the others.
LEMMA ProceedKeeps ==
    ASSUME CallInv, NEW c \in Calls, call[c].stage # "running",
           NEW known \in CallRecord, NEW to \in Stages \ {"running"},
           Sound([known EXCEPT !.stage = to]), Proceed(c, known, to)
    PROVE  CallInv' /\ Moved(c)
<1> DEFINE k == [known EXCEPT !.stage = to]
<1>1. k \in CallRecord /\ k.stage = to /\ Sound(k)
  BY DEF CallRecord
<1>2. call' = [call EXCEPT ![c] = k] /\ UNCHANGED << guards, inside >>
  BY DEF Proceed
<1> HIDE DEF k
<1>3. CallInv'
  BY <1>1, <1>2 DEF CallInv
<1>4. Aside
  BY <1>1, <1>2 DEF CallInv, Aside, Running
<1> QED
  BY <1>3, <1>4 DEF Moved

\* One call starts its handler.
LEMMA EnterKeeps ==
    ASSUME CallInv, guards \subseteq Calls \cup {Gone}, NEW c \in Calls,
           call[c].stage # "running",
           NEW known \in CallRecord, LetGo(known), Accounted(known),
           known.escalation = "none", EnterTool(c, known)
    PROVE  CallInv' /\ Moved(c)
<1> DEFINE k == [known EXCEPT !.stage = "running", !.ran = TRUE, !.saved = guards]
<1>1. k \in CallRecord /\ k.stage = "running" /\ k.saved = guards
  BY DEF CallRecord, Stages
<1>2. Sound(k)
  BY DEF Sound, LetGo, Accounted, CallRecord
<1> HIDE DEF k
<1>3. /\ call' = [call EXCEPT ![c] = k] /\ guards' = guards \cup {c}
      /\ inside' = [inside EXCEPT ![c] = Running]
  BY DEF EnterTool, k
<1>4. CallInv'
  BY <1>1, <1>2, <1>3 DEF CallInv
<1>5. Entering(c)
  BY <1>1, <1>3 DEF CallInv, Entering, Running
<1> QED
  BY <1>4, <1>5 DEF Moved

----------------------------------------------------------------------------
\* Before the handler.

LEMMA VerdictIs ==
    ASSUME NEW found
    PROVE  /\ Verdict(found) \in AdmissionReasons \cup {"none"}
           /\ "policy_fetch_failed" \in found => Verdict(found) # "none"
  BY DEF Verdict, AdmissionReasons

LEMMA StartKeeps == ASSUME CallInv, published \in Policies, NEW c \in Calls, Start(c)
                    PROVE  CallInv' /\ Moved(c)
<1> DEFINE k == [call[c] EXCEPT !.stage = "policy", !.denyOn = published,
                    !.signals = Drift \cap {"handler_swap", "tool_code_changed"}]
<1>0. call[c] \in CallRecord /\ Sound(call[c]) /\ call[c].stage = "new"
  BY DEF CallInv, Start
<1>1. k \in CallRecord /\ k.stage = "policy"
  BY <1>0 DEF CallRecord, Stages, Signals
<1>2. Sound(k)
  BY <1>0 DEF Sound, Accounted, CallRecord, Reasons, AdmissionReasons, EvaluatorReasons,
              GuardReasons, Signals
<1>3. call' = [call EXCEPT ![c] = k] /\ UNCHANGED << guards, inside >>
  BY <1>0 DEF CallInv, Start, CallRecord
<1> HIDE DEF k
<1>4. CallInv'
  BY <1>1, <1>2, <1>3 DEF CallInv
<1>5. Aside
  BY <1>0, <1>1, <1>3 DEF CallInv, Aside, Running
<1> QED
  BY <1>4, <1>5 DEF Moved

\* A call whose admission ended with a violation, an error or neither.
LEMMA AdmitKeeps ==
    ASSUME CallInv, guards \subseteq Calls \cup {Gone}, NEW c \in Calls,
           call[c].stage = "policy", NEW policy \in Policies,
           NEW violation \in AdmissionReasons \cup {"none"},
           NEW error \in {"none", "policy_fetch_failed"},
           error = "policy_fetch_failed" => violation # "none",
           Admit(c, violation, error, policy)
    PROVE  CallInv' /\ Moved(c)
<1> DEFINE e == IF error = "none" /\ BreakerOpen THEN "circuit" ELSE error
           d == IF violation = "none" THEN "allow" ELSE "deny"
           known == [call[c] EXCEPT !.violation = violation, !.denyOn = policy,
                                    !.error = e, !.decision = d,
                                    !.signals = @ \cup Drift]
<1>0. call[c] \in CallRecord /\ Sound(call[c])
  BY DEF CallInv
<1>1. Drift \subseteq Signals
  BY DEF Drift, Signals
<1>2. /\ e \in {"none", "policy_fetch_failed", "circuit"}
      /\ e = "policy_fetch_failed" => violation # "none"
      /\ d \in {"allow", "deny"} /\ (d = "deny" <=> violation # "none")
  OBVIOUS
<1>11. IF violation # "none" THEN Proceed(c, known, "judge")
      ELSE IF known.error # "none" THEN Proceed(c, known, "recheck")
      ELSE IF EvaluatorOn THEN Proceed(c, known, "evaluate")
      ELSE EnterTool(c, known)
  BY DEF Admit
<1> HIDE DEF e, d
<1>12. known \in CallRecord
  <2>1. e \in {"none"} \cup Reasons \cup Failures
    BY <1>2 DEF Reasons, AdmissionReasons, Failures
  <2>2. violation \in Reasons \cup {"none"}
    BY DEF Reasons
  <2>3. call[c].signals \cup Drift \in SUBSET Signals
    BY <1>0, <1>1 DEF CallRecord
  <2> QED
    BY <1>0, <1>2, <2>1, <2>2, <2>3 DEF CallRecord
<1>3. /\ known.violation = violation /\ known.decision = d /\ known.error = e
      /\ known.escalation = "none"
  BY <1>0 DEF CallRecord, Sound
<1> HIDE DEF known
<1>4. "circuit" \notin Reasons /\ "none" \notin Reasons
  BY DEF Reasons, AdmissionReasons, EvaluatorReasons, GuardReasons, Signals
<1>5. Accounted(known)
  BY <1>2, <1>3, <1>4 DEF Accounted
<1>6. "none" \notin AdmissionReasons \cup EvaluatorReasons
  BY DEF AdmissionReasons, EvaluatorReasons
<1>7. CASE violation # "none"
  <2>1. Proceed(c, known, "judge")
    BY <1>7, <1>11
  <2>2. Sound([known EXCEPT !.stage = "judge"])
    BY <1>12, <1>2, <1>3, <1>5, <1>7 DEF Sound, Accounted, CallRecord
  <2> QED
    BY <2>1, <2>2, <1>12, ProceedKeeps DEF Stages
<1>8. CASE violation = "none" /\ known.error # "none"
  <2>1. Proceed(c, known, "recheck")
    BY <1>8, <1>11
  <2>2. Sound([known EXCEPT !.stage = "recheck"])
    BY <1>12, <1>2, <1>3, <1>5 DEF Sound, Accounted, CallRecord
  <2> QED
    BY <2>1, <2>2, <1>12, ProceedKeeps DEF Stages
<1>9. CASE violation = "none" /\ known.error = "none" /\ EvaluatorOn
  <2>1. Proceed(c, known, "evaluate")
    BY <1>9, <1>11
  <2>2. Sound([known EXCEPT !.stage = "evaluate"])
    BY <1>12, <1>2, <1>3, <1>5, <1>9 DEF Sound, Accounted, CallRecord
  <2> QED
    BY <2>1, <2>2, <1>12, ProceedKeeps DEF Stages
<1>10. CASE violation = "none" /\ known.error = "none" /\ ~EvaluatorOn
  <2>1. EnterTool(c, known)
    BY <1>10, <1>11
  <2>2. LetGo(known)
    BY <1>3, <1>6, <1>10 DEF LetGo
  <2> QED
    BY <2>1, <2>2, <1>12, <1>3, <1>5, EnterKeeps
<1> QED
  BY <1>7, <1>8, <1>9, <1>10

LEMMA ResolveKeeps ==
    ASSUME CallInv, guards \subseteq Calls \cup {Gone}, NEW c \in Calls, Resolve(c)
    PROVE  CallInv' /\ Moved(c)
<1>1. PICK found \in SUBSET (Possible \cap AdmissionReasons) :
        \/ \E policy \in Policies : /\ "policy_fetch_failed" \notin found
                                    /\ Admit(c, Verdict(found), "none", policy)
        \/ /\ "policy_fetch_failed" \in found
           /\ Admit(c, Verdict(found), "policy_fetch_failed", call[c].denyOn)
  BY DEF Resolve
<1>2. call[c].stage = "policy" /\ call[c].denyOn \in Policies
  BY DEF Resolve, CallInv, CallRecord
<1> QED
  BY <1>1, <1>2, VerdictIs, AdmitKeeps

LEMMA JudgeKeeps ==
    ASSUME CallInv, guards \subseteq Calls \cup {Gone}, NEW c \in Calls, Judge(c)
    PROVE  CallInv' /\ Moved(c)
<1> DEFINE known == [call[c] EXCEPT !.error = call[c].violation]
<1>0. call[c] \in CallRecord /\ Sound(call[c]) /\ call[c].stage = "judge"
  BY DEF CallInv, Judge
<1>1. /\ call[c].violation \in AdmissionReasons /\ call[c].decision = "deny"
      /\ Accounted(call[c]) /\ call[c].escalation = "none"
  BY <1>0 DEF Sound
<1>2. known \in CallRecord /\ Sound([known EXCEPT !.stage = "recheck"])
  BY <1>0, <1>1 DEF CallRecord, Sound, Accounted, Reasons, AdmissionReasons
<1>3. Sound([call[c] EXCEPT !.stage = "recheck"])
  BY <1>0, <1>1 DEF CallRecord, Sound, Accounted
<1>4. CASE Proceed(c, known, "recheck")
  BY <1>0, <1>2, <1>4, ProceedKeeps DEF Stages
<1>5. CASE Proceed(c, call[c], "recheck")
  BY <1>0, <1>3, <1>5, ProceedKeeps DEF Stages
<1>6. CASE ~Denies(c, call[c].violation) /\ call[c].error = "none" /\ EnterTool(c, call[c])
  <2>1. call[c].violation \notin EvaluatorReasons
    BY <1>1 DEF AdmissionReasons, EvaluatorReasons
  <2>2. LetGo(call[c])
    BY <1>6, <2>1 DEF LetGo, Denies
  <2> QED
    BY <1>0, <1>1, <1>6, <2>2, EnterKeeps
<1> QED
  BY <1>4, <1>5, <1>6 DEF Judge

LEMMA EvaluateKeeps ==
    ASSUME CallInv, guards \subseteq Calls \cup {Gone}, NEW c \in Calls, Evaluate(c)
    PROVE  CallInv' /\ Moved(c)
<1>0. call[c] \in CallRecord /\ Sound(call[c]) /\ call[c].stage = "evaluate"
  BY DEF CallInv, Evaluate
<1>1. /\ call[c].violation = "none" /\ call[c].error = "none"
      /\ Accounted(call[c]) /\ call[c].escalation = "none"
  BY <1>0 DEF Sound
<1>2. "none" \notin AdmissionReasons \cup EvaluatorReasons
  BY DEF AdmissionReasons, EvaluatorReasons
<1>3. CASE EnterTool(c, call[c])
  BY <1>0, <1>1, <1>2, <1>3, EnterKeeps DEF LetGo
<1>4. CASE Proceed(c, [call[c] EXCEPT !.error = "failed"], "recheck")
  <2>1. /\ [call[c] EXCEPT !.error = "failed"] \in CallRecord
        /\ Sound([[call[c] EXCEPT !.error = "failed"] EXCEPT !.stage = "recheck"])
    BY <1>0, <1>1 DEF CallRecord, Sound, Accounted, Failures, Reasons, AdmissionReasons,
                      EvaluatorReasons, GuardReasons, Signals
  <2> QED
    BY <1>0, <2>1, <1>4, ProceedKeeps DEF Stages
<1>5. CASE EnterTool(c, [call[c] EXCEPT !.contextual = "contextual_evaluator_escalated"])
  <2>1. [call[c] EXCEPT !.contextual = "contextual_evaluator_escalated"] \in CallRecord
    BY <1>0 DEF CallRecord, EvaluatorReasons
  <2>2. LetGo([call[c] EXCEPT !.contextual = "contextual_evaluator_escalated"])
    BY <1>0, <1>1, <1>2 DEF LetGo, CallRecord
  <2>3. /\ Accounted([call[c] EXCEPT !.contextual = "contextual_evaluator_escalated"])
        /\ [call[c] EXCEPT !.contextual = "contextual_evaluator_escalated"].escalation = "none"
    BY <1>0, <1>1 DEF Accounted, CallRecord
  <2> QED
    BY <1>0, <2>1, <2>2, <2>3, <1>5, EnterKeeps
<1>6. ASSUME NEW v \in EvaluatorReasons \cap Possible,
             LET known == [call[c] EXCEPT !.contextual = v, !.violation = v]
             IN  IF Listed(c, v)
                 THEN Proceed(c, [known EXCEPT !.decision = "deny", !.error = v], "recheck")
                 ELSE EnterTool(c, known)
      PROVE  CallInv' /\ Moved(c)
  <2> DEFINE known == [call[c] EXCEPT !.contextual = v, !.violation = v]
             denied == [known EXCEPT !.decision = "deny", !.error = v]
  <2>1. known \in CallRecord /\ denied \in CallRecord
    BY <1>0 DEF CallRecord, Reasons
  <2>2. CASE Listed(c, v)
    <3>1. Sound([denied EXCEPT !.stage = "recheck"])
      BY <1>0, <1>1 DEF Sound, Accounted, CallRecord, EvaluatorReasons
    <3>2. Proceed(c, denied, "recheck")
      BY <1>6, <2>2
    <3> QED
      BY <1>0, <2>1, <3>1, <3>2, ProceedKeeps DEF Stages
  <2>3. CASE ~Listed(c, v)
    <3>1. v \notin AdmissionReasons
      BY DEF EvaluatorReasons, AdmissionReasons
    <3>2. LetGo(known) /\ Accounted(known) /\ known.escalation = "none"
      BY <1>0, <1>1, <2>3, <3>1 DEF LetGo, Accounted, CallRecord, Listed
    <3> QED
      BY <1>0, <1>6, <2>1, <2>3, <3>2, EnterKeeps
  <2> QED
    BY <2>2, <2>3
<1> QED
  BY <1>3, <1>4, <1>5, <1>6 DEF Evaluate

----------------------------------------------------------------------------
\* The handler, and what follows it.

NotReasons == {"none", "failed", "circuit", "unsigned"}

LEMMA NoReasons == NotReasons \cap Reasons = {}
  BY DEF NotReasons, Reasons, AdmissionReasons, EvaluatorReasons, GuardReasons, Signals

\* The stages that ask no more of a call than that its denial is accounted for.
LEMMA OnwardKeeps ==
    ASSUME CallInv, NEW c \in Calls, call[c].stage # "running",
           NEW known \in CallRecord, Accounted(known),
           known.escalation = "none",
           NEW to \in {"recheck", "input", "scan", "output", "escalate"},
           Proceed(c, known, to)
    PROVE  CallInv' /\ Moved(c)
<1>1. Sound([known EXCEPT !.stage = to])
  BY DEF Sound, Accounted, CallRecord
<1> QED
  BY <1>1, ProceedKeeps DEF Stages

LEMMA RefuseKeeps ==
    ASSUME CallInv, NEW c \in Calls, call[c].stage # "running",
           NEW known \in CallRecord, Accounted(known),
           known.escalation = "none", NEW reason \in Reasons,
           NEW to \in {"scan", "escalate"}, Refuse(c, known, reason, to)
    PROVE  CallInv' /\ Moved(c)
<1>1. PICK a \in Approvals(c) :
         Proceed(c, IF a = "valid" THEN [known EXCEPT !.approval = a]
                    ELSE [known EXCEPT !.approval = a, !.decision = "deny",
                                       !.error = reason, !.violation = reason], to)
  BY DEF Refuse
<1>2. a \in {"valid", "invalid", "unasked"}
  BY DEF Approvals, CallInv, CallRecord
<1>3. reason # "none"
  BY NoReasons DEF NotReasons
<1>4. CASE a = "valid"
  <2>1. /\ [known EXCEPT !.approval = a] \in CallRecord
        /\ Accounted([known EXCEPT !.approval = a])
        /\ [known EXCEPT !.approval = a].escalation = "none"
    BY <1>2 DEF CallRecord, Accounted
  <2> QED
    BY <1>1, <1>4, <2>1, OnwardKeeps
<1>5. CASE a # "valid"
  <2> DEFINE k == [known EXCEPT !.approval = a, !.decision = "deny",
                                !.error = reason, !.violation = reason]
  <2>1. k \in CallRecord /\ Accounted(k) /\ k.escalation = "none"
    BY <1>2, <1>3 DEF CallRecord, Accounted
  <2> QED
    BY <1>1, <1>5, <2>1, OnwardKeeps
<1> QED
  BY <1>4, <1>5

LEMMA ToolEndsKeeps == ASSUME CallInv, NEW c \in Calls, ToolEnds(c) PROVE CallInv'
<1>0. call[c] \in CallRecord /\ Sound(call[c]) /\ call[c].stage = "running"
  BY DEF CallInv, ToolEnds
<1>1. /\ call[c].error = "none" /\ Accounted(call[c]) /\ call[c].escalation = "none"
  BY <1>0 DEF Sound, LetGo
<1>2. ASSUME NEW k \in CallRecord, Sound(k), call' = [call EXCEPT ![c] = k]
      PROVE  CallInv'
  BY <1>2 DEF CallInv
<1>3. CASE call' = [call EXCEPT ![c] = [call[c] EXCEPT !.stage = "recheck", !.saved = {}]]
  <2>1. /\ [call[c] EXCEPT !.stage = "recheck", !.saved = {}] \in CallRecord
        /\ Sound([call[c] EXCEPT !.stage = "recheck", !.saved = {}])
    BY <1>0, <1>1 DEF CallRecord, Sound, Accounted, Stages
  <2> QED
    BY <1>2, <1>3, <2>1
<1>4. CASE call' = [call EXCEPT ![c] = [[call[c] EXCEPT !.error = "failed"]
                                          EXCEPT !.stage = "recheck", !.saved = {}]]
  <2> DEFINE k == [[call[c] EXCEPT !.error = "failed"] EXCEPT !.stage = "recheck", !.saved = {}]
  <2>1. k \in CallRecord /\ Sound(k)
    BY <1>0, <1>1, NoReasons DEF CallRecord, Sound, Accounted, Stages, Failures, NotReasons
  <2> QED
    BY <1>2, <1>4, <2>1
<1>5. ASSUME NEW v \in GuardReasons,
             call' = [call EXCEPT ![c] = [[call[c] EXCEPT !.violation = v, !.decision = "deny"]
                                            EXCEPT !.stage = "blocked", !.saved = {}]]
      PROVE  CallInv'
  <2> DEFINE k == [[call[c] EXCEPT !.violation = v, !.decision = "deny"]
                     EXCEPT !.stage = "blocked", !.saved = {}]
  <2>1. v # "none" /\ v \in Reasons
    BY DEF GuardReasons, Reasons
  <2>2. k \in CallRecord /\ Sound(k)
    BY <1>0, <1>1, <2>1 DEF CallRecord, Sound, Accounted, Stages
  <2> QED
    BY <1>2, <1>5, <2>2
<1> QED
  BY <1>3, <1>4, <1>5 DEF ToolEnds

LEMMA BlockedKeeps == ASSUME CallInv, NEW c \in Calls, Blocked(c) PROVE CallInv' /\ Moved(c)
<1> DEFINE e == IF Denies(c, call[c].violation) THEN call[c].violation ELSE "failed"
           k == [call[c] EXCEPT !.error = e]
<1>0. /\ call[c] \in CallRecord /\ Sound(call[c]) /\ call[c].stage = "blocked"
      /\ Proceed(c, k, "recheck")
  BY DEF CallInv, Blocked
<1>1. /\ call[c].violation \in GuardReasons /\ call[c].decision = "deny"
      /\ call[c].escalation = "none"
  BY <1>0 DEF Sound
<1>2. e \in Reasons \cup Failures
  BY <1>1 DEF Reasons, Failures
<1>3. e # "none"
  BY <1>1 DEF GuardReasons
<1> HIDE DEF e
<1>4. k \in CallRecord /\ Accounted(k) /\ k.escalation = "none"
  BY <1>0, <1>1, <1>2, <1>3 DEF CallRecord, Accounted
<1> QED
  BY <1>0, <1>4, OnwardKeeps

\* The last sign of drift in the order of the code.
LEMMA LastDrift ==
    ASSUME NEW drift \in SUBSET Signals, drift # {},
           NEW last,
           last = CHOOSE s \in drift :
                     \A after \in {"server_code_changed", "tool_code_changed",
                                  "registry_mutation", "handler_swap"} \cap drift :
                       \/ after = s
                       \/ s = "handler_swap"
                       \/ s = "registry_mutation" /\ after # "handler_swap"
                       \/ s = "tool_code_changed" /\ after = "server_code_changed"
    PROVE  last \in drift
<1> DEFINE Latest(s) == \A after \in {"server_code_changed", "tool_code_changed",
                                      "registry_mutation", "handler_swap"} \cap drift :
                          \/ after = s
                          \/ s = "handler_swap"
                          \/ s = "registry_mutation" /\ after # "handler_swap"
                          \/ s = "tool_code_changed" /\ after = "server_code_changed"
<1>1. \E s \in drift : Latest(s)
  <2>1. CASE "handler_swap" \in drift
    BY <2>1
  <2>2. CASE "handler_swap" \notin drift /\ "registry_mutation" \in drift
    BY <2>2
  <2>3. CASE /\ "handler_swap" \notin drift /\ "registry_mutation" \notin drift
             /\ "tool_code_changed" \in drift
    BY <2>3
  <2>4. CASE drift = {"server_code_changed"}
    BY <2>4
  <2> QED
    BY <2>1, <2>2, <2>3, <2>4 DEF Signals
<1>2. last = CHOOSE s \in drift : Latest(s)
  OBVIOUS
<1> HIDE DEF Latest
<1> QED
  BY <1>1, <1>2

LEMMA RecheckKeeps == ASSUME CallInv, NEW c \in Calls, Recheck(c) PROVE CallInv' /\ Moved(c)
<1> DEFINE drift == {s \in call[c].signals : Denies(c, s)}
           last == CHOOSE s \in drift :
                     \A after \in {"server_code_changed", "tool_code_changed",
                                  "registry_mutation", "handler_swap"} \cap drift :
                       \/ after = s
                       \/ s = "handler_swap"
                       \/ s = "registry_mutation" /\ after # "handler_swap"
                       \/ s = "tool_code_changed" /\ after = "server_code_changed"
<1>0. call[c] \in CallRecord /\ Sound(call[c]) /\ call[c].stage = "recheck"
  BY DEF CallInv, Recheck
<1>1. Accounted(call[c]) /\ call[c].escalation = "none"
  BY <1>0 DEF Sound
<1>2. PICK v \in {"none"} \cup ({"ap2_cart_mismatch"} \cap Possible) :
             Proceed(c, [call[c] EXCEPT
                           !.violation = IF @ = "none" THEN v ELSE @,
                           !.decision = IF drift = {} THEN @ ELSE "deny",
                           !.error = IF drift = {} THEN @ ELSE last,
                           !.signals = {}], "input")
  BY DEF Recheck
<1>3. drift \subseteq Signals
  BY <1>0 DEF CallRecord
<1>4. drift # {} => last \in drift
  BY <1>3, LastDrift
<1>5. drift # {} => last \in Reasons
  BY <1>3, <1>4 DEF Reasons
<1>6. v \in Reasons \cup {"none"}
  BY DEF Reasons
<1> HIDE DEF drift, last
<1> DEFINE violation == IF call[c].violation = "none" THEN v ELSE call[c].violation
           decision == IF drift = {} THEN call[c].decision ELSE "deny"
           error == IF drift = {} THEN call[c].error ELSE last
           k == [call[c] EXCEPT !.violation = violation, !.decision = decision,
                                !.error = error, !.signals = {}]
<1>7. /\ violation \in Reasons \cup {"none"} /\ decision \in {"allow", "deny"}
      /\ error \in {"none"} \cup Reasons \cup Failures
  BY <1>0, <1>5, <1>6 DEF CallRecord
<1>8. /\ error \in Reasons => decision = "deny"
      /\ decision = "deny" /\ error = "none" => violation # "none"
  BY <1>1, <1>5, NoReasons DEF Accounted, NotReasons
<1>9. Proceed(c, k, "input")
  BY <1>2
<1> HIDE DEF violation, decision, error
<1>10. k \in CallRecord
  BY <1>0, <1>7 DEF CallRecord
<1>11. Accounted(k) /\ k.escalation = "none"
  BY <1>0, <1>1, <1>8 DEF Accounted, CallRecord
<1> QED
  BY <1>0, <1>9, <1>10, <1>11, OnwardKeeps

LEMMA GuardInputKeeps == ASSUME CallInv, NEW c \in Calls, GuardInput(c) PROVE CallInv' /\ Moved(c)
<1> DEFINE violation == IF call[c].violation = "none" THEN "agent_guard_failed"
                        ELSE call[c].violation
           known == [call[c] EXCEPT !.violation = violation]
<1>0. call[c] \in CallRecord /\ Sound(call[c]) /\ call[c].stage = "input"
  BY DEF CallInv, GuardInput
<1>1. Accounted(call[c]) /\ call[c].escalation = "none"
  BY <1>0 DEF Sound
<1>2. "agent_guard_failed" \in Reasons
  BY DEF Reasons
<1>3. violation \in Reasons
  BY <1>0, <1>2 DEF CallRecord
<1>4. \/ Proceed(c, call[c], "scan")
      \/ Proceed(c, known, "scan")
      \/ Refuse(c, known, "agent_guard_failed", "scan")
  BY DEF GuardInput
<1> HIDE DEF violation
<1>5. known \in CallRecord /\ Accounted(known) /\ known.escalation = "none"
  BY <1>0, <1>1, <1>3, NoReasons DEF CallRecord, Accounted, NotReasons
<1> HIDE DEF known
<1>6. CASE Proceed(c, call[c], "scan")
  BY <1>0, <1>1, <1>6, OnwardKeeps
<1>7. CASE Proceed(c, known, "scan")
  BY <1>0, <1>5, <1>7, OnwardKeeps
<1>8. CASE Refuse(c, known, "agent_guard_failed", "scan")
  BY <1>0, <1>2, <1>5, <1>8, RefuseKeeps
<1> QED
  BY <1>4, <1>6, <1>7, <1>8

LEMMA ScanKeeps == ASSUME CallInv, NEW c \in Calls, Scan(c) PROVE CallInv' /\ Moved(c)
<1> DEFINE known == [call[c] EXCEPT !.decision = "deny", !.error = "tool_code_changed"]
<1>0. call[c] \in CallRecord /\ Sound(call[c]) /\ call[c].stage = "scan"
  BY DEF CallInv, Scan
<1>1. Accounted(call[c]) /\ call[c].escalation = "none"
  BY <1>0 DEF Sound
<1>2. "tool_code_changed" \in Reasons
  BY DEF Reasons, Signals
<1>3. known \in CallRecord /\ Accounted(known) /\ known.escalation = "none"
  BY <1>0, <1>1, <1>2 DEF CallRecord, Accounted
<1>4. CASE Proceed(c, call[c], "output")
  BY <1>0, <1>1, <1>4, OnwardKeeps
<1>5. CASE Proceed(c, known, "output")
  BY <1>0, <1>3, <1>5, OnwardKeeps
<1> QED
  BY <1>4, <1>5 DEF Scan

LEMMA GuardOutputKeeps ==
    ASSUME CallInv, published \in Policies, NEW c \in Calls, GuardOutput(c)
    PROVE  CallInv' /\ Moved(c)
<1>0. call[c] \in CallRecord /\ Sound(call[c]) /\ call[c].stage = "output"
  BY DEF CallInv, GuardOutput
<1>1. Accounted(call[c]) /\ call[c].escalation = "none"
  BY <1>0 DEF Sound
<1>2. CASE Proceed(c, [NewCall EXCEPT !.error = "failed", !.ran = call[c].ran], "ended")
  <2> DEFINE k == [NewCall EXCEPT !.error = "failed", !.ran = call[c].ran]
  <2>1. k \in CallRecord /\ k.error = "failed" /\ k.entry = NoEntry
    BY <1>0, NewCallIs DEF NewCall, CallRecord, Failures
  <2>2. Sound([k EXCEPT !.stage = "ended"])
    BY <2>1, NoReasons DEF Sound, Matches, Reviewed, NotReasons, CallRecord
  <2> QED
    BY <1>0, <1>2, <2>1, <2>2, ProceedKeeps DEF Stages
<1>3. ASSUME NEW j \in Judged(c),
             LET known == [call[c] EXCEPT !.contextual = j.said,
                                          !.violation = IF @ = "none" THEN j.out ELSE @]
                 enforced == {r \in {j.out} \ {"none"} : r # j.said \/ Listed(c, r)}
                             \cup {r \in {j.said} \ {"none"} : Listed(c, r)}
                 reason == IF j.out # "none" THEN j.out ELSE j.said
             IN  IF \E r \in enforced : Denies(c, r)
                 THEN Refuse(c, known, reason, "escalate")
                 ELSE Proceed(c, known, "escalate")
      PROVE  CallInv' /\ Moved(c)
  <2> DEFINE violation == IF call[c].violation = "none" THEN j.out ELSE call[c].violation
             known == [call[c] EXCEPT !.contextual = j.said, !.violation = violation]
             reason == IF j.out # "none" THEN j.out ELSE j.said
  <2>1. /\ j.out \in {"none", "agent_guard_failed"} \cup EvaluatorReasons
        /\ j.said \in EvaluatorReasons \cup {"none"}
    BY <1>0 DEF Judged, CallRecord
  <2>2. {"agent_guard_failed"} \cup EvaluatorReasons \subseteq Reasons
    BY DEF Reasons
  <2>3. violation \in Reasons \cup {"none"}
    BY <1>0, <2>1, <2>2 DEF CallRecord
  <2>4. \/ Proceed(c, known, "escalate")
        \/ Refuse(c, known, reason, "escalate") /\ (j.out # "none" \/ j.said # "none")
    BY <1>3
  <2>5. j.out # "none" \/ j.said # "none" => reason \in Reasons
    BY <2>1, <2>2
  <2>6. call[c].violation # "none" => violation # "none"
    OBVIOUS
  <2> HIDE DEF violation, reason
  <2>7. known \in CallRecord /\ Accounted(known) /\ known.escalation = "none"
    BY <1>0, <1>1, <2>1, <2>3, <2>6 DEF CallRecord, Accounted
  <2> HIDE DEF known
  <2>8. CASE Proceed(c, known, "escalate")
    BY <1>0, <2>7, <2>8, OnwardKeeps
  <2>9. CASE /\ Refuse(c, known, reason, "escalate") /\ (j.out # "none" \/ j.said # "none")
    BY <1>0, <2>5, <2>7, <2>9, RefuseKeeps
  <2> QED
    BY <2>4, <2>8, <2>9
<1> QED
  BY <1>2, <1>3 DEF GuardOutput

LEMMA EscalateKeeps == ASSUME CallInv, NEW c \in Calls, Escalate(c) PROVE CallInv' /\ Moved(c)
<1>0. call[c] \in CallRecord /\ Sound(call[c]) /\ call[c].stage = "escalate"
  BY DEF CallInv, Escalate
<1>1. Accounted(call[c]) /\ call[c].escalation = "none"
  BY <1>0 DEF Sound
<1>2. call[c].error \in Reasons => Concerns(c) = call[c].error
  BY <1>1 DEF Accounted, Concerns
<1>3. ASSUME NEW e \in {"asked", "refused"}, Concerns(c) \in EvaluatorReasons \cup EscalateOn,
             Proceed(c, [call[c] EXCEPT !.escalation = e, !.contextual = "none",
                                        !.approval = "unasked"], "audit")
      PROVE  CallInv' /\ Moved(c)
  <2> DEFINE k == [call[c] EXCEPT !.escalation = e, !.contextual = "none",
                                  !.approval = "unasked"]
  <2>1. k \in CallRecord
    BY <1>0 DEF CallRecord
  <2>2. Sound([k EXCEPT !.stage = "audit"])
    BY <1>0, <1>1, <1>2, <1>3 DEF Sound, Accounted, Reviewed, CallRecord
  <2> QED
    BY <1>0, <1>3, <2>1, <2>2, ProceedKeeps DEF Stages
<1>4. ASSUME Concerns(c) \notin EvaluatorReasons \cup EscalateOn,
             Proceed(c, [call[c] EXCEPT !.contextual = "none", !.approval = "unasked"], "audit")
      PROVE  CallInv' /\ Moved(c)
  <2> DEFINE k == [call[c] EXCEPT !.contextual = "none", !.approval = "unasked"]
  <2>1. k \in CallRecord
    BY <1>0 DEF CallRecord
  <2>2. Sound([k EXCEPT !.stage = "audit"])
    BY <1>0, <1>1, <1>2, <1>4 DEF Sound, Accounted, Reviewed, CallRecord
  <2> QED
    BY <1>0, <1>4, <2>1, <2>2, ProceedKeeps DEF Stages
<1> QED
  BY <1>3, <1>4 DEF Escalate

LEMMA RecordKeeps ==
    ASSUME CallInv, published \in Policies, NEW c \in Calls, Record(c)
    PROVE  CallInv' /\ Moved(c) /\ \E error : window' = PushStat(window, error)
                                  /\ (call[c].error # "none" => error # "none")
<1>0. call[c] \in CallRecord /\ Sound(call[c]) /\ call[c].stage = "audit"
  BY DEF CallInv, Record
<1>1. Accounted(call[c]) /\ Reviewed(call[c])
  BY <1>0 DEF Sound
<1>2. PICK error :
         /\ error \in {"unsigned", call[c].error}
         /\ Proceed(c, [NewCall EXCEPT
                         !.entry = [decision |-> call[c].decision,
                                    violation |-> call[c].violation],
                         !.escalation = call[c].escalation, !.ran = call[c].ran,
                         !.error = error], "ended")
         /\ window' = PushStat(window, error)
  BY DEF Record
<1> DEFINE k == [NewCall EXCEPT !.entry = [decision |-> call[c].decision,
                                           violation |-> call[c].violation],
                                !.escalation = call[c].escalation, !.ran = call[c].ran,
                                !.error = error]
<1>3. error \in {"none"} \cup Reasons \cup Failures
  BY <1>0, <1>2 DEF CallRecord, Failures
<1>4. /\ k \in CallRecord /\ k.error = error /\ k.escalation = call[c].escalation
      /\ k.entry.decision = call[c].decision /\ k.entry.violation = call[c].violation
  <2> DEFINE entry == [decision |-> call[c].decision, violation |-> call[c].violation]
  <2>1. /\ entry \in [decision : {"none", "allow", "deny"}, violation : Reasons \cup {"none"}]
        /\ entry.decision = call[c].decision /\ entry.violation = call[c].violation
    BY <1>0 DEF CallRecord
  <2> HIDE DEF entry
  <2>2. PICK escalation \in {"none", "asked", "refused"}, ran \in BOOLEAN :
            escalation = call[c].escalation /\ ran = call[c].ran
    BY <1>0 DEF CallRecord
  <2>3. PICK l \in CallRecord : l = NewCall
    BY NewCallIs
  <2> DEFINE m == [l EXCEPT !.entry = entry, !.escalation = escalation, !.ran = ran,
                            !.error = error]
  <2>4. m \in CallRecord
    BY <1>3, <2>1, <2>2 DEF CallRecord
  <2>5. m.error = error /\ m.entry = entry /\ m.escalation = escalation
    BY DEF CallRecord
  <2>6. k = m
    BY <2>2, <2>3 DEF entry
  <2> HIDE DEF k, m
  <2> QED
    BY <2>1, <2>2, <2>4, <2>5, <2>6
<1>5. [k EXCEPT !.stage = "ended"] \in CallRecord /\ Sound([k EXCEPT !.stage = "ended"])
  <2> HIDE DEF k
  <2> DEFINE ended == [k EXCEPT !.stage = "ended"]
  <2>1. /\ ended \in CallRecord /\ ended.stage = "ended" /\ ended.error = error
        /\ ended.escalation = call[c].escalation
        /\ ended.entry.decision = call[c].decision
        /\ ended.entry.violation = call[c].violation
    BY <1>4 DEF CallRecord, Stages
  <2> HIDE DEF ended
  <2>2. error \in Reasons => error = call[c].error
    BY <1>2, NoReasons DEF NotReasons
  <2>3. Matches(ended)
    <3>1. error \in Reasons => call[c].decision = "deny"
      BY <1>1, <2>2 DEF Accounted
    <3>2. error = "none" /\ call[c].decision = "deny" => call[c].violation # "none"
      BY <1>1, <1>2 DEF Accounted
    <3> QED
      BY <1>3, <2>1, <3>1, <3>2 DEF Matches
  <2>4. Reviewed(ended)
    BY <1>1, <2>1, <2>2 DEF Reviewed
  <2>5. Sound(ended)
    BY <2>1, <2>3, <2>4 DEF Sound
  <2> QED
    BY <2>1, <2>5 DEF ended
<1>6. CallInv' /\ Moved(c)
  <2>1. Proceed(c, k, "ended")
    BY <1>2
  <2> HIDE DEF k
  <2> QED
    BY <1>0, <1>4, <1>5, <2>1, ProceedKeeps DEF Stages
<1> QED
  BY <1>2, <1>6

LEMMA ForgetKeeps ==
    ASSUME CallInv, published \in Policies, NEW c \in Calls, Forget(c)
    PROVE  CallInv'
<1> DEFINE Aged(set) == IF c \in set THEN (set \ {c}) \cup {Gone} ELSE set
<1>1. call' = [d \in Calls |-> IF d = c THEN NewCall ELSE [call[d] EXCEPT !.saved = Aged(@)]]
  BY DEF Forget
<1>2. ASSUME NEW d \in Calls PROVE call'[d] \in CallRecord /\ Sound(call'[d])
  <2>1. CASE d = c
    BY <1>1, <2>1, NewCallIs
  <2>2. CASE d # c
    <3>1. call[d] \in CallRecord /\ Sound(call[d])
      BY DEF CallInv
    <3>2. Aged(call[d].saved) \in SUBSET (Calls \cup {Gone})
      BY <3>1 DEF CallRecord
    <3>3. call'[d] = [call[d] EXCEPT !.saved = Aged(call[d].saved)]
      BY <1>1, <2>2
    <3> HIDE DEF Aged
    <3>4. call'[d] \in CallRecord
      BY <3>1, <3>2, <3>3 DEF CallRecord
    <3>5. /\ call'[d].stage = call[d].stage /\ call'[d].denyOn = call[d].denyOn
          /\ call'[d].violation = call[d].violation /\ call'[d].decision = call[d].decision
          /\ call'[d].error = call[d].error /\ call'[d].escalation = call[d].escalation
          /\ call'[d].entry = call[d].entry
      BY <3>1, <3>3 DEF CallRecord
    <3> QED
      BY <3>1, <3>4, <3>5 DEF Sound, LetGo, Accounted, Reviewed, Matches
  <2> QED
    BY <2>1, <2>2
<1>3. call' \in [Calls -> CallRecord]
  BY <1>1, <1>2
<1> QED
  BY <1>2, <1>3 DEF CallInv

----------------------------------------------------------------------------
\* The guards.

\* Handlers that overlap, as a stack as long as each ends before those it began
\* after: of two that run one has seen the other run, and no guard is missing
\* from what a handler will restore but those of calls cut short.
NestInv ==
    /\ \A d \in Calls : inside[d] \subseteq Running \ {d}
    /\ \A c, d \in Running : c # d => c \in inside[d] \/ d \in inside[c]
    /\ \A c \in Running \ crossed : c \in guards
    /\ \A d \in Running : inside[d] \ crossed \subseteq call[d].saved
    /\ Gone \notin crossed => /\ guards = Running
                              /\ \A d \in Running : call[d].saved = inside[d]

LEMMA NestedIsGuarded == NestInv => GuardsHold
  BY DEF NestInv, GuardsHold

LEMMA MovedNests ==
    ASSUME NestInv, inside \in [Calls -> SUBSET Calls], NEW c \in Calls,
           Moved(c), UNCHANGED crossed
    PROVE  NestInv'
<1>1. CASE Aside
  BY <1>1 DEF Aside, NestInv
<1>2. CASE Entering(c)
  <2> USE <1>2 DEF Entering
  <2>1. \A d \in Calls : inside'[d] = IF d = c THEN Running ELSE inside[d]
    OBVIOUS
  <2>2. \A d \in Calls : inside'[d] \subseteq Running' \ {d}
    BY <2>1 DEF NestInv
  <2>3. \A a, b \in Running' : a # b => a \in inside'[b] \/ b \in inside'[a]
    <3>1. Running' \subseteq Calls
      BY DEF Running
    <3> QED
      BY <2>1, <3>1 DEF NestInv
  <2>4. \A a \in Running' \ crossed : a \in guards'
    BY DEF NestInv
  <2>5. \A d \in Running' : inside'[d] \ crossed \subseteq call'[d].saved
    BY <2>1 DEF NestInv, Running
  <2>6. Gone \notin crossed => /\ guards' = Running'
                              /\ \A d \in Running' : call'[d].saved = inside'[d]
    BY <2>1 DEF NestInv, Running
  <2> QED
    BY <2>2, <2>3, <2>4, <2>5, <2>6 DEF NestInv
<1> QED
  BY <1>1, <1>2 DEF Moved

LEMMA EndsNests ==
    ASSUME NestInv, CallInv, inside \in [Calls -> SUBSET Calls], ToolAssumption,
           NEW c \in Calls, ToolEnds(c)
    PROVE  NestInv'
<1> DEFINE cut == {d \in Running \ {c} : c \in inside[d]}
<1>1. /\ c \in Running /\ Gone \notin Running
      /\ crossed' = (crossed \ {c}) \cup cut \cup (IF cut = {} THEN {} ELSE {Gone})
      /\ inside' = [d \in Calls |-> IF d = c THEN {} ELSE inside[d] \ {c}]
      /\ guards' = call[c].saved
  BY DEF ToolEnds, Running, Restore, ToolAssumption
<1>2. /\ Running' = Running \ {c}
      /\ \A d \in Running' : call'[d].saved = call[d].saved
  <2>0. call[c] \in CallRecord
    BY DEF CallInv, ToolEnds
  <2> DEFINE Back(known, to) == call' = [call EXCEPT ![c] = [known EXCEPT !.stage = to,
                                                                          !.saved = {}]]
  <2>3. \/ Back(call[c], "recheck")
        \/ Back([call[c] EXCEPT !.error = "failed"], "recheck")
        \/ \E v \in GuardReasons :
              Back([call[c] EXCEPT !.violation = v, !.decision = "deny"], "blocked")
    BY DEF ToolEnds
  <2>4. \E k : call' = [call EXCEPT ![c] = k] /\ k.stage # "running"
    <3>1. /\ [call[c] EXCEPT !.stage = "recheck", !.saved = {}].stage = "recheck"
          /\ [[call[c] EXCEPT !.error = "failed"]
                EXCEPT !.stage = "recheck", !.saved = {}].stage = "recheck"
          /\ \A v \in GuardReasons :
                [[call[c] EXCEPT !.violation = v, !.decision = "deny"]
                   EXCEPT !.stage = "blocked", !.saved = {}].stage = "blocked"
      BY <2>0 DEF CallRecord
    <3>2. CASE Back(call[c], "recheck")
      BY <3>1, <3>2
    <3>3. CASE Back([call[c] EXCEPT !.error = "failed"], "recheck")
      BY <3>1, <3>3
    <3>4. ASSUME NEW v \in GuardReasons,
                 Back([call[c] EXCEPT !.violation = v, !.decision = "deny"], "blocked")
          PROVE  \E k : call' = [call EXCEPT ![c] = k] /\ k.stage # "running"
      BY <3>1, <3>4
    <3> QED
      BY <2>3, <3>2, <3>3, <3>4
  <2>1. PICK k : call' = [call EXCEPT ![c] = k] /\ k.stage # "running"
    BY <2>4
  <2> QED
    BY <2>1 DEF CallInv, Running
<1> HIDE DEF cut
<1>3. \A d \in Calls : inside'[d] \subseteq Running' \ {d}
  BY <1>1, <1>2 DEF NestInv
<1>4. \A a, b \in Running' : a # b => a \in inside'[b] \/ b \in inside'[a]
  BY <1>1, <1>2 DEF NestInv, Running
<1>5. \A a \in Running' \ crossed' : a \in guards'
  <2> SUFFICES ASSUME NEW a \in Running' \ crossed' PROVE a \in call[c].saved
    BY <1>1
  <2>1. a \in Running /\ a # c /\ a \notin crossed /\ a \notin cut
    BY <1>1, <1>2
  <2>2. a \in inside[c]
    BY <1>1, <2>1 DEF NestInv, cut
  <2> QED
    BY <1>1, <2>1, <2>2 DEF NestInv
<1>6. \A d \in Running' : inside'[d] \ crossed' \subseteq call'[d].saved
  BY <1>1, <1>2 DEF NestInv, Running
<1>7. ASSUME Gone \notin crossed'
      PROVE  guards' = Running' /\ \A d \in Running' : call'[d].saved = inside'[d]
  <2>1. cut = {} /\ Gone \notin crossed
    BY <1>1, <1>7 DEF Running
  <2>2. \A d \in Running \ {c} : c \notin inside[d] /\ d \in inside[c]
    BY <1>1, <2>1 DEF NestInv, cut
  <2>3. call[c].saved = Running \ {c}
    BY <1>1, <2>1, <2>2 DEF NestInv
  <2>4. \A d \in Running' : call'[d].saved = inside'[d]
    <3> SUFFICES ASSUME NEW d \in Running' PROVE call'[d].saved = inside'[d]
      OBVIOUS
    <3>1. d \in Running \ {c} /\ d \in Calls
      BY <1>2 DEF Running
    <3>2. inside'[d] = inside[d] \ {c} /\ c \notin inside[d]
      BY <1>1, <2>2, <3>1
    <3>3. call'[d].saved = inside[d]
      BY <1>2, <2>1, <3>1 DEF NestInv
    <3> QED
      BY <3>2, <3>3
  <2> QED
    BY <1>1, <1>2, <2>3, <2>4
<1> QED
  BY <1>3, <1>4, <1>5, <1>6, <1>7 DEF NestInv

LEMMA ForgetNests ==
    ASSUME NestInv, CallInv, ToolAssumption, NEW c \in Calls, Forget(c)
    PROVE  NestInv'
<1> DEFINE Aged(set) == IF c \in set THEN (set \ {c}) \cup {Gone} ELSE set
<1>1. /\ c \notin Running /\ guards' = Aged(guards) /\ UNCHANGED << inside, crossed >>
      /\ call' = [d \in Calls |-> IF d = c THEN NewCall ELSE [call[d] EXCEPT !.saved = Aged(@)]]
  BY DEF Forget, Running
<1>2. /\ Running' = Running
      /\ \A d \in Running : call'[d].saved = Aged(call[d].saved)
  <2>1. \A d \in Calls \ {c} : /\ call'[d].stage = call[d].stage
                               /\ call'[d].saved = Aged(call[d].saved)
    BY <1>1 DEF CallInv, CallRecord
  <2>2. call'[c].stage = "new"
    BY <1>1 DEF NewCall
  <2> QED
    BY <1>1, <2>1, <2>2 DEF Running
<1>3. \A d \in Calls : c \notin inside[d]
  BY <1>1 DEF NestInv
<1>4. \A a \in Running' \ crossed' : a \in guards'
  BY <1>1, <1>2 DEF NestInv
<1>5. \A d \in Running' : inside'[d] \ crossed' \subseteq call'[d].saved
  <2>1. ASSUME NEW d \in Running, NEW x \in inside[d] \ crossed
        PROVE  x \in call'[d].saved
    <3>1. x \in call[d].saved /\ x # c
      BY <1>3 DEF NestInv, Running
    <3>2. call'[d].saved = Aged(call[d].saved)
      BY <1>2
    <3> QED
      BY <3>1, <3>2
  <2>2. \A d \in Running : inside[d] \ crossed \subseteq call'[d].saved
    BY <2>1
  <2> QED
    BY <1>1, <1>2, <2>2
<1>6. Gone \notin crossed' => /\ guards' = Running'
                             /\ \A d \in Running' : call'[d].saved = inside'[d]
  BY <1>1, <1>2, <1>3 DEF NestInv, Running
<1> QED
  BY <1>1, <1>2, <1>4, <1>5, <1>6 DEF NestInv

----------------------------------------------------------------------------
\* The breaker's window.

LEMMA PushStatIs ==
    ASSUME ToolAssumption, NEW s \in Seq(BOOLEAN), Len(s) <= WindowSize, NEW error
    PROVE  PushStat(s, error) \in Seq(BOOLEAN) /\ Len(PushStat(s, error)) <= WindowSize
<1> DEFINE all == Append(s, error = "none")
<1>1. (error = "none") \in BOOLEAN
  OBVIOUS
<1>2. all \in Seq(BOOLEAN) /\ all # << >> /\ Len(all) = Len(s) + 1
  BY <1>1, AppendProperties
<1>3. PushStat(s, error) = IF Len(all) > WindowSize THEN Tail(all) ELSE all
  BY DEF PushStat
<1> HIDE DEF all
<1>4. Tail(all) \in Seq(BOOLEAN) /\ Len(Tail(all)) = Len(all) - 1
  BY <1>2, HeadTailProperties
<1>5. Len(s) \in Nat /\ WindowSize \in Nat
  BY LenProperties DEF ToolAssumption
<1>6. CASE Len(all) > WindowSize
  <2>1. PushStat(s, error) = Tail(all)
    BY <1>3, <1>6
  <2>2. Len(Tail(all)) = Len(s)
    BY <1>2, <1>4, <1>5
  <2> QED
    BY <1>4, <2>1, <2>2
<1>7. CASE ~(Len(all) > WindowSize)
  <2>1. PushStat(s, error) = all
    BY <1>3, <1>7
  <2>2. Len(all) <= WindowSize
    BY <1>2, <1>5, <1>7
  <2> QED
    BY <1>2, <2>1, <2>2
<1> QED
  BY <1>6, <1>7

FailuresOf(s) == {i \in DOMAIN s : ~s[i]}

LEMMA FailedIs ==
    ASSUME NEW s \in Seq(BOOLEAN)
    PROVE  /\ IsFiniteSet(FailuresOf(s)) /\ FailuresOf(s) \subseteq 1 .. Len(s)
           /\ Failed(s) = Cardinality(FailuresOf(s))
           /\ Failed(s) \in Nat /\ Failed(s) <= Len(s)
<1>1. Len(s) \in Nat /\ DOMAIN s = 1 .. Len(s)
  BY LenProperties
<1>2. FailuresOf(s) \subseteq 1 .. Len(s)
  BY <1>1 DEF FailuresOf
<1>3. IsFiniteSet(1 .. Len(s)) /\ Cardinality(1 .. Len(s)) = Len(s)
  BY <1>1, FS_Interval
<1>4. IsFiniteSet(FailuresOf(s)) /\ Cardinality(FailuresOf(s)) <= Len(s)
  BY <1>2, <1>3, FS_Subset
<1>5. Failed(s) = Cardinality(FailuresOf(s))
  BY DEF Failed, FailuresOf
<1> QED
  BY <1>2, <1>4, <1>5, FS_CardinalityType

\* One more failure counts as one.
LEMMA FailedAppend ==
    ASSUME NEW s \in Seq(BOOLEAN)
    PROVE  Failed(Append(s, FALSE)) = Failed(s) + 1
<1>1. /\ Append(s, FALSE) \in Seq(BOOLEAN) /\ Len(Append(s, FALSE)) = Len(s) + 1
      /\ \A i \in 1 .. Len(s) : Append(s, FALSE)[i] = s[i]
      /\ Append(s, FALSE)[Len(s) + 1] = FALSE
  BY AppendProperties
<1>2. /\ Len(s) \in Nat /\ DOMAIN s = 1 .. Len(s)
      /\ DOMAIN Append(s, FALSE) = 1 .. Len(s) + 1
  BY <1>1, LenProperties
<1>3. FailuresOf(Append(s, FALSE)) = FailuresOf(s) \cup {Len(s) + 1}
  BY <1>1, <1>2 DEF FailuresOf
<1>4. Len(s) + 1 \notin FailuresOf(s)
  BY <1>2 DEF FailuresOf
<1>5. Cardinality(FailuresOf(s) \cup {Len(s) + 1}) = Cardinality(FailuresOf(s)) + 1
  BY <1>4, FailedIs, FS_AddElement
<1> QED
  BY <1>1, <1>3, <1>5, FailedIs

\* And the oldest sample is at most one failure.
LEMMA FailedTail ==
    ASSUME NEW s \in Seq(BOOLEAN), s # << >>
    PROVE  Failed(Tail(s)) >= Failed(s) - 1
<1>1. /\ Tail(s) \in Seq(BOOLEAN) /\ Len(Tail(s)) = Len(s) - 1
      /\ Len(s) \in Nat \ {0} /\ DOMAIN s = 1 .. Len(s)
      /\ DOMAIN Tail(s) = 1 .. (Len(s) - 1)
  BY HeadTailProperties, EmptySeq, LenProperties
<1>2. \A i \in 1 .. (Len(s) - 1) : Tail(s)[i] = s[i + 1]
  BY <1>1
<1> DEFINE later == FailuresOf(s) \ {1}
           f == [i \in later |-> i - 1]
<1>3. f \in Injection(later, FailuresOf(Tail(s)))
  <2>1. \A i \in later : i \in 2 .. Len(s) /\ ~s[i]
    BY <1>1 DEF FailuresOf
  <2>2. \A i \in later : i - 1 \in FailuresOf(Tail(s))
    BY <1>1, <1>2, <2>1 DEF FailuresOf
  <2>3. \A i, j \in later : i - 1 = j - 1 => i = j
    BY <1>1, <2>1
  <2> HIDE DEF later
  <2> QED
    BY <2>2, <2>3 DEF Injection, IsInjective
<1>4. /\ IsFiniteSet(FailuresOf(s)) /\ Failed(s) = Cardinality(FailuresOf(s))
      /\ Failed(s) \in Nat
      /\ IsFiniteSet(FailuresOf(Tail(s))) /\ Failed(Tail(s)) = Cardinality(FailuresOf(Tail(s)))
      /\ Failed(Tail(s)) \in Nat
  BY <1>1, FailedIs
<1> HIDE DEF f
<1>5. Cardinality(later) <= Failed(Tail(s))
  BY <1>3, <1>4, FS_Injection
<1>6. Cardinality(later) = IF 1 \in FailuresOf(s) THEN Failed(s) - 1 ELSE Failed(s)
  BY <1>4, FS_RemoveElement
<1> HIDE DEF later
<1>7. Cardinality(later) \in Int /\ Cardinality(later) >= Failed(s) - 1
  BY <1>4, <1>6
<1> QED
  BY <1>4, <1>5, <1>7

\* A failure sampled leaves an open breaker open.
LEMMA StaysOpen ==
    ASSUME ToolAssumption, window \in Seq(BOOLEAN), Len(window) <= WindowSize, BreakerOpen,
           NEW error, error # "none", window' = PushStat(window, error)
    PROVE  BreakerOpen'
<1> DEFINE all == Append(window, FALSE)
<1>1. /\ all \in Seq(BOOLEAN) /\ all # << >> /\ Len(all) = Len(window) + 1
      /\ Failed(all) = Failed(window) + 1
  BY AppendProperties, FailedAppend
<1>2. window' = IF Len(all) > WindowSize THEN Tail(all) ELSE all
  BY DEF PushStat
<1>3. /\ Len(window) \in Nat /\ WindowSize \in Nat /\ MinSamples \in Nat \ {0}
      /\ ErrorRate \in Nat \ {0} /\ Failed(window) \in Nat /\ Failed(window) <= Len(window)
      /\ Len(window) >= MinSamples /\ Failed(window) * 100 >= ErrorRate * Len(window)
  BY FailedIs, LenProperties DEF ToolAssumption, BreakerOpen
<1>4. ASSUME NEW e \in Nat, NEW n \in Nat \ {0}, NEW k \in Nat, k <= n, k * 100 >= e * n
      PROVE  e <= 100
  <2>1. SUFFICES ASSUME e >= 101 PROVE FALSE
    OBVIOUS
  <2>2. PICK r \in Nat : e = 101 + r
    <3>1. e - 101 \in Nat /\ e = 101 + (e - 101)
      BY <2>1
    <3> QED
      BY <3>1
  <2>3. r * n \in Nat /\ e * n = 101 * n + r * n
    BY <2>2
  <2> QED
    BY <1>4, <2>3
<1>5. ErrorRate <= 100
  BY <1>3, <1>4
<1> HIDE DEF all
<1>6. CASE Len(all) > WindowSize
  <2>1. /\ Tail(all) \in Seq(BOOLEAN) /\ Len(Tail(all)) = Len(all) - 1
        /\ Failed(Tail(all)) >= Failed(all) - 1 /\ Failed(Tail(all)) \in Nat
    BY <1>1, HeadTailProperties, FailedTail, FailedIs
  <2>2. Len(window') = Len(window) /\ Failed(window') >= Failed(window)
        /\ Failed(window') \in Nat
    BY <1>1, <1>2, <1>3, <1>6, <2>1
  <2>3. Failed(window') * 100 >= ErrorRate * Len(window')
    BY <1>3, <2>2
  <2>4. Len(window') >= MinSamples
    BY <1>3, <2>2
  <2> QED
    BY <2>3, <2>4 DEF BreakerOpen, Failed
<1>7. CASE ~(Len(all) > WindowSize)
  <2>1. window' = all
    BY <1>2, <1>7
  <2>2. ErrorRate * (Len(window) + 1) = ErrorRate * Len(window) + ErrorRate
    BY <1>3
  <2>3. (Failed(window) + 1) * 100 >= ErrorRate * (Len(window) + 1)
    BY <1>3, <1>5, <2>2
  <2>4. Failed(window') * 100 >= ErrorRate * Len(window')
    BY <1>1, <2>1, <2>3
  <2>5. Len(window') >= MinSamples
    BY <1>1, <1>3, <2>1
  <2> QED
    BY <2>4, <2>5 DEF BreakerOpen, Failed
<1> QED
  BY <1>6, <1>7

----------------------------------------------------------------------------
\* The steps together.

\* The types of everything but the calls.
AroundOK ==
    /\ published \in Policies
    /\ window \in Seq(BOOLEAN) /\ Len(window) <= WindowSize
    /\ tampered \subseteq {"attempted", "replaced"}
    /\ guards \subseteq Calls \cup {Gone}
    /\ inside \in [Calls -> SUBSET Calls]
    /\ crossed \subseteq Calls \cup {Gone}

ToolInv == CallInv /\ AroundOK /\ NestInv

LEMMA ToolStart == ASSUME ToolAssumption, Init PROVE ToolInv
<1>1. NewCall \in CallRecord /\ Sound(NewCall) /\ call = [c \in Calls |-> NewCall]
  BY NewCallIs DEF Init
<1>2. CallInv
  BY <1>1 DEF CallInv
<1>3. Running = {}
  BY DEF Init, Running, NewCall
<1>4. NestInv
  BY <1>3 DEF Init, NestInv, ToolAssumption
<1>5. AroundOK
  <2>1. << >> \in Seq(BOOLEAN) /\ Len(<< >>) = 0
    BY EmptySeq
  <2> QED
    BY <2>1 DEF Init, AroundOK, ToolAssumption
<1> QED
  BY <1>2, <1>4, <1>5 DEF ToolInv

\* Of the steps of a call, all but those of a handler's end and of a call's
\* leaving are moves.
LEMMA MoveKeeps ==
    ASSUME ToolAssumption, ToolInv, NEW c \in Calls, CallInv', Moved(c),
           published' \in Policies, UNCHANGED << tampered, crossed >>,
           window' = window \/ \E error : window' = PushStat(window, error)
    PROVE  ToolInv'
<1>1. NestInv'
  BY MovedNests DEF ToolInv, AroundOK
<1>2. window' \in Seq(BOOLEAN) /\ Len(window') <= WindowSize
  BY PushStatIs DEF ToolInv, AroundOK
<1>3. guards' \subseteq Calls \cup {Gone} /\ inside' \in [Calls -> SUBSET Calls]
  <2>1. Running \in SUBSET Calls
    BY DEF Running
  <2>2. CASE Aside
    BY <2>2 DEF Aside, ToolInv, AroundOK
  <2>3. CASE Entering(c)
    BY <2>1, <2>3 DEF Entering, ToolInv, AroundOK
  <2> QED
    BY <2>2, <2>3 DEF Moved
<1> QED
  BY <1>1, <1>2, <1>3 DEF ToolInv, AroundOK

LEMMA EndsKeeps ==
    ASSUME ToolAssumption, ToolInv, NEW c \in Calls, ToolEnds(c)
    PROVE  ToolInv'
<1>1. CallInv' /\ NestInv'
  BY ToolEndsKeeps, EndsNests DEF ToolInv, AroundOK
<1>2. guards' \subseteq Calls \cup {Gone}
  <2>1. guards' = call[c].saved
    BY DEF ToolEnds, Restore
  <2>2. call[c] \in CallRecord
    BY DEF ToolInv, CallInv
  <2> QED
    BY <2>1, <2>2 DEF CallRecord
<1>3. inside' \in [Calls -> SUBSET Calls]
  BY DEF ToolEnds, ToolInv, AroundOK
<1>4. crossed' \subseteq Calls \cup {Gone}
  <2> DEFINE cut == {d \in Running \ {c} : c \in inside[d]}
  <2>1. cut \subseteq Calls
    BY DEF Running
  <2>2. crossed' = (crossed \ {c}) \cup cut \cup (IF cut = {} THEN {} ELSE {Gone})
    BY DEF ToolEnds
  <2> HIDE DEF cut
  <2> QED
    BY <2>1, <2>2 DEF ToolInv, AroundOK
<1>5. UNCHANGED << published, window, tampered >>
  BY DEF ToolEnds
<1> QED
  BY <1>1, <1>2, <1>3, <1>4, <1>5 DEF ToolInv, AroundOK

LEMMA LeavingKeeps ==
    ASSUME ToolAssumption, ToolInv, NEW c \in Calls, Forget(c)
    PROVE  ToolInv'
<1>1. CallInv' /\ NestInv'
  BY ForgetKeeps, ForgetNests DEF ToolInv, AroundOK
<1>2. guards' \subseteq Calls \cup {Gone} /\ UNCHANGED << published, window, tampered, inside, crossed >>
  BY DEF Forget, ToolInv, AroundOK
<1> QED
  BY <1>1, <1>2 DEF ToolInv, AroundOK

LEMMA TamperKeeps == ASSUME ToolInv, Tamper PROVE ToolInv'
<1>1. UNCHANGED << call, published, window, guards, inside, crossed >>
  BY DEF Tamper
<1>2. tampered' \subseteq {"attempted", "replaced"}
  BY DEF Tamper, ToolInv, AroundOK
<1>3. CallInv' /\ NestInv'
  BY <1>1 DEF ToolInv, CallInv, NestInv, Running
<1> QED
  BY <1>1, <1>2, <1>3 DEF ToolInv, AroundOK

LEMMA CallStepKeeps ==
    ASSUME ToolAssumption, ToolInv, NEW c \in Calls, Start(c) \/ Step(c)
    PROVE  ToolInv'
<1> USE DEF ToolInv, AroundOK
<1>1. CASE Start(c)
  BY <1>1, StartKeeps, MoveKeeps DEF Start
<1>2. CASE Resolve(c)
  <2>1. published' \in Policies /\ UNCHANGED << window, tampered, crossed >>
    BY <1>2 DEF Resolve
  <2> QED
    BY <1>2, <2>1, ResolveKeeps, MoveKeeps
<1>3. CASE Judge(c)
  BY <1>3, JudgeKeeps, MoveKeeps DEF Judge
<1>4. CASE Evaluate(c)
  BY <1>4, EvaluateKeeps, MoveKeeps DEF Evaluate
<1>5. CASE ToolEnds(c)
  BY <1>5, EndsKeeps
<1>6. CASE Blocked(c)
  BY <1>6, BlockedKeeps, MoveKeeps DEF Blocked
<1>7. CASE Recheck(c)
  BY <1>7, RecheckKeeps, MoveKeeps DEF Recheck
<1>8. CASE GuardInput(c)
  BY <1>8, GuardInputKeeps, MoveKeeps DEF GuardInput
<1>9. CASE Scan(c)
  BY <1>9, ScanKeeps, MoveKeeps DEF Scan
<1>10. CASE GuardOutput(c)
  BY <1>10, GuardOutputKeeps, MoveKeeps DEF GuardOutput
<1>11. CASE Escalate(c)
  BY <1>11, EscalateKeeps, MoveKeeps DEF Escalate
<1>12. CASE Record(c)
  BY <1>12, RecordKeeps, MoveKeeps DEF Record
<1> QED
  BY <1>1, <1>2, <1>3, <1>4, <1>5, <1>6, <1>7, <1>8, <1>9, <1>10, <1>11, <1>12 DEF Step

LEMMA ToolStep == ASSUME ToolAssumption, ToolInv, [Next]_vars PROVE ToolInv'
<1>1. CASE Tamper
  BY <1>1, TamperKeeps
<1>2. ASSUME NEW c \in Calls, Start(c) \/ Step(c)
      PROVE  ToolInv'
  BY <1>2, CallStepKeeps
<1>3. ASSUME NEW c \in Calls, Forget(c)
      PROVE  ToolInv'
  BY <1>3, LeavingKeeps
<1>4. CASE UNCHANGED vars
  BY <1>4 DEF vars, ToolInv, CallInv, AroundOK, NestInv, Running
<1> QED
  BY <1>1, <1>2, <1>3, <1>4 DEF Next

LEMMA ToolInvariance == Spec => []ToolInv
<1>1. Init => ToolInv
  BY ToolStart, ToolAssumption
<1>2. ToolInv /\ [Next]_vars => ToolInv'
  BY ToolStep, ToolAssumption
<1> QED
  BY <1>1, <1>2, PTL DEF Spec

\* For any number of calls, any policies and any reasons to object: no handler
\* runs against a violation that the call's policy denies, without its policy
\* or behind an open breaker (toolInvocationPipeline.ts up to the handler).
THEOREM RunsOnlyLetThrough == Spec => []LetThrough
<1>1. ToolInv => LetThrough
  BY SoundIsLetThrough DEF ToolInv
<1> QED
  BY <1>1, ToolInvariance, PTL

\* The record, the caller's answer and the reviewer's question agree on every
\* call that is over, whatever the scans, the evaluator, an approval, a failing
\* reporter and a failing audit sink did to it on the way.
THEOREM AllAreToldAlike == Spec => []ToldAlike
<1>1. ToolInv => ToldAlike
  BY SoundIsTold DEF ToolInv, ToldAlike, TypeOK, CallInv, AroundOK
<1> QED
  BY <1>1, ToolInvariance, PTL

\* withGuardedIO under any overlap of any number of handlers: a handler lacks
\* its guards only when a call it began inside of has ended before it, and a
\* guard stays behind only after such a crossing.
THEOREM HandlersAreGuarded == Spec => []GuardsHold
<1>1. ToolInv => GuardsHold
  BY NestedIsGuarded DEF ToolInv
<1> QED
  BY <1>1, ToolInvariance, PTL

\* For every window, number of samples and error rate: an open breaker that
\* nothing in flight got past yet never closes again, since each refusal is
\* pushed as a failure of the tool.
THEOREM BreakerStaysOpen == Spec => OpenForGood
<1> DEFINE NonePast == \A c \in Calls : call[c].stage \in {"new", "policy", "ended"}
                                      \/ call[c].error # "none"
<1>1. ASSUME ToolInv, [Next]_vars, BreakerOpen, NonePast
      PROVE  BreakerOpen'
  <2>1. CASE window' = window
    BY <1>1, <2>1 DEF BreakerOpen, Failed
  <2>2. ASSUME NEW c \in Calls, Record(c)
        PROVE  BreakerOpen'
    <3>1. call[c].error # "none"
      BY <1>1, <2>2 DEF Record
    <3> QED
      BY <1>1, <2>2, <3>1, RecordKeeps, StaysOpen, ToolAssumption DEF ToolInv, AroundOK
  <2>3. window' = window \/ \E c \in Calls : Record(c)
    BY <1>1 DEF Next, vars, Tamper, Start, Step, Forget, Resolve, Judge, Evaluate, ToolEnds,
                Blocked, Recheck, GuardInput, Scan, GuardOutput, Escalate
  <2> QED
    BY <2>1, <2>2, <2>3
<1>2. ToolInv /\ [Next]_vars => [BreakerOpen /\ NonePast => BreakerOpen']_vars
  BY <1>1
<1> QED
  BY <1>2, ToolInvariance, PTL DEF Spec, OpenForGood
=============================================================================
