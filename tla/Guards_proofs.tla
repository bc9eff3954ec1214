---------------------------- MODULE Guards_proofs ----------------------------
(***************************************************************************)
(* Proofs about GuardEscalation, for any number of calls and watchers and  *)
(* any limit of errors; and about OpenClawHooks, for any calls, messages,  *)
(* policies, revisions and payloads, and whatever a guard or the evaluator *)
(* says of them.                                                           *)
(*                                                                         *)
(* The properties of GuardEscalation are not inductive: that an action     *)
(* runs only when cleared rests on what each stage implies of the policy's *)
(* decision and of what the call was told (CallInv), that verdicts agree   *)
(* on what a loop has read (LoopInv), and that no verdict is missed on     *)
(* both (CertainInv).                                                      *)
(* On the same invariant rests that it implements Approval.                *)
(*                                                                         *)
(* Those of OpenClawHooks rest on HooksInv: the allowlist is never ahead   *)
(* of the lists (ListsInv); a scan that passed is remembered, and only a   *)
(* permitted call makes a baseline (SkillsInv); what a call was told and   *)
(* where its permit waits (CallsInv); and that a content found bad is in   *)
(* quarantine or set free (MessagesInv).                                   *)
(***************************************************************************)
EXTENDS GuardEscalation, OpenClawHooks, FiniteSetTheorems, SequenceTheorems,
        WellFoundedInduction, TLAPS

----------------------------------------------------------------------------
(***************************************************************************)
(* GuardEscalation.                                                        *)
(***************************************************************************)
Cleared(c) ==
    \/ decision[c] \in {"allow", "redact"} /\ c \notin forbidden
    \/ decision[c] = "escalate" /\ review[c] = "approved" /\ told[c] = "approved"

\* What each stage of a call implies.
CallInv ==
    \A c \in Calls :
        /\ c \in ran \/ stage[c] = "act" => Cleared(c)
        /\ c \in ran => stage[c] = "ended"
        /\ stage[c] \in {"new", "create"} => review[c] = "none"
        /\ stage[c] = "new" => c \notin forbidden
        /\ stage[c] \in {"create", "hook", "ask", "waiting", "told"} =>
               decision[c] = "escalate"
        /\ stage[c] \in {"waiting", "told"} => watched[c] = c

\* What a caller waits for and was told.
ToldInv ==
    \A w \in Callers :
        /\ stage[w] \in {"new", "create", "hook", "ask", "waiting"} => told[w] = "none"
        /\ stage[w] = "waiting" => watched[w] \in Calls
        /\ told[w] \in Verdicts => watched[w] \in Calls /\ told[w] = review[watched[w]]

\* A verdict on its way is the reviewer's.
LoopInv ==
    \A c \in Calls :
        wait[c].at = "answered" /\ wait[c].read \in Verdicts => wait[c].read = review[c]

\* A caller that is certain of a verdict shares no answer from before it.
CertainInv ==
    \A w \in certain :
        /\ stage[w] = "waiting" =>
              /\ review[watched[w]] \in Verdicts
              /\ wait[watched[w]].at = "answered" => wait[watched[w]].read \in Verdicts
        /\ stage[w] \notin {"new", "create", "hook", "ask"}
        /\ told[w] # "timeout"

IInv == TypeOK /\ CallInv /\ ToldInv /\ LoopInv /\ CertainInv

----------------------------------------------------------------------------
\* A set of numbers that is not empty has a first one.
LEMMA FirstIsFirst ==
    ASSUME NEW T \in SUBSET Nat, T # {}
    PROVE  First(T) \in T /\ \A m \in T : First(T) <= m
<1>1. PICK x \in T : \A y \in T : << y, x >> \notin OpToRel(<, Nat)
  BY NatLessThanWellFounded, WFMin
<1>2. \A y \in T : ~(y < x)
  BY <1>1 DEF OpToRel
<1>3. \A y \in T : x <= y
  BY <1>2
<1> QED
  BY <1>3 DEF First

\* A policy comes to one of the four outcomes, and lets nothing pass that it
\* forbids: guard/policy.ts escalates and blocks before it redacts, and follows
\* the first rule that applies.
THEOREM PolicyObeyed ==
    ASSUME NEW q \in Questions
    PROVE  LET d == EvaluateGuardDecision(q.policy, q.input)
           IN  /\ d \in GuardOutcomes
               /\ d \in {"allow", "redact"} => ~Forbidden(q.policy, q.input)
<1> DEFINE p == q.policy
           i == q.input
           applying == RulesFor(p, i)
<1>1. CASE IsLegacyPolicyObject(p)
  BY <1>1 DEF EvaluateGuardDecision, Sanction, Forbidden, GuardOutcomes
<1>2. CASE ~IsLegacyPolicyObject(p) /\ applying = {}
  BY <1>2 DEF EvaluateGuardDecision, EvaluateGuardPolicyRule, DefaultOutcome, Forbidden,
              GuardOutcomes
<1>3. CASE ~IsLegacyPolicyObject(p) /\ applying # {}
  <2>1. /\ "rules" \in DOMAIN p
        /\ applying \subseteq DOMAIN p.rules
    BY <1>3 DEF RulesFor
  <2>2. p.rules \in Seq(ToSet(p.rules))
    BY <2>1, QuestionAssumption
  <2>3. DOMAIN p.rules \subseteq Nat
    BY <2>2
  <2>4. First(applying) \in applying /\ \A m \in applying : First(applying) <= m
    BY <1>3, <2>1, <2>3, FirstIsFirst
  <2>5. EvaluateGuardDecision(p, i) = p.rules[First(applying)].outcome
    BY <1>3 DEF EvaluateGuardDecision, EvaluateGuardPolicyRule
  <2>6. p.rules[First(applying)].outcome \in GuardOutcomes
    BY <2>1, <2>4, QuestionAssumption
  <2>7. ASSUME p.rules[First(applying)].outcome \in {"allow", "redact"}
        PROVE  ~Forbidden(p, i)
    BY <1>3, <2>4, <2>7 DEF Forbidden
  <2> QED
    BY <2>5, <2>6, <2>7
<1> QED
  BY <1>1, <1>2, <1>3

\* The loop goes on, in a shape of its own.
LEMMA Shapes ==
    ASSUME TypeOK, NEW c \in Calls, wait[c].at \in {"pause", "asked", "answered"}
    PROVE  /\ wait[c] \in Loops
           /\ [wait[c] EXCEPT !.at = "asked"] \in Loops
           /\ [wait[c] EXCEPT !.at = "answered", !.read = review[c]] \in Loops
           /\ [wait[c] EXCEPT !.at = "pause", !.read = "none", !.retries = 0] \in Loops
           /\ wait[c].retries # MaxRetries =>
                 [wait[c] EXCEPT !.at = "pause", !.read = "none", !.retries = @ + 1] \in Loops
           /\ [wait[c] EXCEPT !.late = TRUE] \in Loops
<1>1. wait[c] \in Loops
  BY DEF TypeOK, NoLoop
<1>2. wait[c].retries # MaxRetries => wait[c].retries + 1 \in 0 .. MaxRetries
  BY <1>1, GuardAssumption DEF Loops
<1>3. wait[c].retries # MaxRetries =>
         [wait[c] EXCEPT !.at = "pause", !.read = "none", !.retries = @ + 1] \in Loops
  BY <1>1, <1>2 DEF Loops
<1>4. [wait[c] EXCEPT !.at = "answered", !.read = review[c]] \in Loops
  BY <1>1 DEF TypeOK, Loops
<1>5. [wait[c] EXCEPT !.at = "pause", !.read = "none", !.retries = 0] \in Loops
  <2>1. 0 \in 0 .. MaxRetries
    BY GuardAssumption
  <2> QED
    BY <1>1, <2>1 DEF Loops
<1> QED
  BY <1>1, <1>3, <1>4, <1>5 DEF Loops

\* The end of a loop keeps the invariant, when a verdict it ends with is the
\* reviewer's and a timeout comes with no verdict read.
LEMMA SettleStep ==
    ASSUME IInv, NEW c \in Calls, NEW res \in Resolutions, Settle(c, res),
           UNCHANGED << decision, ran, outcome, review, watched, aborted, forbidden,
                        certain >>,
           res \in Verdicts => res = review[c],
           res = "timeout" => wait[c].at = "answered" /\ wait[c].read \notin Verdicts
    PROVE  IInv'
<1> USE DEF IInv, Settle
<1> DEFINE Sharer(w) == stage[w] = "waiting" /\ watched[w] = c
<1>1. /\ \A w \in Callers : told'[w] = IF Sharer(w) THEN res ELSE told[w]
      /\ \A w \in Callers : stage'[w] = IF ~Sharer(w) THEN stage[w]
                                        ELSE IF w \in Calls THEN "told" ELSE "ended"
      /\ \A d \in Calls : wait'[d] = IF d = c THEN NoLoop ELSE wait[d]
  BY DEF TypeOK
<1>2. TypeOK'
  <2>1. told' \in [Callers -> {"none"} \cup Resolutions]
    BY DEF TypeOK
  <2>2. stage' \in [Callers -> Stages]
    BY DEF TypeOK, Stages
  <2>3. wait' \in [Calls -> Loops \cup {NoLoop}]
    BY DEF TypeOK
  <2> QED
    BY <2>1, <2>2, <2>3 DEF TypeOK
<1>3. CallInv'
  BY <1>1 DEF CallInv, ToldInv, Cleared, Callers
<1>4. ToldInv'
  BY <1>1 DEF ToldInv
<1>5. LoopInv'
  BY <1>1 DEF LoopInv, NoLoop, Verdicts
<1>6. CertainInv'
  BY <1>1 DEF CertainInv, TypeOK, NoLoop
<1> QED
  BY <1>2, <1>3, <1>4, <1>5, <1>6

\* The loop that goes on with no answer, or with the status just read, keeps it.
LEMMA LoopStep ==
    ASSUME IInv, NEW c \in Calls, NEW l \in Loops, Loop(c, l),
           UNCHANGED << decision, ran, outcome, review, watched, aborted, forbidden,
                        certain >>,
           l.at = "answered" =>
               \/ l.read = review[c]
               \/ wait[c].at = "answered" /\ l.read = wait[c].read
    PROVE  IInv'
<1> USE DEF IInv, Loop
<1>1. \A d \in Calls : wait'[d] = IF d = c THEN l ELSE wait[d]
  BY DEF TypeOK
<1>2. TypeOK'
  BY DEF TypeOK
<1>3. CallInv' /\ ToldInv'
  BY DEF CallInv, ToldInv, Cleared
<1>4. LoopInv'
  BY <1>1 DEF LoopInv
<1>5. CertainInv'
  BY <1>1 DEF CertainInv, ToldInv, TypeOK
<1> QED
  BY <1>2, <1>3, <1>4, <1>5

----------------------------------------------------------------------------
LEMMA InitInv == Init => IInv
<1> SUFFICES ASSUME Init PROVE IInv
  OBVIOUS
<1>1. TypeOK
  BY DEF Init, TypeOK, Stages, Decisions, Outcomes
<1>2. CallInv /\ ToldInv /\ LoopInv /\ CertainInv
  BY DEF Init, CallInv, ToldInv, LoopInv, CertainInv, NoLoop, Verdicts, Callers
<1> QED
  BY <1>1, <1>2 DEF IInv

\* A call that goes to stage s of guard.execute keeps the invariant, when its
\* decision, its escalation and what it was told allow that stage.
LEMMA CallStep ==
    ASSUME IInv, TypeOK', NEW c \in Calls,
           NEW s \in {"create", "hook", "ask", "act", "ended"},
           \A w \in Callers : stage'[w] = IF w = c THEN s ELSE stage[w],
           \A e \in Calls : e # c =>
               /\ decision'[e] = decision[e] /\ review'[e] = review[e]
               /\ e \in forbidden' <=> e \in forbidden,
           ran' \subseteq ran \cup {c},
           UNCHANGED << wait, watched, told, aborted, certain >>,
           review'[c] = review[c] \/ review[c] = "none",
           c \in ran' \/ s = "act" => Cleared(c)',
           c \in ran' => s = "ended",
           s = "create" => review'[c] = "none",
           s \in {"create", "hook", "ask"} =>
               decision'[c] = "escalate" /\ told[c] = "none" /\ c \notin certain
    PROVE  IInv'
<1> USE DEF IInv
<1>1. CallInv'
  <2> SUFFICES ASSUME NEW e \in Calls
               PROVE  /\ e \in ran' \/ stage'[e] = "act" => Cleared(e)'
                      /\ e \in ran' => stage'[e] = "ended"
                      /\ stage'[e] \in {"new", "create"} => review'[e] = "none"
                      /\ stage'[e] = "new" => e \notin forbidden'
                      /\ stage'[e] \in {"create", "hook", "ask", "waiting", "told"} =>
                             decision'[e] = "escalate"
                      /\ stage'[e] \in {"waiting", "told"} => watched'[e] = e
    BY DEF CallInv
  <2>0. e \in Callers
    BY DEF Callers
  <2>1. CASE e = c
    BY <2>0, <2>1
  <2>2. CASE e # c
    BY <2>0, <2>2 DEF CallInv, Cleared
  <2> QED
    BY <2>1, <2>2
<1>2. \A e \in Calls : review'[e] = review[e] \/ review[e] = "none"
  OBVIOUS
<1>3. ToldInv'
  BY <1>2 DEF ToldInv, Verdicts
<1>4. LoopInv'
  BY <1>2 DEF LoopInv, Verdicts
<1>5. CertainInv'
  BY <1>2 DEF CertainInv, ToldInv, Verdicts, TypeOK
<1> QED
  BY <1>1, <1>3, <1>4, <1>5

\* A step of guard.execute itself keeps the invariant.
LEMMA ExecuteStep ==
    ASSUME IInv, NEW c \in Calls, Execute(c)
    PROVE  IInv'
<1> USE DEF Move, End, Refuse
<1>0. c \in Callers /\ TypeOK
  BY DEF Callers, IInv
<1>1. stage[c] \in {"new", "create", "hook", "told", "act"}
  BY DEF Execute, Check, Create, Requested, Conclude, Act
<1>2. /\ stage[c] \in {"new", "create", "hook"} => told[c] = "none" /\ c \notin certain
      /\ stage[c] = "act" => Cleared(c)
      /\ c \notin ran
      /\ stage[c] \in {"create", "hook", "told"} => decision[c] = "escalate"
      /\ stage[c] \in {"new", "create"} => review[c] = "none"
      /\ stage[c] = "new" => c \notin forbidden
      /\ stage[c] = "told" => (told[c] = "approved" => review[c] = "approved")
  BY <1>0, <1>1 DEF IInv, CallInv, ToldInv, CertainInv, Verdicts
<1>3. CASE Check(c)
  <2>1. /\ stage[c] = "new"
        /\ UNCHANGED << ran, review, wait, watched, told, aborted, certain >>
    BY <1>3 DEF Check
  <2>2. CASE End(c, "error") /\ UNCHANGED << decision, forbidden >>
    <3>1. TypeOK'
      BY <1>0, <2>1, <2>2 DEF TypeOK, Stages, Outcomes
    <3>2. \A w \in Callers : stage'[w] = IF w = c THEN "ended" ELSE stage[w]
      BY <1>0, <2>2 DEF TypeOK
    <3> QED
      BY <1>2, <2>1, <2>2, <3>1, <3>2, CallStep
  <2>3. ASSUME NEW q \in Questions,
               NEW d, d = EvaluateGuardDecision(q.policy, q.input),
               decision' = [decision EXCEPT ![c] = d],
               forbidden' = IF Forbidden(q.policy, q.input)
                            THEN forbidden \cup {c} ELSE forbidden,
               \/ d \in {"allow", "redact"} /\ Move(c, "act")
               \/ d = "block" /\ Refuse(c, "blocked")
               \/ d = "escalate" /\ (Move(c, "create") \/ End(c, "blocked"))
        PROVE  IInv'
    <3>1. /\ d \in GuardOutcomes
          /\ d \in {"allow", "redact"} => ~Forbidden(q.policy, q.input)
      BY <2>3, PolicyObeyed
    <3>2. PICK s \in {"act", "create", "ended"}, o \in Outcomes :
             /\ stage' = [stage EXCEPT ![c] = s]
             /\ s = "act" => d \in {"allow", "redact"}
             /\ s = "create" => d = "escalate"
             /\ outcome' = outcome \/ outcome' = [outcome EXCEPT ![c] = o]
      BY <2>3 DEF Outcomes
    <3>3. TypeOK'
      <4>1. decision' \in [Calls -> Decisions]
        BY <1>0, <2>3, <3>1 DEF TypeOK, Decisions
      <4>2. stage' \in [Callers -> Stages]
        BY <1>0, <3>2 DEF TypeOK, Stages
      <4>3. outcome' \in [Calls -> Outcomes]
        BY <1>0, <3>2 DEF TypeOK
      <4>4. forbidden' \subseteq Calls
        BY <1>0, <2>3 DEF TypeOK
      <4> QED
        BY <1>0, <2>1, <4>1, <4>2, <4>3, <4>4 DEF TypeOK
    <3>4. \A w \in Callers : stage'[w] = IF w = c THEN s ELSE stage[w]
      BY <1>0, <3>2 DEF TypeOK
    <3>5. decision'[c] = d /\ \A e \in Calls : e # c => decision'[e] = decision[e]
      BY <1>0, <2>3 DEF TypeOK
    <3>6. \A e \in Calls : e # c => (e \in forbidden' <=> e \in forbidden)
      BY <2>3
    <3>7. s = "act" => Cleared(c)'
      BY <1>2, <2>1, <2>3, <3>1, <3>2, <3>5 DEF Cleared
    <3> QED
      BY <1>2, <2>1, <3>2, <3>3, <3>4, <3>5, <3>6, <3>7, CallStep
  <2> QED
    BY <1>3, <2>2, <2>3 DEF Check
<1>4. CASE Create(c)
  <2>1. TypeOK'
    BY <1>0, <1>4 DEF Create, TypeOK, Stages, Outcomes
  <2>2. PICK s \in {"hook", "ended"} : stage' = [stage EXCEPT ![c] = s]
    BY <1>4 DEF Create
  <2>3. \A w \in Callers : stage'[w] = IF w = c THEN s ELSE stage[w]
    BY <2>2 DEF IInv, TypeOK
  <2>4. \A e \in Calls : e # c => decision'[e] = decision[e] /\ review'[e] = review[e]
    BY <1>0, <1>4 DEF Create, TypeOK
  <2> QED
    BY <1>2, <1>4, <2>1, <2>3, <2>4, CallStep DEF Create
<1>5. CASE Requested(c)
  <2>1. TypeOK'
    BY <1>0, <1>5 DEF Requested, TypeOK, Stages, Outcomes
  <2>2. PICK s \in {"ask", "ended"} : stage' = [stage EXCEPT ![c] = s]
    BY <1>5 DEF Requested
  <2>3. \A w \in Callers : stage'[w] = IF w = c THEN s ELSE stage[w]
    BY <2>2 DEF IInv, TypeOK
  <2> QED
    BY <1>2, <1>5, <2>1, <2>3, CallStep DEF Requested, Cleared
<1>6. CASE Conclude(c)
  <2>1. TypeOK'
    BY <1>0, <1>6 DEF Conclude, TypeOK, Stages, Outcomes
  <2>2. PICK s \in {"act", "ended"} :
           /\ stage' = [stage EXCEPT ![c] = s]
           /\ s = "act" => told[c] = "approved"
    BY <1>6 DEF Conclude
  <2>3. \A w \in Callers : stage'[w] = IF w = c THEN s ELSE stage[w]
    BY <2>2 DEF IInv, TypeOK
  <2>4. c \in ran' \/ s = "act" => Cleared(c)'
    BY <1>2, <1>6, <2>2 DEF Conclude, Cleared
  <2> QED
    BY <1>2, <1>6, <2>1, <2>3, <2>4, CallStep DEF Conclude
<1>7. CASE Act(c)
  <2>1. TypeOK'
    BY <1>0, <1>7 DEF Act, TypeOK, Stages, Outcomes
  <2>2. \A w \in Callers : stage'[w] = IF w = c THEN "ended" ELSE stage[w]
    BY <1>7 DEF Act, IInv, TypeOK
  <2>3. Cleared(c)'
    BY <1>2, <1>7 DEF Act, Cleared
  <2> QED
    BY <1>7, <2>1, <2>2, <2>3, CallStep DEF Act
<1> QED
  BY <1>3, <1>4, <1>5, <1>6, <1>7 DEF Execute

\* So does a step of a polling loop.
LEMMA PollStep ==
    ASSUME IInv, NEW c \in Calls, Poll(c)
    PROVE  IInv'
<1>1. TypeOK /\ wait[c].at \in {"pause", "asked", "answered"}
  BY DEF IInv, Poll, Wake, Read, Answer, GetFails
<1>2. wait[c] \in Loops
  BY <1>1, Shapes
<1>3. "error" \in Resolutions \ Verdicts /\ "timeout" \in Resolutions \ Verdicts
  BY DEF Resolutions, Verdicts
<1>4. CASE Wake(c)
  <2>1. CASE wait[c].by \in aborted
    BY <1>3, <1>4, <2>1, SettleStep DEF Wake
  <2>2. CASE wait[c].by \notin aborted
    <3> DEFINE l == [wait[c] EXCEPT !.at = "asked"]
    <3>1. l \in Loops
      BY <1>1, Shapes
    <3>2. l.at = "asked"
      BY <1>2 DEF Loops
    <3>3. Loop(c, l)
      BY <1>4, <2>2 DEF Wake
    <3> HIDE DEF l
    <3> QED
      BY <1>4, <3>1, <3>2, <3>3, LoopStep DEF Wake
  <2> QED
    BY <2>1, <2>2
<1>5. CASE Read(c)
  <2> DEFINE l == [wait[c] EXCEPT !.at = "answered", !.read = review[c]]
  <2>1. l \in Loops
    BY <1>1, Shapes
  <2>2. l.read = review[c]
    BY <1>2 DEF Loops
  <2>3. Loop(c, l)
    BY <1>5 DEF Read
  <2> HIDE DEF l
  <2> QED
    BY <1>5, <2>1, <2>2, <2>3, LoopStep DEF Read
<1>6. CASE Answer(c)
  <2>1. wait[c].read \in Verdicts => wait[c].read = review[c]
    BY <1>6 DEF Answer, IInv, LoopInv
  <2>2. CASE wait[c].read \in Verdicts
    <3> DEFINE res == wait[c].read
    <3>1. res \in Resolutions /\ res # "timeout"
      BY <2>2 DEF Resolutions, Verdicts
    <3>2. Settle(c, res)
      BY <1>6, <2>2 DEF Answer
    <3> HIDE DEF res
    <3> QED
      BY <1>6, <2>1, <2>2, <3>1, <3>2, SettleStep DEF Answer, res
  <2>3. CASE wait[c].read \notin Verdicts /\ wait[c].late
    BY <1>3, <1>6, <2>3, SettleStep DEF Answer
  <2>4. CASE wait[c].read \notin Verdicts /\ ~wait[c].late
    <3> DEFINE l == [wait[c] EXCEPT !.at = "pause", !.read = "none", !.retries = 0]
    <3>1. l \in Loops
      BY <1>1, Shapes
    <3>2. l.at = "pause"
      BY <1>2 DEF Loops
    <3>3. Loop(c, l)
      BY <1>6, <2>4 DEF Answer
    <3> HIDE DEF l
    <3> QED
      BY <1>6, <3>1, <3>2, <3>3, LoopStep DEF Answer
  <2> QED
    BY <2>2, <2>3, <2>4
<1>7. CASE GetFails(c)
  <2>1. CASE wait[c].retries = MaxRetries
    BY <1>3, <1>7, <2>1, SettleStep DEF GetFails
  <2>2. CASE wait[c].retries # MaxRetries
    <3> DEFINE l == [wait[c] EXCEPT !.at = "pause", !.read = "none", !.retries = @ + 1]
    <3>1. l \in Loops
      BY <1>1, <2>2, Shapes
    <3>2. l.at = "pause"
      BY <1>2 DEF Loops
    <3>3. Loop(c, l)
      BY <1>7, <2>2 DEF GetFails
    <3> HIDE DEF l
    <3> QED
      BY <1>7, <3>1, <3>2, <3>3, LoopStep DEF GetFails
  <2> QED
    BY <2>1, <2>2
<1> QED
  BY <1>4, <1>5, <1>6, <1>7 DEF Poll

\* Beginning a wait or joining one keeps it.
LEMMA AskStep ==
    ASSUME IInv, NEW w \in Callers, NEW c \in Calls, Ask(w, c)
    PROVE  IInv'
<1> USE DEF IInv, Ask, Move
<1>1. [NoLoop EXCEPT !.at = "pause", !.by = w] \in Loops
  <2>1. 0 \in 0 .. MaxRetries
    BY GuardAssumption
  <2> QED
    BY <2>1 DEF Loops, NoLoop
<1>2. TypeOK'
  BY <1>1 DEF TypeOK, Stages
<1>3. CallInv'
  BY GuardAssumption DEF TypeOK, CallInv, Cleared, Callers
<1>4. ToldInv'
  BY DEF TypeOK, ToldInv, Verdicts
<1>5. LoopInv'
  BY DEF TypeOK, LoopInv, NoLoop
<1>6. CertainInv'
  BY DEF TypeOK, CertainInv, ToldInv, NoLoop
<1> QED
  BY <1>2, <1>3, <1>4, <1>5, <1>6

LEMMA Invariance == Spec => []IInv
<1>1. IInv /\ [Next]_vars => IInv'
  <2> SUFFICES ASSUME IInv, [Next]_vars PROVE IInv'
    OBVIOUS
  <2>1. ASSUME NEW c \in Calls, Overdue(c) PROVE IInv'
    <3>1. wait[c] \in Loops
      BY <2>1 DEF IInv, TypeOK, Overdue
    <3>2. wait[c].at \in {"pause", "asked", "answered"}
      BY <3>1 DEF Loops
    <3> QED
      BY <2>1, <3>1, <3>2, Shapes, LoopStep DEF IInv, Overdue, Loops
  <2>2. ASSUME NEW c \in Calls, Decide(c) PROVE IInv'
    BY <2>2 DEF Decide, IInv, TypeOK, CallInv, ToldInv, LoopInv, CertainInv, Cleared, Verdicts
  <2>3. ASSUME NEW w \in Watchers, Abort(w) PROVE IInv'
    BY <2>3 DEF Abort, IInv, TypeOK, CallInv, ToldInv, LoopInv, CertainInv, Cleared
  <2>4. CASE UNCHANGED vars
    BY <2>4 DEF vars, IInv, TypeOK, CallInv, ToldInv, LoopInv, CertainInv, Cleared
  <2> QED
    BY <2>1, <2>2, <2>3, <2>4, ExecuteStep, PollStep, AskStep DEF Next
<1> QED
  BY <1>1, InitInv, PTL DEF Spec

----------------------------------------------------------------------------
\* The theorems.

\* Every step keeps the variables in their types: no error past the limit and no
\* answer of another shape.
THEOREM GuardTypeCorrect == Spec => []TypeOK
<1>1. IInv => TypeOK
  BY DEF IInv
<1> QED
  BY <1>1, Invariance, PTL

\* guard.execute runs the action only when the policy allows it or its own
\* escalation was approved and the call was told so.
THEOREM OnlyClearedRuns == Spec => []RunsOnlyCleared
<1>1. IInv => RunsOnlyCleared
  BY DEF IInv, CallInv, RunsOnlyCleared, Cleared, TypeOK
<1> QED
  BY <1>1, Invariance, PTL

\* waitForResolution tells all who wait for an escalation the reviewer's verdict.
THEOREM VerdictIsShared == Spec => []VerdictsAgree
<1>1. IInv => VerdictsAgree
  BY DEF IInv, ToldInv, VerdictsAgree
<1> QED
  BY <1>1, Invariance, PTL

\* A wait that begins with the verdict in does not time out, since the loop looks
\* at the status before it looks at the deadline.
THEOREM NoVerdictMissed == Spec => []VerdictNotMissed
<1>1. IInv => VerdictNotMissed
  BY DEF IInv, CertainInv, VerdictNotMissed
<1> QED
  BY <1>1, Invariance, PTL

\* The guard lets no action run that is not cleared, and whoever waits by
\* waitForResolution is told the verdict that is in, all the same.
THEOREM GuardIsKept == Spec => []GuardHolds
<1>1. TypeOK /\ RunsOnlyCleared /\ VerdictsAgree /\ VerdictNotMissed <=> GuardHolds
  BY DEF GuardHolds
<1> QED
  BY <1>1, GuardTypeCorrect, OnlyClearedRuns, VerdictIsShared, NoVerdictMissed, PTL

----------------------------------------------------------------------------
(***************************************************************************)
(* GuardEscalation implements Approval.                                    *)
(***************************************************************************)
Phases == [c \in Calls |-> Phase(c)]
Waits  == [w \in Callers |-> IF stage[w] = "waiting" THEN watched[w] ELSE NoCall]
Learnt  == [w \in Callers |-> IF told[w] \in Verdicts \cup {"none"} THEN told[w] ELSE "nothing"]

\* A call that goes to stage s is in the phase of s, and nobody hears of it.
LEMMA PhaseStep ==
    ASSUME IInv, NEW c \in Calls, NEW s, s # "waiting", stage[c] # "waiting",
           stage' = [stage EXCEPT ![c] = s],
           \A e \in Calls : e # c => decision'[e] = decision[e],
           UNCHANGED << watched, told >>
    PROVE  /\ Phases' = [Phases EXCEPT ![c] = Phase(c)']
           /\ Waits' = Waits /\ Learnt' = Learnt
<1>1. /\ stage'[c] = s
      /\ \A w \in Callers : w # c => stage'[w] = stage[w]
      /\ Calls \subseteq Callers
  BY DEF IInv, TypeOK, Callers
<1>2. \A e \in Calls : e # c => Phase(e)' = Phase(e)
  BY <1>1 DEF Phase
<1>3. \A w \in Callers : (IF stage'[w] = "waiting" THEN watched[w] ELSE NoCall)
                          = IF stage[w] = "waiting" THEN watched[w] ELSE NoCall
  BY <1>1
<1> QED
  BY <1>2, <1>3 DEF Phases, Waits, Learnt

\* guard.execute: the policy judges, a reviewer is asked, the action runs, or
\* the call gives up.
LEMMA ExecuteIsApproval ==
    ASSUME IInv, NEW c \in Calls, Execute(c)
    PROVE  Approvals!Next \/ UNCHANGED << Phases, review, Waits, Learnt, ran >>
<1> USE DEF Move, End, Refuse
<1>1. /\ stage[c] \in {"new", "create", "hook", "told", "act"} /\ stage[c] # "waiting"
      /\ UNCHANGED << watched, told >>
      /\ \A e \in Calls : e # c => decision'[e] = decision[e]
  BY DEF Execute, Check, Create, Requested, Conclude, Act, IInv, TypeOK
<1>2. PICK s \in {"create", "hook", "ask", "act", "ended"} :
         /\ stage' = [stage EXCEPT ![c] = s]
         /\ s = "ended" \/ Check(c) \/ Create(c) \/ Requested(c) \/ Conclude(c)
  BY DEF Execute, Check, Create, Requested, Conclude, Act
<1>3. /\ Phases' = [Phases EXCEPT ![c] = Phase(c)']
      /\ Waits' = Waits /\ Learnt' = Learnt
  <2>1. s # "waiting"
    OBVIOUS
  <2> QED
    BY <1>1, <1>2, <2>1, PhaseStep
<1>4. /\ stage'[c] = s /\ Phases[c] = Phase(c)
      /\ Phase(c)' = IF s = "ended" THEN "over"
                     ELSE IF s = "act" /\ decision'[c] # "escalate" THEN "cleared"
                     ELSE "put"
  BY <1>2 DEF IInv, TypeOK, Callers, Phase, Phases
<1>5. /\ stage[c] \in {"create", "hook", "told"} => Phase(c) = "put"
      /\ stage[c] = "new" => Phase(c) = "open"
      /\ stage[c] = "act" => \/ Phase(c) = "cleared"
                             \/ Phase(c) = "put" /\ told[c] = "approved"
  <2>1. stage[c] = "act" => decision[c] # "escalate" \/ told[c] = "approved"
    BY DEF IInv, CallInv, Cleared
  <2> QED
    BY <2>1 DEF Phase
<1>is. ASSUME NEW x, stage' = [stage EXCEPT ![c] = x] PROVE s = x
  <2>1. c \in Callers /\ stage \in [Callers -> Stages]
    BY DEF IInv, TypeOK, Callers
  <2>2. stage'[c] = x
    BY <1>is, <2>1
  <2> QED
    BY <1>4, <2>2
<1>6. CASE s = "ended" /\ UNCHANGED << review, ran >>
  <2>1. Approvals!GiveUp(c)
    BY <1>3, <1>4, <1>6 DEF Approvals!GiveUp, Approvals!Enter, Phases, Waits, Learnt
  <2> QED
    BY <2>1 DEF Approvals!Next
<1>7. CASE Check(c) /\ s # "ended"
  <2>1. /\ stage[c] = "new" /\ UNCHANGED << review, ran >>
        /\ \/ s = "act" /\ decision'[c] \in {"allow", "redact"}
           \/ s = "create" /\ decision'[c] = "escalate"
    BY <1>2, <1>4, <1>7 DEF Check, IInv, TypeOK
  <2>2. Approvals!Judge(c)
    BY <1>3, <1>4, <1>5, <2>1 DEF Approvals!Judge, Approvals!Enter, Phases, Waits, Learnt
  <2> QED
    BY <2>2 DEF Approvals!Next
<1>8. CASE Create(c) /\ review' = [review EXCEPT ![c] = "pending"]
  <2>1. /\ stage[c] = "create" /\ s \in {"hook", "ended"} /\ UNCHANGED << ran, decision >>
        /\ review' = [review EXCEPT ![c] = "pending"]
    BY <1>is, <1>8 DEF Create
  <2>2. review[c] = "none" /\ Phase(c)' \in {"put", "over"}
    BY <1>4, <2>1 DEF IInv, CallInv
  <2>3. Approvals!File(c)
    BY <1>3, <1>4, <1>5, <2>1, <2>2 DEF Approvals!File, Approvals!Enter, Phases, Waits, Learnt
  <2> QED
    BY <2>3 DEF Approvals!Next
<1>9. CASE (Requested(c) \/ Conclude(c)) /\ s # "ended"
  <2>1. /\ stage[c] \in {"hook", "told"} /\ s \in {"ask", "act"}
        /\ UNCHANGED << review, ran, decision >>
    BY <1>is, <1>9 DEF Requested, Conclude
  <2>2. decision[c] = "escalate"
    BY <2>1 DEF IInv, CallInv
  <2>3. Phase(c)' = Phases[c]
    BY <1>4, <1>5, <2>1, <2>2
  <2>4. Phases' = Phases
    BY <1>3, <2>3 DEF Phases
  <2> QED
    BY <1>3, <2>1, <2>4
<1>10. CASE Act(c) /\ ran' # ran
  <2>1. /\ stage[c] = "act" /\ ran' = ran \cup {c} /\ review' = review
        /\ s = "ended" /\ c \notin ran
    BY <1>2, <1>4, <1>10 DEF Act, IInv, CallInv, Check, Create, Requested, Conclude
  <2>2. \/ Phase(c) = "cleared"
        \/ Phase(c) = "put" /\ Learnt[c] = "approved"
    BY <1>5, <2>1 DEF Learnt, Verdicts, Callers
  <2>3. Approvals!Run(c)
    BY <1>3, <1>4, <2>1, <2>2 DEF Approvals!Run, Approvals!Enter, Phases, Waits, Learnt
  <2> QED
    BY <2>3 DEF Approvals!Next
<1> QED
  <2>1. Check(c) \/ Requested(c) \/ Conclude(c) => UNCHANGED << review, ran >>
    BY DEF Check, Requested, Conclude
  <2>2. Create(c) => /\ ran' = ran
                     /\ \/ review' = [review EXCEPT ![c] = "pending"]
                        \/ review' = review /\ s = "ended"
    BY <1>is DEF Create
  <2>3. Act(c) => s = "ended" /\ review' = review
    BY <1>is DEF Act
  <2>4. Check(c) \/ Create(c) \/ Requested(c) \/ Conclude(c) \/ Act(c)
    BY DEF Execute
  <2> QED
    BY <1>6, <1>7, <1>8, <1>9, <1>10, <2>1, <2>2, <2>3, <2>4

\* The end of a loop: all who share it hear of the verdict, or of none.
LEMMA SettleIsHeard ==
    ASSUME IInv, NEW c \in Calls, NEW res \in Resolutions, Settle(c, res),
           UNCHANGED << decision, ran, review, watched >>,
           res \in Verdicts => res = review[c]
    PROVE  Approvals!Next
<1> DEFINE what == IF res \in Verdicts THEN res ELSE "nothing"
           Sharer(w) == stage[w] = "waiting" /\ watched[w] = c
<1>1. /\ \A w \in Callers : told'[w] = IF Sharer(w) THEN res ELSE told[w]
      /\ \A w \in Callers : stage'[w] = IF ~Sharer(w) THEN stage[w]
                                        ELSE IF w \in Calls THEN "told" ELSE "ended"
  BY DEF Settle
<1>2. \A w \in Callers : Waits[w] = c <=> Sharer(w)
  BY GuardAssumption DEF Waits
<1>3. Learnt' = [w \in Callers |-> IF Waits[w] = c THEN what ELSE Learnt[w]]
  <2>1. res # "none"
    BY DEF Resolutions, Verdicts
  <2> QED
    BY <1>1, <1>2, <2>1 DEF Learnt
<1>4. Waits' = [w \in Callers |-> IF Waits[w] = c THEN NoCall ELSE Waits[w]]
  BY <1>1, <1>2 DEF Waits
<1>5. Phases' = Phases
  <2>1. \A d \in Calls : Phase(d)' = Phase(d)
    BY <1>1 DEF Phase, Callers
  <2> QED
    BY <2>1 DEF Phases
<1>6. what \in {"nothing"} \cup {v \in Verdicts : v = review[c]} /\ what \in {"nothing"} \cup Verdicts
  OBVIOUS
<1> HIDE DEF what
<1>7. Approvals!Hear(c, what)
  BY <1>3, <1>4, <1>5, <1>6 DEF Approvals!Hear, Phases, Waits, Learnt
<1> QED
  BY <1>6, <1>7 DEF Approvals!Next

LEMMA PollIsApproval ==
    ASSUME IInv, NEW c \in Calls, Poll(c)
    PROVE  Approvals!Next \/ UNCHANGED << Phases, review, Waits, Learnt, ran >>
<1>1. UNCHANGED << decision, ran, review, watched >>
  BY DEF Poll, Wake, Read, Answer, GetFails
<1>2. CASE UNCHANGED << stage, told >>
  BY <1>1, <1>2 DEF Phases, Phase, Waits, Learnt
<1>3. CASE Settle(c, "error") \/ Settle(c, "timeout")
  BY <1>1, <1>3, SettleIsHeard DEF Resolutions, Verdicts
<1>4. CASE Answer(c) /\ wait[c].read \in Verdicts
  BY <1>1, <1>4, SettleIsHeard DEF Answer, IInv, LoopInv, Resolutions
<1> QED
  BY <1>2, <1>3, <1>4 DEF Poll, Wake, Read, Answer, GetFails, Loop

\* Whoever asks waits, a call for its own verdict.
LEMMA AskIsWait ==
    ASSUME IInv, NEW w \in Callers, NEW c \in Calls, Ask(w, c)
    PROVE  Approvals!Next
<1>1. /\ stage[w] \in {"new", "ask"} /\ told[w] = "none"
      /\ w \in Calls => w = c /\ stage[w] = "ask"
  BY GuardAssumption DEF Ask, IInv, ToldInv
<1>2. /\ stage' = [stage EXCEPT ![w] = "waiting"] /\ watched' = [watched EXCEPT ![w] = c]
      /\ UNCHANGED << decision, review, told, ran >>
  BY DEF Ask, Move
<1>3. /\ stage'[w] = "waiting" /\ watched'[w] = c
      /\ \A x \in Callers : x # w => stage'[x] = stage[x] /\ watched'[x] = watched[x]
  BY <1>2 DEF IInv, TypeOK
<1>4. Waits' = [Waits EXCEPT ![w] = c] /\ Waits[w] = NoCall
  BY <1>1, <1>3 DEF Waits
<1>5. Learnt' = Learnt /\ Learnt[w] = "none"
  BY <1>1, <1>2 DEF Learnt, Verdicts
<1>6. Phases' = Phases
  <2>1. \A d \in Calls : Phase(d)' = Phase(d)
    BY <1>1, <1>2, <1>3 DEF Phase, Callers
  <2> QED
    BY <2>1 DEF Phases
<1>7. w \in Calls => Phases[w] = "put"
  BY <1>1 DEF Phases, Phase
<1>8. Approvals!Wait(w, c)
  BY <1>1, <1>2, <1>4, <1>5, <1>6, <1>7 DEF Approvals!Wait, Phases, Waits, Learnt
<1> QED
  BY <1>8 DEF Approvals!Next

\* Guarded calls and those who wait keep the promise of Approval: shared polling
\* loops, stale answers, errors and timeouts come to one final verdict that all
\* who wait hear at once, and an action runs at most once, on leave of its policy
\* or after its own call heard of the approval.
THEOREM ApprovalKept == Spec => KeepsApprovals
<1>1. Init => Approvals!Init
  BY DEF Init, Approvals!Init, Phase, Callers, Verdicts
<1>2. IInv /\ [Next]_vars => [Approvals!Next]_Approvals!vars
  <2> SUFFICES ASSUME IInv, [Next]_vars
               PROVE  Approvals!Next \/ UNCHANGED << Phases, review, Waits, Learnt, ran >>
    BY DEF Approvals!vars, Phases, Waits, Learnt
  <2>1. ASSUME NEW c \in Calls, Decide(c) PROVE Approvals!Next
    <3>1. Approvals!Decide(c)
      BY <2>1 DEF Decide, Approvals!Decide, Phase
    <3> QED
      BY <3>1 DEF Approvals!Next
  <2>2. CASE UNCHANGED << stage, decision, review, watched, told, ran >>
    BY <2>2 DEF Phases, Phase, Waits, Learnt
  <2>3. ASSUME NEW c \in Calls, Overdue(c)
        PROVE  UNCHANGED << stage, decision, review, watched, told, ran >>
    BY <2>3 DEF Overdue, Loop
  <2>4. ASSUME NEW w \in Watchers, Abort(w)
        PROVE  UNCHANGED << stage, decision, review, watched, told, ran >>
    BY <2>4 DEF Abort
  <2>5. UNCHANGED vars => UNCHANGED << stage, decision, review, watched, told, ran >>
    BY DEF vars
  <2> QED
    BY <2>1, <2>2, <2>3, <2>4, <2>5, ExecuteIsApproval, PollIsApproval, AskIsWait DEF Next
<1> QED
  BY <1>1, <1>2, Invariance, PTL DEF Spec, KeepsApprovals, Approvals!Spec

----------------------------------------------------------------------------
(***************************************************************************)
(* OpenClawHooks: the inductive invariant.                                 *)
(***************************************************************************)
\* allowlist and approveHighRisk are never ahead of the enforcement lists.
ListsInv ==
    /\ allow <= lists /\ lists <= served
    /\ ~Hosted => allow \in Policies

\* A permit that waits for its report.
Listed(c) == \E i \in DOMAIN pending[ToolOf[c]] : pending[ToolOf[c]][i] = c

\* What a call's place says of what it was told on the way.
ToldOK(c) ==
    /\ call[c].at \in {"idle", "checking"} => call[c].revision = "none"
    /\ call[c].at \in {"idle", "checking", "judging"} =>
          ~call[c].swayed /\ call[c].judgedBy = 0
    /\ call[c].at \in {"idle", "checking", "judging", "blocked", "threw"} => ~call[c].permitted
    /\ call[c].at = "allowed" => call[c].permitted
    /\ call[c].at # "reported" => call[c].of = "none"
    /\ call[c].at \in {"checking", "judging"} =>
          call[c].policy \in Policies /\ call[c].policy <= lists
    /\ call[c].judgedBy # 0 => call[c].judgedBy >= call[c].policy
    /\ call[c].permitted => call[c].violation \notin Says(call[c].judgedBy, "deny")
    /\ call[c].revision # "none" /\ call[c].saw = "none" /\ ~call[c].swayed =>
          call[c].revision \in passed \cup blind \/ call[c].violation # "none"

\* Whose permit a call takes, and where it waits until then.
PermitOK(c) ==
    /\ call[c].at = "allowed" /\ c \notin mixed =>
          pending[ToolOf[c]] # << >> /\ Last(pending[ToolOf[c]]) = c
    /\ call[c].at = "reported" /\ call[c].permitted /\ c \notin mixed => call[c].of = c
    /\ call[c].of # "none" => call[call[c].of].permitted /\ ~Listed(call[c].of)

\* A list holds permits of its own tool.
ListOK(k) ==
    \A i \in DOMAIN pending[k] : ToolOf[pending[k][i]] = k /\ call[pending[k][i]].permitted

SkillsInv ==
    /\ \A r \in Revisions : scan[r] = "pass" => r \in passed
    /\ \A r \in inflight : scan[r] = "pending" \/ r \in blind
    /\ baseline # "none" => \E c \in ToolCalls : call[c].permitted /\ call[c].revision = baseline

CallsInv ==
    /\ \A c \in ToolCalls : ToldOK(c) /\ PermitOK(c)
    /\ \A k \in Tools : ListOK(k)
    /\ TakenOnce

\* What a message found bad leaves behind, and where one that was held may be.
MessageOK(m) ==
    /\ msg[m].at = "weighing" => msg[m].policy \in Policies
    /\ msg[m].hard /\ ContentOf[m] \notin freed => quarantine[ContentOf[m]] # "none"
    /\ msg[m].held => ContentOf[m] \in freed \/ msg[m].at \in {"cancelled", "threw"}

MessagesInv ==
    /\ \A m \in Messages : MessageOK(m)
    /\ \A m \in Sent : msg[m].at = "waiting" => escalation[m] # "none"
    /\ SentIsAnswered

HooksInv == HooksTypeOK /\ ListsInv /\ SkillsInv /\ CallsInv /\ MessagesInv

----------------------------------------------------------------------------
(***************************************************************************)
(* OpenClawHooks: policies, scans and lists of permits.                    *)
(***************************************************************************)
LEMMA PoliciesAre ==
    /\ Len(PolicyOf) \in Nat \ {0} /\ Policies = 1 .. Len(PolicyOf)
    /\ \A n \in Policies : /\ PolicyOf[n].deny \subseteq Reasons
                           /\ PolicyOf[n].escalate \subseteq Reasons
<1>1. Len(PolicyOf) \in Nat /\ Policies = 1 .. Len(PolicyOf)
  BY PolicyAssumption, LenProperties DEF Policies
<1>2. Len(PolicyOf) # 0
  BY PolicyAssumption, EmptySeq
<1>3. ASSUME NEW n \in Policies
      PROVE  PolicyOf[n].deny \subseteq Reasons /\ PolicyOf[n].escalate \subseteq Reasons
  <2>1. PolicyOf[n] \in PolicyRecords
    BY <1>1, PolicyAssumption
  <2> QED
    BY <2>1 DEF PolicyRecords
<1> QED
  BY <1>1, <1>2, <1>3

LEMMA SaysReasons ==
    ASSUME NEW n \in 0 .. Len(PolicyOf)
    PROVE  Says(n, "deny") \subseteq Reasons /\ Says(n, "escalate") \subseteq Reasons
<1>1. n = 0 \/ n \in Policies
  BY PoliciesAre
<1> QED
  BY <1>1, PoliciesAre DEF Says

LEMMA ScanByIs ==
    ASSUME setup \in Setups, NEW n \in Policies, NEW look \in Looks
    PROVE  ScanBy(n, look) \in Scans
<1>1. setup.judge \in BOOLEAN
  BY SetupAssumption DEF Configurations
<1> QED
  BY <1>1 DEF ScanBy, Scans

LEMMA OutlinesAre ==
    ASSUME NEW s \in Scans, NEW outline \in Outlines[s]
    PROVE  outline.class \in Classes
<1>1. PICK f \in Found[s] :
          outline = [class |-> ClassOf(f.findings),
                     blocks |-> ShouldBlock(GuardOf(s.n), f.findings)]
  BY DEF Outlines
<1>2. ClassOf(f.findings) \in Classes
  BY DEF ClassOf, Classes
<1> QED
  BY <1>1, <1>2

LEMMA AdjudicatedIs ==
    ASSUME NEW violation \in Opt(Reasons), NEW class, NEW opinion
    PROVE  Adjudicated(violation, class, opinion) \in Opt(Reasons)
  BY DEF Adjudicated, Opt, Reasons

\* A permit put at the end of a list, and one taken from it.
LEMMA AppendedPermit ==
    ASSUME NEW S, NEW s \in Seq(S), NEW c \in S
    PROVE  /\ Append(s, c) \in Seq(S) /\ Append(s, c) # << >> /\ Last(Append(s, c)) = c
           /\ \A i \in DOMAIN Append(s, c) :
                 (i \in DOMAIN s /\ Append(s, c)[i] = s[i]) \/ Append(s, c)[i] = c
           /\ IsInjective(s) /\ (\A i \in DOMAIN s : s[i] # c) => IsInjective(Append(s, c))
<1> DEFINE t == Append(s, c)
<1>1. /\ t \in Seq(S) /\ t # << >> /\ Len(t) = Len(s) + 1
      /\ \A i \in 1 .. Len(s) : t[i] = s[i]
      /\ t[Len(s) + 1] = c
  BY AppendProperties
<1>2. Len(s) \in Nat /\ DOMAIN s = 1 .. Len(s)
  BY LenProperties
<1> HIDE DEF t
<1>3. DOMAIN t = 1 .. Len(s) + 1
  BY <1>1, <1>2, LenProperties
<1>4. Last(t) = c
  BY <1>1 DEF Last
<1>5. \A i \in DOMAIN t : (i \in DOMAIN s /\ t[i] = s[i]) \/ (i = Len(s) + 1 /\ t[i] = c)
  <2> SUFFICES ASSUME NEW i \in DOMAIN t
               PROVE  (i \in DOMAIN s /\ t[i] = s[i]) \/ (i = Len(s) + 1 /\ t[i] = c)
    OBVIOUS
  <2>1. i \in 1 .. Len(s) \/ i = Len(s) + 1
    BY <1>2, <1>3
  <2> QED
    BY <1>1, <1>2, <2>1
<1>6. IsInjective(s) /\ (\A i \in DOMAIN s : s[i] # c) => IsInjective(t)
  BY <1>5 DEF IsInjective
<1> QED
  BY <1>1, <1>4, <1>5, <1>6 DEF t

LEMMA PoppedPermit ==
    ASSUME NEW S, NEW s \in Seq(S)
    PROVE  /\ Popped(s) \in Seq(S)
           /\ \A i \in DOMAIN Popped(s) : i \in DOMAIN s /\ Popped(s)[i] = s[i]
           /\ IsInjective(s) => IsInjective(Popped(s))
           /\ s # << >> => /\ \E i \in DOMAIN s : s[i] = Last(s)
                           /\ Last(s) \in S
                           /\ IsInjective(s) => \A i \in DOMAIN Popped(s) : Popped(s)[i] # Last(s)
<1>1. Len(s) \in Nat /\ DOMAIN s = 1 .. Len(s)
  BY LenProperties
<1>2. CASE s = << >>
  BY <1>1, <1>2, EmptySeq DEF Popped, IsInjective
<1>3. CASE s # << >>
  <2>1. Len(s) # 0
    BY <1>3, EmptySeq
  <2> DEFINE t == Popped(s)
  <2>2. \A i \in 1 .. Len(s) - 1 : s[i] \in S
    BY <1>1
  <2>3. t = SubSeq(s, 1, Len(s) - 1)
    BY <1>3 DEF Popped, Front
  <2>4. /\ t \in Seq(S) /\ Len(t) = Len(s) - 1
        /\ \A i \in 1 .. Len(s) - 1 : t[i] = s[i]
    <3>0. Len(s) - 1 \in Int /\ 1 \in Int
      BY <1>1
    <3>1. /\ SubSeq(s, 1, Len(s) - 1) \in Seq(S)
          /\ Len(SubSeq(s, 1, Len(s) - 1))
               = IF 1 <= Len(s) - 1 THEN Len(s) - 1 - 1 + 1 ELSE 0
          /\ \A i \in 1 .. Len(s) - 1 - 1 + 1 : SubSeq(s, 1, Len(s) - 1)[i] = s[1 + i - 1]
      BY <2>2, <3>0, SubSeqProperties
    <3>2. /\ t \in Seq(S)
          /\ Len(t) = IF 1 <= Len(s) - 1 THEN Len(s) - 1 - 1 + 1 ELSE 0
          /\ \A i \in 1 .. Len(s) - 1 - 1 + 1 : t[i] = s[1 + i - 1]
      BY <2>3, <3>1
    <3> HIDE DEF t
    <3>3. Len(s) - 1 - 1 + 1 = Len(s) - 1 /\ \A i \in Int : 1 + i - 1 = i
      BY <1>1
    <3>4. \A i \in 1 .. Len(s) - 1 : t[i] = s[i]
      <4> SUFFICES ASSUME NEW i \in 1 .. Len(s) - 1 PROVE t[i] = s[i]
        OBVIOUS
      <4>1. t[i] = s[1 + i - 1]
        BY <3>2, <3>3
      <4>2. 1 + i - 1 = i
        BY <1>1
      <4> QED
        BY <4>1, <4>2
    <3>5. (IF 1 <= Len(s) - 1 THEN Len(s) - 1 - 1 + 1 ELSE 0) = Len(s) - 1
      BY <1>1, <2>1
    <3> QED
      BY <3>2, <3>4, <3>5
  <2> HIDE DEF t
  <2>5. DOMAIN t = 1 .. Len(s) - 1
    BY <2>4, LenProperties
  <2>6. \A i \in DOMAIN t : i \in DOMAIN s /\ i # Len(s) /\ t[i] = s[i]
    BY <1>1, <2>4, <2>5
  <2>7. Len(s) \in DOMAIN s /\ Last(s) = s[Len(s)] /\ Last(s) \in S
    BY <1>1, <2>1 DEF Last
  <2>8. IsInjective(s) => IsInjective(t) /\ \A i \in DOMAIN t : t[i] # Last(s)
    BY <2>6, <2>7 DEF IsInjective
  <2> QED
    BY <2>4, <2>6, <2>7, <2>8 DEF t
<1> QED
  BY <1>2, <1>3

----------------------------------------------------------------------------
(***************************************************************************)
(* OpenClawHooks: the beginning, and what follows.                         *)
(***************************************************************************)
LEMMA HooksStart == HooksInit => HooksInv
<1> SUFFICES ASSUME HooksInit PROVE HooksInv
  OBVIOUS
<1>0. /\ Len(PolicyOf) \in Nat \ {0} /\ Policies = 1 .. Len(PolicyOf)
      /\ setup \in Setups /\ setup.source \in {"local", "control_plane"}
  BY PoliciesAre, SetupAssumption DEF HooksInit, Configurations
<1>1. /\ << >> \in Seq(ToolCalls) /\ DOMAIN << >> = {}
      /\ pending = [k \in Tools |-> << >>] /\ call = [c \in ToolCalls |-> NewCall]
      /\ msg = [m \in Messages |-> NewMsg]
  BY EmptySeq DEF HooksInit
<1>2. NewCall \in CallRecords /\ NewMsg \in MessageRecords
  BY <1>0 DEF NewCall, NewMsg, CallRecords, MessageRecords, CallPlaces, MsgPlaces, Opt, Classes
<1>3. HooksTypeOK
  BY <1>0, <1>1, <1>2, HooksAssumption DEF HooksInit, HooksTypeOK, Opt
<1>4. ListsInv
  BY <1>0 DEF HooksInit, ListsInv, Hosted
<1>5. SkillsInv
  BY DEF HooksInit, SkillsInv
<1>6. CallsInv
  <2>1. ASSUME NEW c \in ToolCalls PROVE ToldOK(c) /\ PermitOK(c)
    BY <1>1 DEF ToldOK, PermitOK, NewCall
  <2>2. ASSUME NEW k \in Tools PROVE ListOK(k) /\ IsInjective(pending[k])
    BY <1>1 DEF ListOK, IsInjective
  <2>3. \A c \in ToolCalls : call[c].of = "none"
    BY <1>1 DEF NewCall
  <2> QED
    BY <2>1, <2>2, <2>3 DEF CallsInv, TakenOnce
<1>7. MessagesInv
  <2>1. \A m \in Messages : msg[m] = NewMsg
    BY <1>1
  <2>2. Sent \subseteq Messages
    BY DEF Messages
  <2> QED
    BY <2>1, <2>2 DEF MessagesInv, MessageOK, SentIsAnswered, NewMsg
<1> QED
  BY <1>3, <1>4, <1>5, <1>6, <1>7 DEF HooksInv

LEMMA HooksInvImplies ==
    HooksInv => PermitsTaken /\ BaselineWasScanned /\ NeverOlderLists /\ MessagesHeld
<1> SUFFICES ASSUME HooksInv
             PROVE  PermitsTaken /\ BaselineWasScanned /\ NeverOlderLists /\ MessagesHeld
  OBVIOUS
<1>1. \A c \in ToolCalls : ToldOK(c) /\ PermitOK(c)
  BY DEF HooksInv, CallsInv
<1>2. PermitsTaken
  BY <1>1 DEF HooksInv, CallsInv, PermitsTaken, OwnReportWhenAlone, PermitOK
<1>3. NeverOlderLists
  BY <1>1 DEF NeverOlderLists, ToldOK
<1>4. BaselineWasScanned
  <2> SUFFICES ASSUME baseline # "none" PROVE BaselineWasScanned
    BY DEF BaselineWasScanned
  <2>1. PICK c \in ToolCalls : call[c].permitted /\ call[c].revision = baseline
    BY DEF HooksInv, SkillsInv
  <2>2. /\ call[c].violation \notin Says(call[c].judgedBy, "deny")
        /\ call[c].saw = "none" /\ ~call[c].swayed =>
              baseline \in passed \cup blind \/ call[c].violation # "none"
    BY <1>1, <2>1 DEF ToldOK
  <2> QED
    BY <2>1, <2>2 DEF BaselineWasScanned
<1>5. MessagesHeld
  <2>1. \A m \in Messages : MessageOK(m)
    BY DEF HooksInv, MessagesInv
  <2>2. Sent \subseteq Messages
    BY DEF Messages
  <2>3. QuarantineHolds
    BY <2>1, <2>2 DEF QuarantineHolds, MessageOK
  <2> QED
    BY <2>3 DEF HooksInv, MessagesInv, MessagesHeld
<1> QED
  BY <1>2, <1>3, <1>4, <1>5

----------------------------------------------------------------------------
(***************************************************************************)
(* OpenClawHooks: what a step leaves alone.                                *)
(***************************************************************************)
LEMMA RefreshIs ==
    ASSUME HooksInv, Refresh, UNCHANGED << setup, served >>
    PROVE  /\ lists' \in 0 .. Len(PolicyOf) /\ allow' \in 0 .. Len(PolicyOf)
           /\ ListsInv' /\ lists <= lists' /\ allow' <= lists'
           /\ Usable => allow' \in Policies
<1>1. /\ lists \in 0 .. Len(PolicyOf) /\ allow \in 0 .. Len(PolicyOf) /\ served \in Policies
      /\ allow <= lists /\ lists <= served /\ (~Hosted => allow \in Policies)
      /\ Len(PolicyOf) \in Nat \ {0} /\ Policies = 1 .. Len(PolicyOf)
  BY PoliciesAre DEF HooksInv, HooksTypeOK, ListsInv
<1>2. lists' \in {lists, served} /\ allow' \in {allow, served}
      /\ (allow' # allow => lists' = served)
  BY DEF Refresh
<1>3. Hosted' = Hosted
  BY DEF Hosted
<1>4. ~Hosted => allow' = allow /\ lists' = lists
  BY DEF Refresh
<1>5. Usable => allow' \in Policies
  BY <1>1, <1>4 DEF Usable, Refresh
<1>6. lists <= lists' /\ allow' <= lists' /\ lists' <= served
  BY <1>1, <1>2
<1> QED
  BY <1>1, <1>2, <1>3, <1>4, <1>5, <1>6 DEF ListsInv

LEMMA ListsKept ==
    ASSUME HooksInv, UNCHANGED << setup, served, lists, allow >>
    PROVE  /\ lists' \in 0 .. Len(PolicyOf) /\ allow' \in 0 .. Len(PolicyOf)
           /\ served' \in Policies /\ setup' \in Setups
           /\ ListsInv' /\ lists <= lists'
  BY PoliciesAre DEF HooksInv, HooksTypeOK, ListsInv, Hosted

LEMMA ToldKept ==
    ASSUME HooksInv, NEW c \in ToolCalls, call'[c] = call[c], UNCHANGED setup,
           lists' \in 0 .. Len(PolicyOf), lists <= lists',
           passed \subseteq passed', blind \subseteq blind'
    PROVE  ToldOK(c)'
<1>1. /\ lists \in 0 .. Len(PolicyOf) /\ ToldOK(c) /\ Len(PolicyOf) \in Nat
      /\ Policies = 1 .. Len(PolicyOf)
  BY PoliciesAre DEF HooksInv, HooksTypeOK, CallsInv
<1>2. call[c].at \in {"checking", "judging"} =>
          call[c].policy \in Policies /\ call[c].policy <= lists'
  <2>1. call[c].at \in {"checking", "judging"} =>
            call[c].policy \in 1 .. Len(PolicyOf) /\ call[c].policy <= lists
    BY <1>1 DEF ToldOK
  <2> QED
    BY <1>1, <2>1
<1>3. Says(call[c].judgedBy, "deny")' = Says(call[c].judgedBy, "deny")
  BY DEF Says
<1> QED
  BY <1>1, <1>2, <1>3 DEF ToldOK

\* Steps of messages, and of the plane.
LEMMA CallsKept ==
    ASSUME HooksInv, UNCHANGED << setup, pending, mixed, skills, call >>,
           lists' \in 0 .. Len(PolicyOf), lists <= lists'
    PROVE  SkillsInv' /\ CallsInv'
<1>0. UNCHANGED << baseline, scan, inflight, passed, blind >>
  BY DEF skills
<1>1. \A c \in ToolCalls : ToldOK(c)'
  BY <1>0, ToldKept
<1>2. \A c \in ToolCalls : PermitOK(c)'
  BY DEF HooksInv, CallsInv, PermitOK, Listed
<1>3. (\A k \in Tools : ListOK(k)') /\ TakenOnce'
  BY DEF HooksInv, CallsInv, ListOK, TakenOnce
<1>4. SkillsInv'
  BY <1>0 DEF HooksInv, SkillsInv
<1> QED
  BY <1>1, <1>2, <1>3, <1>4 DEF CallsInv

\* Steps of calls and of scans.
LEMMA MessagesKept ==
    ASSUME HooksInv, UNCHANGED << setup, holds, escalation, msg >>
    PROVE  MessagesInv'
  BY DEF HooksInv, MessagesInv, MessageOK, SentIsAnswered, holds

\* A call that is not let through yet takes its next step.
LEMMA CallMoves ==
    ASSUME HooksInv, NEW c \in ToolCalls, NEW next, call' = [call EXCEPT ![c] = next],
           UNCHANGED << setup, pending, mixed, baseline >>,
           lists' \in 0 .. Len(PolicyOf), lists <= lists',
           passed \subseteq passed', blind \subseteq blind',
           call[c].at \in {"idle", "checking", "judging"},
           ~next.permitted, next.of = "none", next.at \in {"checking", "judging", "blocked", "threw"},
           ToldOK(c)',
           \A r \in Revisions : scan'[r] = "pass" => r \in passed',
           \A r \in inflight' : scan'[r] = "pending" \/ r \in blind'
    PROVE  SkillsInv' /\ CallsInv'
<1>1. /\ call \in [ToolCalls -> CallRecords] /\ pending \in [Tools -> Seq(ToolCalls)]
      /\ ~call[c].permitted /\ call[c].of = "none"
  BY DEF HooksInv, HooksTypeOK, CallsInv, ToldOK
<1>2. call'[c] = next /\ \A d \in ToolCalls \ {c} : call'[d] = call[d]
  BY <1>1
<1>3. \A d \in ToolCalls : call[d].permitted => call'[d] = call[d]
  BY <1>1, <1>2
<1>4. \A d \in ToolCalls : ToldOK(d)'
  BY <1>2, ToldKept
<1>5. ASSUME NEW d \in ToolCalls PROVE PermitOK(d)'
  <2>1. CASE d = c
    BY <1>2, <2>1 DEF PermitOK
  <2>2. CASE d # c
    <3>1. PermitOK(d) /\ call'[d] = call[d]
      BY <1>2, <2>2 DEF HooksInv, CallsInv
    <3>2. call[d].of # "none" => call[d].of \in ToolCalls
      BY <1>1 DEF CallRecords, Opt
    <3> QED
      BY <1>3, <3>1, <3>2 DEF PermitOK, Listed
  <2> QED
    BY <2>1, <2>2
<1>6. ASSUME NEW k \in Tools PROVE ListOK(k)'
  <2>1. ListOK(k) /\ \A i \in DOMAIN pending[k] : pending[k][i] \in ToolCalls
    BY <1>1 DEF HooksInv, CallsInv
  <2> QED
    BY <1>3, <2>1 DEF ListOK
<1>7. TakenOnce'
  <2>1. \A d \in ToolCalls : call'[d].of = call[d].of
    BY <1>1, <1>2
  <2> QED
    BY <2>1 DEF HooksInv, CallsInv, TakenOnce
<1>8. baseline' # "none" =>
          \E d \in ToolCalls : call'[d].permitted /\ call'[d].revision = baseline'
  BY <1>3 DEF HooksInv, SkillsInv
<1> QED
  BY <1>4, <1>5, <1>6, <1>7, <1>8 DEF CallsInv, SkillsInv

----------------------------------------------------------------------------
(***************************************************************************)
(* OpenClawHooks: beforeToolCall and afterToolCall.                        *)
(***************************************************************************)
\* A call's record, rewritten.
LEMMA CallMoved ==
    ASSUME NEW r \in CallRecords, NEW at \in CallPlaces
    PROVE  [r EXCEPT !.at = at] \in CallRecords
  BY DEF CallRecords

LEMMA CallRewritten ==
    ASSUME NEW r \in CallRecords, NEW at \in CallPlaces, NEW policy \in 0 .. Len(PolicyOf),
           NEW violation \in Opt(Reasons)
    PROVE  [r EXCEPT !.at = at, !.policy = policy, !.violation = violation] \in CallRecords
  BY DEF CallRecords

LEMMA BeforeKeeps == ASSUME HooksInv, NEW c \in ToolCalls, Before(c) PROVE HooksInv'
<1>0. /\ call \in [ToolCalls -> CallRecords] /\ call[c].at = "idle" /\ ToldOK(c)
      /\ call[c] \in CallRecords
      /\ UNCHANGED << setup, served, pending, mixed, skills, holds, escalation, msg, bounds >>
  BY DEF HooksInv, HooksTypeOK, CallsInv, Before
<1>1. UNCHANGED << setup, served, pending, mixed, baseline, scan, inflight, passed, blind,
                   quarantine, freed, escalation, msg, lapses, misses >>
  BY <1>0 DEF skills, holds, bounds
<1>2. MessagesInv'
  BY <1>0, MessagesKept
<1>3. /\ \A r \in Revisions : scan'[r] = "pass" => r \in passed'
      /\ \A r \in inflight' : scan'[r] = "pending" \/ r \in blind'
  BY <1>1 DEF HooksInv, SkillsInv
<1>4. /\ ~call[c].permitted /\ call[c].of = "none" /\ call[c].revision = "none"
      /\ ~call[c].swayed
  BY <1>0 DEF ToldOK
<1>5. ASSUME NEW next \in CallRecords, call' = [call EXCEPT ![c] = next],
             lists' \in 0 .. Len(PolicyOf), allow' \in 0 .. Len(PolicyOf), lists <= lists',
             ListsInv', ToldOK(c)', ~next.permitted, next.of = "none",
             next.at \in {"checking", "threw"}
      PROVE  HooksInv'
  <2>1. SkillsInv' /\ CallsInv'
    BY <1>0, <1>1, <1>3, <1>5, CallMoves
  <2>2. call' \in [ToolCalls -> CallRecords]
    BY <1>0, <1>5
  <2>3. HooksTypeOK'
    BY <1>1, <1>5, <2>2 DEF HooksInv, HooksTypeOK
  <2> QED
    BY <1>2, <1>5, <2>1, <2>3 DEF HooksInv
<1>6. ASSUME Step(c, [call[c] EXCEPT !.at = "threw"]),
             lists' \in 0 .. Len(PolicyOf), allow' \in 0 .. Len(PolicyOf), lists <= lists', ListsInv'
      PROVE  HooksInv'
  <2> DEFINE next == [call[c] EXCEPT !.at = "threw"]
  <2>1. next \in CallRecords
    BY <1>0, CallMoved DEF CallPlaces
  <2>2. /\ next.at = "threw" /\ next.permitted = call[c].permitted /\ next.of = call[c].of
        /\ next.revision = call[c].revision /\ next.swayed = call[c].swayed
        /\ next.judgedBy = call[c].judgedBy /\ next.policy = call[c].policy
    BY <1>0 DEF CallRecords
  <2>3. call' = [call EXCEPT ![c] = next] /\ call'[c] = next
    BY <1>0, <1>6 DEF Step
  <2> HIDE DEF next
  <2>4. ToldOK(c)'
    BY <1>0, <1>4, <2>2, <2>3 DEF ToldOK
  <2> QED
    BY <1>4, <1>5, <1>6, <2>1, <2>2, <2>3, <2>4
<1> DEFINE Outcome == IF ToolOf[c] \in PolicyOf[allow'].tools
                         THEN "none" ELSE "tool_not_in_allowlist"
<1>7. \/ /\ UNCHANGED << lists, allow >>
         /\ Step(c, [call[c] EXCEPT !.at = "threw"])
      \/ Refresh /\ Step(c, [call[c] EXCEPT !.at = "threw"])
      \/ /\ Refresh /\ Usable
         /\ Step(c, [call[c] EXCEPT !.at = "checking", !.policy = allow', !.violation = Outcome])
  BY Zenon DEF Before
<1>8. CASE UNCHANGED << lists, allow >> /\ Step(c, [call[c] EXCEPT !.at = "threw"])
  BY <1>1, <1>6, <1>8, ListsKept
<1>9. CASE Refresh /\ Step(c, [call[c] EXCEPT !.at = "threw"])
  BY <1>1, <1>6, <1>9, RefreshIs
<1>10. CASE /\ Refresh /\ Usable
            /\ Step(c, [call[c] EXCEPT !.at = "checking", !.policy = allow',
                                       !.violation = Outcome])
  <2>1. /\ lists' \in 0 .. Len(PolicyOf) /\ allow' \in 0 .. Len(PolicyOf)
        /\ ListsInv' /\ lists <= lists' /\ allow' <= lists' /\ allow' \in Policies
    BY <1>1, <1>10, RefreshIs
  <2>2. PICK policy : policy = allow'
    OBVIOUS
  <2>3. PICK violation \in Opt(Reasons) :
            violation = Outcome
    BY DEF Opt, Reasons
  <2> DEFINE next == [call[c] EXCEPT !.at = "checking", !.policy = policy,
                                     !.violation = violation]
  <2>4. next \in CallRecords
    BY <1>0, <2>1, <2>2, CallRewritten DEF CallPlaces
  <2>5. /\ next.at = "checking" /\ next.permitted = call[c].permitted /\ next.of = call[c].of
        /\ next.revision = call[c].revision /\ next.swayed = call[c].swayed
        /\ next.judgedBy = call[c].judgedBy /\ next.policy = policy
    BY <1>0 DEF CallRecords
  <2>6. call' = [call EXCEPT ![c] = next] /\ call'[c] = next
    BY <1>0, <1>10, <2>2, <2>3 DEF Step
  <2> HIDE DEF next
  <2>7. next.judgedBy = 0
    BY <1>0, <2>5 DEF ToldOK
  <2>8. ToldOK(c)'
    BY <1>0, <1>4, <2>1, <2>2, <2>5, <2>6, <2>7 DEF ToldOK
  <2> QED
    BY <1>4, <1>5, <2>1, <2>4, <2>5, <2>6, <2>8
<1> QED
  BY <1>7, <1>8, <1>9, <1>10

\* A call that ends without a word, or waits to be judged, by what is left of
\* what it was.
LEMMA JudgeRefusedKeeps == ASSUME HooksInv, NEW c \in ToolCalls, JudgeRefused(c) PROVE HooksInv'
<1>0. /\ call \in [ToolCalls -> CallRecords] /\ call[c].at = "judging" /\ ToldOK(c)
      /\ call[c] \in CallRecords
      /\ UNCHANGED << setup, served, lists, allow, pending, mixed, skills, holds, escalation,
                      msg, bounds >>
      /\ Step(c, [call[c] EXCEPT !.at = "threw"])
  BY DEF HooksInv, HooksTypeOK, CallsInv, JudgeRefused
<1>1. UNCHANGED << setup, served, lists, allow, pending, mixed, baseline, scan, inflight, passed,
                   blind, quarantine, freed, escalation, msg, lapses, misses >>
  BY <1>0 DEF skills, holds, bounds
<1>2. MessagesInv'
  BY <1>0, MessagesKept
<1>3. /\ \A r \in Revisions : scan'[r] = "pass" => r \in passed'
      /\ \A r \in inflight' : scan'[r] = "pending" \/ r \in blind'
  BY <1>1 DEF HooksInv, SkillsInv
<1>4. /\ lists' \in 0 .. Len(PolicyOf) /\ allow' \in 0 .. Len(PolicyOf)
      /\ ListsInv' /\ lists <= lists'
  BY <1>1, ListsKept
<1> DEFINE next == [call[c] EXCEPT !.at = "threw"]
<1>5. next \in CallRecords
  BY <1>0, CallMoved DEF CallPlaces
<1>6. /\ next.at = "threw" /\ next.permitted = call[c].permitted /\ next.of = call[c].of
      /\ next.revision = call[c].revision /\ next.swayed = call[c].swayed /\ next.saw = call[c].saw
      /\ next.judgedBy = call[c].judgedBy /\ next.policy = call[c].policy
      /\ next.violation = call[c].violation
  BY <1>0 DEF CallRecords
<1>7. call' = [call EXCEPT ![c] = next] /\ call'[c] = next
  BY <1>0 DEF Step
<1> HIDE DEF next
<1>8. ToldOK(c)'
  BY <1>0, <1>1, <1>6, <1>7 DEF ToldOK
<1>9. SkillsInv' /\ CallsInv'
  BY <1>0, <1>1, <1>3, <1>4, <1>6, <1>7, <1>8, CallMoves DEF ToldOK
<1>10. HooksTypeOK'
  BY <1>0, <1>1, <1>5, <1>7 DEF HooksInv, HooksTypeOK
<1> QED
  BY <1>2, <1>4, <1>9, <1>10 DEF HooksInv

\* What the guard and the skill's scan leave of a call.
LEMMA CheckedKeeps ==
    ASSUME HooksInv, NEW c \in ToolCalls, call[c].at = "checking",
           NEW next \in CallRecords, call' = [call EXCEPT ![c] = next],
           next.at \in {"judging", "threw"},
           next.policy = call[c].policy, next.judgedBy = call[c].judgedBy,
           next.swayed = call[c].swayed, next.permitted = call[c].permitted,
           next.of = call[c].of,
           next.revision # "none" /\ next.saw = "none" =>
              next.revision \in passed \cup blind \/ next.violation # "none",
           scan' \in [Revisions -> {"none", "pending", "pass", "fail"}],
           inflight' \subseteq Revisions,
           \A r \in Revisions : scan'[r] = "pass" => r \in passed,
           \A r \in inflight' : scan'[r] = "pending" \/ r \in blind,
           misses' \in 0 .. MaxMisses,
           UNCHANGED << setup, served, lists, allow, pending, mixed, baseline, passed, blind,
                        holds, escalation, msg, lapses >>
    PROVE  HooksInv'
<1>0. call \in [ToolCalls -> CallRecords] /\ ToldOK(c)
  BY DEF HooksInv, HooksTypeOK, CallsInv
<1>1. quarantine' = quarantine /\ freed' = freed
  BY DEF holds
<1>2. MessagesInv'
  BY MessagesKept
<1>3. /\ lists' \in 0 .. Len(PolicyOf) /\ allow' \in 0 .. Len(PolicyOf)
      /\ ListsInv' /\ lists <= lists'
  BY ListsKept
<1>4. call'[c] = next
  BY <1>0
<1>5. ToldOK(c)'
  BY <1>0, <1>4 DEF ToldOK
<1>6. ~next.permitted /\ next.of = "none"
  BY <1>0 DEF ToldOK
<1>7. SkillsInv' /\ CallsInv'
  BY <1>3, <1>5, <1>6, CallMoves
<1>8. call' \in [ToolCalls -> CallRecords]
  BY <1>0
<1>9. HooksTypeOK'
  BY <1>1, <1>8 DEF HooksInv, HooksTypeOK
<1> QED
  BY <1>2, <1>3, <1>7, <1>9 DEF HooksInv

\* What a call is known as, once the guard has scanned its parameters.
Known(c, known) ==
    /\ known \in CallRecords
    /\ known.policy = call[c].policy /\ known.judgedBy = call[c].judgedBy
    /\ known.swayed = call[c].swayed /\ known.permitted = call[c].permitted
    /\ known.of = call[c].of /\ known.revision = call[c].revision

Rest == << setup, served, lists, allow, pending, mixed, baseline, passed, blind,
           holds, escalation, msg, lapses >>

LEMMA GuardedIs ==
    ASSUME NEW c, call[c] \in CallRecords, NEW class \in Classes, NEW blocks
    PROVE  Known(c, Guarded(c, class, blocks))
<1>1. PICK violation : violation = IF blocks THEN "agent_guard_failed" ELSE call[c].violation
  OBVIOUS
<1>2. violation \in Opt(Reasons)
  BY <1>1 DEF Opt, Reasons, CallRecords
<1>3. class \in Opt(Classes)
  BY DEF Opt
<1>4. Guarded(c, class, blocks) = [call[c] EXCEPT !.finding = class, !.violation = violation]
  BY <1>1 DEF Guarded
<1> QED
  BY <1>2, <1>3, <1>4 DEF Known, CallRecords

LEMMA PlainKeeps ==
    ASSUME HooksInv, NEW c \in ToolCalls, call[c].at = "checking", NEW known, Known(c, known),
           CheckPlain(c, known), UNCHANGED Rest
    PROVE  HooksInv'
<1>0. ToldOK(c) /\ known \in CallRecords
  BY DEF HooksInv, CallsInv, Known
<1> DEFINE next == [known EXCEPT !.at = "judging"]
<1>1. next \in CallRecords
  BY <1>0, CallMoved DEF CallPlaces
<1>2. /\ next.at = "judging" /\ next.policy = call[c].policy /\ next.judgedBy = call[c].judgedBy
      /\ next.swayed = call[c].swayed /\ next.permitted = call[c].permitted
      /\ next.of = call[c].of /\ next.revision = call[c].revision
  BY DEF Known, CallRecords
<1>3. call' = [call EXCEPT ![c] = next] /\ UNCHANGED << scan, inflight, misses >>
  BY DEF CheckPlain, Step
<1> HIDE DEF next
<1>4. next.revision = "none"
  BY <1>0, <1>2 DEF ToldOK
<1>5. /\ scan' \in [Revisions -> {"none", "pending", "pass", "fail"}]
      /\ inflight' \subseteq Revisions /\ misses' \in 0 .. MaxMisses
      /\ \A r \in Revisions : scan'[r] = "pass" => r \in passed
      /\ \A r \in inflight' : scan'[r] = "pending" \/ r \in blind
  BY <1>3 DEF HooksInv, HooksTypeOK, SkillsInv
<1> QED
  BY <1>1, <1>2, <1>3, <1>4, <1>5, CheckedKeeps DEF Rest

LEMMA FailsKeeps ==
    ASSUME HooksInv, NEW c \in ToolCalls, call[c].at = "checking", NEW known, Known(c, known),
           NEW first \in BOOLEAN, CheckFails(c, known, first), UNCHANGED Rest,
           scan' \in [Revisions -> {"none", "pending", "pass", "fail"}],
           inflight' \subseteq Revisions,
           \A r \in Revisions : scan'[r] = "pass" => r \in passed,
           \A r \in inflight' : scan'[r] = "pending" \/ r \in blind
    PROVE  HooksInv'
<1>0. ToldOK(c) /\ known \in CallRecords /\ misses \in Nat /\ MaxMisses \in Nat
  BY HooksAssumption DEF HooksInv, HooksTypeOK, CallsInv, Known
<1>1. PICK ok \in BOOLEAN :
        /\ misses + (IF first THEN 1 ELSE 0) + (IF ok THEN 0 ELSE 1) <= MaxMisses
        /\ misses' = misses + (IF first THEN 1 ELSE 0) + (IF ok THEN 0 ELSE 1)
        /\ Step(c, [known EXCEPT !.at = IF ok THEN "judging" ELSE "threw",
                                 !.finding = Sharper(known.finding),
                                 !.violation = OrElse(known.violation, "skill_scan_failed")])
  BY DEF CheckFails
<1>2. misses' \in 0 .. MaxMisses
  BY <1>0, <1>1
<1>3. PICK at \in {"judging", "threw"} : at = IF ok THEN "judging" ELSE "threw"
  OBVIOUS
<1>4. PICK finding \in Opt(Classes) : finding = Sharper(known.finding)
  BY DEF Sharper, Opt, Classes
<1>5. PICK violation \in Opt(Reasons) : violation = OrElse(known.violation, "skill_scan_failed")
  BY <1>0 DEF OrElse, Opt, Reasons, CallRecords
<1> DEFINE next == [known EXCEPT !.at = at, !.finding = finding, !.violation = violation]
<1>6. call' = [call EXCEPT ![c] = next]
  BY <1>1, <1>3, <1>4, <1>5 DEF Step
<1>7. next \in CallRecords
  BY <1>0 DEF CallRecords, CallPlaces
<1>8. /\ next.at = at /\ next.policy = call[c].policy /\ next.judgedBy = call[c].judgedBy
      /\ next.swayed = call[c].swayed /\ next.permitted = call[c].permitted
      /\ next.of = call[c].of /\ next.revision = call[c].revision
  BY DEF Known, CallRecords
<1> HIDE DEF next
<1>9. next.revision = "none"
  BY <1>0, <1>8 DEF ToldOK
<1> QED
  BY <1>2, <1>6, <1>7, <1>8, <1>9, CheckedKeeps DEF Rest

\* The scans, once a skill's was ensured or left alone.
LEMMA EnsuredIs ==
    ASSUME HooksInv, NEW r \in Revisions, Ensured(r) \/ UNCHANGED << scan, inflight >>
    PROVE  /\ scan' \in [Revisions -> {"none", "pending", "pass", "fail"}]
           /\ inflight' \subseteq Revisions
           /\ \A other \in Revisions : scan'[other] = "pass" => other \in passed
           /\ \A other \in inflight' : scan'[other] = "pending" \/ other \in blind
           /\ Ensured(r) /\ scan'[r] = "none" => r \in blind
<1>1. /\ scan \in [Revisions -> {"none", "pending", "pass", "fail"}] /\ inflight \subseteq Revisions
      /\ \A other \in Revisions : scan[other] = "pass" => other \in passed
      /\ \A other \in inflight : scan[other] = "pending" \/ other \in blind
  BY DEF HooksInv, HooksTypeOK, SkillsInv
<1>2. CASE UNCHANGED << scan, inflight >>
  <2>1. Ensured(r) /\ scan[r] = "none" => r \in blind
    <3>1. scan[r] = "none" /\ r \notin inflight /\ Ensured(r) => scan'[r] = "pending"
      BY <1>1 DEF Ensured
    <3> QED
      BY <1>1, <1>2, <3>1
  <2> QED
    BY <1>1, <1>2, <2>1
<1>3. CASE scan' = [scan EXCEPT ![r] = "pending"] /\ inflight' = inflight \cup {r}
  BY <1>1, <1>3
<1> QED
  BY <1>2, <1>3 DEF Ensured

LEMMA SkillKeeps ==
    ASSUME HooksInv, NEW c \in ToolCalls, call[c].at = "checking", NEW known, Known(c, known),
           NEW r \in Revisions, CheckSkill(c, known, r), UNCHANGED Rest
    PROVE  HooksInv'
<1> DEFINE found == SkillViolation(baseline, r, scan'[r])
<1>0. /\ ToldOK(c) /\ known \in CallRecords /\ baseline \in Opt(Revisions) /\ r # "none"
      /\ misses \in 0 .. MaxMisses
  BY HooksAssumption DEF HooksInv, HooksTypeOK, CallsInv, Known
<1>1. (baseline # r => Ensured(r)) /\ (baseline = r => UNCHANGED << scan, inflight >>)
  BY DEF CheckSkill
<1>2. /\ scan' \in [Revisions -> {"none", "pending", "pass", "fail"}]
      /\ inflight' \subseteq Revisions
      /\ \A other \in Revisions : scan'[other] = "pass" => other \in passed
      /\ \A other \in inflight' : scan'[other] = "pending" \/ other \in blind
      /\ baseline = "none" /\ scan'[r] = "none" => r \in blind
  BY <1>0, <1>1, EnsuredIs
<1>3. CASE CheckFails(c, known, TRUE)
  BY <1>2, <1>3, FailsKeeps
<1>4. CASE /\ Step(c, [known EXCEPT
                    !.at = "judging", !.revision = r, !.saw = baseline,
                    !.finding = IF scan'[r] = "fail" THEN Sharper(@) ELSE @,
                    !.violation = OrElse(known.violation, found)])
           /\ UNCHANGED misses
  <2>1. found \in Opt(Reasons) /\ (baseline = "none" /\ found = "none" => r \in passed \cup blind)
    <3>1. scan'[r] \in {"none", "pending", "pass", "fail"}
      BY <1>2
    <3> QED
      BY <1>0, <1>2, <3>1 DEF SkillViolation, Opt, Reasons
  <2> HIDE DEF found
  <2>2. PICK violation \in Opt(Reasons) : violation = OrElse(known.violation, found)
    BY <1>0, <2>1 DEF OrElse, CallRecords
  <2>3. PICK finding \in Opt(Classes) :
            finding = IF scan'[r] = "fail" THEN Sharper(known.finding) ELSE known.finding
    BY <1>0 DEF Sharper, Opt, Classes, CallRecords
  <2>4. PICK saw \in Opt(Revisions) : saw = baseline
    BY <1>0
  <2> DEFINE next == [known EXCEPT !.at = "judging", !.revision = r, !.saw = saw,
                                   !.finding = finding, !.violation = violation]
  <2>5. call' = [call EXCEPT ![c] = next]
    BY <1>4, <2>2, <2>3, <2>4 DEF Step
  <2>6. next \in CallRecords
    BY <1>0 DEF CallRecords, CallPlaces, Opt
  <2>7. /\ next.at = "judging" /\ next.policy = call[c].policy
        /\ next.judgedBy = call[c].judgedBy
        /\ next.swayed = call[c].swayed /\ next.permitted = call[c].permitted
        /\ next.of = call[c].of /\ next.revision = r /\ next.saw = saw
        /\ next.violation = violation
    BY DEF Known, CallRecords
  <2> HIDE DEF next
  <2>8. saw = "none" => r \in passed \cup blind \/ violation # "none"
    BY <2>1, <2>2, <2>4 DEF OrElse
  <2>9. misses' \in 0 .. MaxMisses
    BY <1>0, <1>4
  <2> QED
    BY <1>2, <2>5, <2>6, <2>7, <2>8, <2>9, CheckedKeeps DEF Rest
<1> QED
  BY <1>3, <1>4 DEF CheckSkill

LEMMA CheckKeeps == ASSUME HooksInv, NEW c \in ToolCalls, CheckCall(c) PROVE HooksInv'
<1>0. /\ call \in [ToolCalls -> CallRecords] /\ call[c].at = "checking" /\ ToldOK(c)
      /\ call[c] \in CallRecords /\ UNCHANGED Rest /\ setup \in Setups
      /\ misses \in 0 .. MaxMisses
  BY DEF HooksInv, HooksTypeOK, CallsInv, CheckCall, Rest
<1>1. /\ scan \in [Revisions -> {"none", "pending", "pass", "fail"}] /\ inflight \subseteq Revisions
      /\ \A r \in Revisions : scan[r] = "pass" => r \in passed
      /\ \A r \in inflight : scan[r] = "pending" \/ r \in blind
  BY DEF HooksInv, HooksTypeOK, SkillsInv
<1>2. CASE Step(c, [call[c] EXCEPT !.at = "threw"]) /\ UNCHANGED << scan, inflight, misses >>
  <2> DEFINE next == [call[c] EXCEPT !.at = "threw"]
  <2>1. next \in CallRecords
    BY <1>0, CallMoved DEF CallPlaces
  <2>2. /\ next.at = "threw" /\ next.policy = call[c].policy
        /\ next.judgedBy = call[c].judgedBy
        /\ next.swayed = call[c].swayed /\ next.permitted = call[c].permitted
        /\ next.of = call[c].of /\ next.revision = call[c].revision
    BY <1>0 DEF CallRecords
  <2>3. call' = [call EXCEPT ![c] = next]
    BY <1>2 DEF Step
  <2> HIDE DEF next
  <2>4. next.revision = "none"
    BY <1>0, <2>2 DEF ToldOK
  <2> QED
    BY <1>0, <1>1, <1>2, <2>1, <2>2, <2>3, <2>4, CheckedKeeps DEF Rest
<1>3. ASSUME NEW known, Known(c, known),
             \/ CheckPlain(c, known)
             \/ \E r \in Revisions : CheckSkill(c, known, r)
             \/ CheckFails(c, known, FALSE) /\ UNCHANGED << scan, inflight >>
      PROVE  HooksInv'
  <2>1. CASE CheckPlain(c, known)
    BY <1>0, <1>3, <2>1, PlainKeeps
  <2>2. CASE \E r \in Revisions : CheckSkill(c, known, r)
    BY <1>0, <1>3, <2>2, SkillKeeps
  <2>3. CASE CheckFails(c, known, FALSE) /\ UNCHANGED << scan, inflight >>
    <3>1. FALSE \in BOOLEAN
      OBVIOUS
    <3>2. /\ scan' \in [Revisions -> {"none", "pending", "pass", "fail"}]
          /\ inflight' \subseteq Revisions
          /\ \A r \in Revisions : scan'[r] = "pass" => r \in passed
          /\ \A r \in inflight' : scan'[r] = "pending" \/ r \in blind
      BY <1>1, <2>3
    <3> QED
      BY <1>0, <1>3, <2>3, <3>1, <3>2, FailsKeeps
  <2> QED
    BY <1>3, <2>1, <2>2, <2>3
<1>4. CASE Buildable(call[c].policy)
  <2>1. ScanBy(call[c].policy, "input") \in Scans
    BY <1>0, ScanByIs DEF ToldOK, Looks
  <2>2. PICK outline \in Outlines[ScanBy(call[c].policy, "input")] :
            LET known == Guarded(c, outline.class, outline.blocks)
            IN  \/ CheckPlain(c, known)
                \/ \E r \in Revisions : CheckSkill(c, known, r)
                \/ CheckFails(c, known, FALSE) /\ UNCHANGED << scan, inflight >>
    BY <1>4 DEF CheckCall
  <2>3. PICK known : known = Guarded(c, outline.class, outline.blocks)
    OBVIOUS
  <2>4. outline.class \in Classes
    BY <2>1, OutlinesAre
  <2>5. Known(c, known)
    BY <1>0, <2>3, <2>4, GuardedIs
  <2>6. \/ CheckPlain(c, known)
        \/ \E r \in Revisions : CheckSkill(c, known, r)
        \/ CheckFails(c, known, FALSE) /\ UNCHANGED << scan, inflight >>
    BY <2>2, <2>3
  <2> QED
    BY <1>3, <2>5, <2>6
<1> QED
  BY <1>2, <1>4 DEF CheckCall

LEMMA AppendIs ==
    ASSUME HooksInv, NEW ok \in BOOLEAN, Append1(ok)
    PROVE  misses' \in 0 .. MaxMisses
<1>1. misses \in 0 .. MaxMisses /\ MaxMisses \in Nat
  BY HooksAssumption DEF HooksInv, HooksTypeOK
<1> QED
  BY <1>1 DEF Append1

LEMMA JudgeKeeps == ASSUME HooksInv, NEW c \in ToolCalls, Judge(c) PROVE HooksInv'
<1>0. /\ call \in [ToolCalls -> CallRecords] /\ call[c].at = "judging" /\ ToldOK(c)
      /\ call[c] \in CallRecords /\ setup \in Setups /\ lists \in 0 .. Len(PolicyOf)
      /\ pending \in [Tools -> Seq(ToolCalls)] /\ ToolOf[c] \in Tools
      /\ mixed \subseteq ToolCalls /\ misses \in 0 .. MaxMisses
      /\ UNCHANGED << setup, served, lists, allow, skills, holds, escalation, msg, lapses >>
  BY DEF HooksInv, HooksTypeOK, CallsInv, Judge, Tools
<1>1. UNCHANGED << setup, served, lists, allow, baseline, scan, inflight, passed,
                   blind, quarantine, freed, escalation, msg, lapses >>
  BY <1>0 DEF skills, holds
<1>2. MessagesInv'
  BY <1>0, MessagesKept
<1>3. /\ \A r \in Revisions : scan'[r] = "pass" => r \in passed'
      /\ \A r \in inflight' : scan'[r] = "pending" \/ r \in blind'
  BY <1>1 DEF HooksInv, SkillsInv
<1>4. /\ lists' \in 0 .. Len(PolicyOf) /\ allow' \in 0 .. Len(PolicyOf)
      /\ ListsInv' /\ lists <= lists'
  BY <1>1, ListsKept
<1>5. PICK opinion :
        LET violation == Adjudicated(call[c].violation, call[c].finding, opinion)
            judged == [call[c] EXCEPT !.violation = violation, !.judgedBy = lists,
                         !.swayed = violation # call[c].violation]
        IN  IF violation \in Denied
            THEN /\ \E ok \in BOOLEAN :
                       /\ Append1(ok)
                       /\ Step(c, [judged EXCEPT !.at = IF ok THEN "blocked" ELSE "threw"])
                 /\ UNCHANGED << pending, mixed >>
            ELSE /\ Step(c, [judged EXCEPT !.at = "allowed", !.permitted = TRUE])
                 /\ pending' = [pending EXCEPT ![KeyFor(c)] = Append(@, c)]
                 /\ mixed' = mixed \cup Open(c)
                 /\ UNCHANGED misses
  BY DEF Judge
<1>6. PICK violation : violation = Adjudicated(call[c].violation, call[c].finding, opinion)
  OBVIOUS
<1>7. violation \in Opt(Reasons)
  BY <1>0, <1>6, AdjudicatedIs DEF CallRecords
<1>8. PICK swayed \in BOOLEAN : swayed = (violation # call[c].violation)
  OBVIOUS
<1>9. PICK by \in 0 .. Len(PolicyOf) : by = lists
  BY <1>0
<1> DEFINE judged == [call[c] EXCEPT !.violation = violation, !.judgedBy = by, !.swayed = swayed]
<1>10. IF violation \in Denied
       THEN /\ \E ok \in BOOLEAN :
                  /\ Append1(ok)
                  /\ Step(c, [judged EXCEPT !.at = IF ok THEN "blocked" ELSE "threw"])
            /\ UNCHANGED << pending, mixed >>
       ELSE /\ Step(c, [judged EXCEPT !.at = "allowed", !.permitted = TRUE])
            /\ pending' = [pending EXCEPT ![ToolOf[c]] = Append(@, c)]
            /\ mixed' = mixed \cup Open(c)
            /\ UNCHANGED misses
  BY <1>5, <1>6, <1>8, <1>9 DEF KeyFor
<1>11. /\ judged \in CallRecords
       /\ judged.policy = call[c].policy /\ judged.permitted = call[c].permitted
       /\ judged.of = call[c].of /\ judged.revision = call[c].revision
       /\ judged.saw = call[c].saw /\ judged.violation = violation
       /\ judged.judgedBy = by /\ judged.swayed = swayed
  BY <1>0, <1>7, <1>8, <1>9 DEF CallRecords
<1> HIDE DEF judged
<1>12. /\ ~call[c].permitted /\ call[c].of = "none" /\ ~call[c].swayed
       /\ call[c].policy \in Policies /\ call[c].policy <= by
       /\ call[c].revision # "none" /\ call[c].saw = "none" =>
             call[c].revision \in passed \cup blind \/ call[c].violation # "none"
  BY <1>0, <1>9 DEF ToldOK
<1>13. CASE violation \in Denied
  <2>1. PICK ok \in BOOLEAN :
            /\ Append1(ok)
            /\ Step(c, [judged EXCEPT !.at = IF ok THEN "blocked" ELSE "threw"])
    BY <1>10, <1>13
  <2>2. PICK at \in {"blocked", "threw"} : at = IF ok THEN "blocked" ELSE "threw"
    OBVIOUS
  <2> DEFINE next == [judged EXCEPT !.at = at]
  <2>3. next \in CallRecords
    BY <1>11, CallMoved DEF CallPlaces
  <2>4. /\ next.at = at /\ next.policy = call[c].policy /\ next.permitted = call[c].permitted
        /\ next.of = call[c].of /\ next.revision = call[c].revision
        /\ next.saw = call[c].saw /\ next.violation = violation
        /\ next.judgedBy = by /\ next.swayed = swayed
    BY <1>11 DEF CallRecords
  <2>5. call' = [call EXCEPT ![c] = next] /\ call'[c] = next
    BY <1>0, <2>1, <2>2 DEF Step
  <2> HIDE DEF next
  <2>6. by >= call[c].policy
    <3>1. by \in Nat /\ call[c].policy \in Nat
      BY <1>9, <1>12, PoliciesAre
    <3> QED
      BY <1>12, <3>1
  <2>7. ToldOK(c)'
    BY <1>1, <1>8, <1>12, <2>4, <2>5, <2>6 DEF ToldOK
  <2>8. UNCHANGED << pending, mixed >>
    BY <1>10, <1>13
  <2>9. SkillsInv' /\ CallsInv'
    BY <1>0, <1>1, <1>3, <1>4, <1>12, <2>4, <2>5, <2>7, <2>8, CallMoves
  <2>10. misses' \in 0 .. MaxMisses
    BY <2>1, AppendIs
  <2>11. HooksTypeOK'
    BY <1>0, <1>1, <2>3, <2>5, <2>8, <2>10 DEF HooksInv, HooksTypeOK
  <2> QED
    BY <1>2, <1>4, <2>9, <2>11 DEF HooksInv
<1>14. CASE violation \notin Denied
  <2> DEFINE next == [judged EXCEPT !.at = "allowed", !.permitted = TRUE]
             key == ToolOf[c]
             permits == pending[key]
  <2>1. next \in CallRecords
    BY <1>11 DEF CallRecords, CallPlaces
  <2>2. /\ next.at = "allowed" /\ next.policy = call[c].policy /\ next.permitted
        /\ next.of = "none" /\ next.revision = call[c].revision
        /\ next.saw = call[c].saw /\ next.violation = violation
        /\ next.judgedBy = by /\ next.swayed = swayed
    BY <1>11, <1>12 DEF CallRecords
  <2>3. /\ call' = [call EXCEPT ![c] = next] /\ call'[c] = next
        /\ \A d \in ToolCalls \ {c} : call'[d] = call[d]
        /\ mixed' = mixed \cup Open(c) /\ UNCHANGED misses
        /\ pending' = [pending EXCEPT ![key] = Append(permits, c)]
    BY <1>0, <1>10, <1>14 DEF Step
  <2> HIDE DEF next
  <2>4. permits \in Seq(ToolCalls) /\ IsInjective(permits) /\ ListOK(key)
    BY <1>0 DEF HooksInv, CallsInv, TakenOnce
  <2>5. \A i \in DOMAIN permits : permits[i] # c
    BY <1>12, <2>4 DEF ListOK
  <2>6. /\ pending' \in [Tools -> Seq(ToolCalls)]
        /\ pending'[key] # << >> /\ Last(pending'[key]) = c
        /\ \A i \in DOMAIN pending'[key] :
              (i \in DOMAIN permits /\ pending'[key][i] = permits[i]) \/ pending'[key][i] = c
        /\ IsInjective(pending'[key])
        /\ \A k \in Tools \ {key} : pending'[k] = pending[k]
    <3> DEFINE longer == Append(permits, c)
    <3>1. /\ longer \in Seq(ToolCalls) /\ longer # << >> /\ Last(longer) = c
          /\ \A i \in DOMAIN longer :
                (i \in DOMAIN permits /\ longer[i] = permits[i]) \/ longer[i] = c
          /\ IsInjective(longer)
      BY <2>4, <2>5, AppendedPermit
    <3>2. pending' = [pending EXCEPT ![key] = longer]
      BY <2>3
    <3> HIDE DEF longer, permits
    <3>3. pending'[key] = longer /\ \A k \in Tools \ {key} : pending'[k] = pending[k]
      BY <1>0, <3>2
    <3>4. pending' \in [Tools -> Seq(ToolCalls)]
      BY <1>0, <3>1, <3>2
    <3> QED
      BY <3>1, <3>3, <3>4
  <2>7. \A d \in ToolCalls : call[d].permitted => call'[d] = call[d]
    BY <1>12, <2>3
  <2>8. \A d \in ToolCalls : Listed(d)' => Listed(d) \/ d = c
    <3> SUFFICES ASSUME NEW d \in ToolCalls, Listed(d)', d # c PROVE Listed(d)
      OBVIOUS
    <3>1. CASE ToolOf[d] = key
      BY <2>6, <3>1 DEF Listed
    <3>2. CASE ToolOf[d] # key
      BY <2>6, <3>2 DEF Listed, Tools
    <3> QED
      BY <3>1, <3>2
  <2>9. ASSUME NEW d \in ToolCalls PROVE ToldOK(d)'
    <3>1. CASE d # c
      BY <1>1, <1>4, <2>3, <3>1, ToldKept
    <3>2. CASE d = c
      <4>1. by >= call[c].policy
        <5>1. by \in Nat /\ call[c].policy \in Nat
          BY <1>9, <1>12, PoliciesAre
        <5> QED
          BY <1>12, <5>1
      <4>2. violation \notin Says(by, "deny")'
        BY <1>1, <1>9, <1>14 DEF Denied, Says
      <4> QED
        BY <1>1, <1>8, <1>12, <2>2, <2>3, <3>2, <4>1, <4>2 DEF ToldOK
    <3> QED
      BY <3>1, <3>2
  <2>10. ASSUME NEW d \in ToolCalls PROVE PermitOK(d)'
    <3>1. CASE d = c
      BY <2>2, <2>3, <2>6, <3>1 DEF PermitOK
    <3>2. CASE d # c
      <4>1. PermitOK(d) /\ call'[d] = call[d]
        BY <2>3, <3>2 DEF HooksInv, CallsInv
      <4>2. call[d].at = "allowed" /\ d \notin mixed' => ToolOf[d] # key
        BY <2>3, <3>2 DEF Open
      <4>3. ToolOf[d] \in Tools
        BY DEF Tools
      <4>4. call[d].at = "allowed" /\ d \notin mixed' =>
                pending'[ToolOf[d]] # << >> /\ Last(pending'[ToolOf[d]]) = d
        BY <2>3, <2>6, <4>1, <4>2, <4>3 DEF PermitOK
      <4>5. call[d].of # "none" => call[d].of \in ToolCalls
        BY <1>0 DEF CallRecords, Opt
      <4>6. call[d].of # "none" => call[d].of # c
        BY <1>12, <4>1 DEF PermitOK
      <4>8. PICK o : o = call[d].of
        OBVIOUS
      <4>7. o # "none" => call'[o].permitted /\ ~Listed(o)'
        BY <2>7, <2>8, <4>1, <4>5, <4>6, <4>8 DEF PermitOK
      <4> QED
        BY <2>3, <4>1, <4>4, <4>7, <4>8 DEF PermitOK
    <3> QED
      BY <3>1, <3>2
  <2>11. ASSUME NEW k \in Tools PROVE ListOK(k)' /\ IsInjective(pending'[k])
    <3>1. /\ ListOK(k) /\ IsInjective(pending[k])
          /\ \A i \in DOMAIN pending[k] : pending[k][i] \in ToolCalls
      BY <1>0 DEF HooksInv, CallsInv, TakenOnce
    <3>2. CASE k = key
      BY <2>2, <2>3, <2>6, <2>7, <3>1, <3>2 DEF ListOK
    <3>3. CASE k # key
      BY <2>6, <2>7, <3>1, <3>3 DEF ListOK
    <3> QED
      BY <3>2, <3>3
  <2>12. \A d \in ToolCalls : call'[d].of = call[d].of
    BY <1>12, <2>2, <2>3
  <2>13. TakenOnce'
    BY <2>11, <2>12 DEF HooksInv, CallsInv, TakenOnce
  <2>14. SkillsInv'
    BY <1>1, <2>7 DEF HooksInv, SkillsInv
  <2>15. mixed' \subseteq ToolCalls
    BY <1>0, <2>3 DEF Open
  <2>16. HooksTypeOK'
    BY <1>0, <1>1, <2>1, <2>3, <2>6, <2>15 DEF HooksInv, HooksTypeOK
  <2> QED
    BY <1>2, <1>4, <2>9, <2>10, <2>11, <2>13, <2>14, <2>16 DEF HooksInv, CallsInv
<1> QED
  BY <1>13, <1>14

LEMMA AfterKeeps == ASSUME HooksInv, NEW c \in ToolCalls, After(c) PROVE HooksInv'
<1> DEFINE key == ToolOf[c]
           permits == pending[key]
<1>0. /\ call \in [ToolCalls -> CallRecords] /\ call[c].at \in {"allowed", "threw"}
      /\ call[c] \in CallRecords /\ ToldOK(c) /\ PermitOK(c)
      /\ pending \in [Tools -> Seq(ToolCalls)] /\ key \in Tools
      /\ mixed \subseteq ToolCalls /\ baseline \in Opt(Revisions)
      /\ UNCHANGED << setup, served, lists, allow, scan, inflight, passed, blind, holds,
                      escalation, msg, bounds >>
  BY DEF HooksInv, HooksTypeOK, CallsInv, After, Tools
<1>1. UNCHANGED << setup, served, lists, allow, scan, inflight, passed,
                   blind, quarantine, freed, escalation, msg, lapses, misses >>
  BY <1>0 DEF holds, bounds
<1>2. MessagesInv'
  BY <1>0, MessagesKept
<1>3. /\ lists' \in 0 .. Len(PolicyOf) /\ allow' \in 0 .. Len(PolicyOf)
      /\ ListsInv' /\ lists <= lists'
  BY <1>1, ListsKept
<1>4. permits \in Seq(ToolCalls) /\ IsInjective(permits) /\ ListOK(key)
  BY <1>0 DEF HooksInv, CallsInv, TakenOnce
<1>5. PICK permit : permit = IF permits = << >> THEN "none" ELSE Last(permits)
  OBVIOUS
<1>6. PICK shorter : shorter = Popped(permits)
  OBVIOUS
<1>7. /\ shorter \in Seq(ToolCalls) /\ IsInjective(shorter)
      /\ \A i \in DOMAIN shorter : i \in DOMAIN permits /\ shorter[i] = permits[i]
      /\ permits # << >> => /\ \E i \in DOMAIN permits : permits[i] = permit
                            /\ permit \in ToolCalls
                            /\ \A i \in DOMAIN shorter : shorter[i] # permit
  BY <1>4, <1>5, <1>6, PoppedPermit
<1>8. permit \in Opt(ToolCalls) /\ (permits = << >> => permit = "none")
  BY <1>5, <1>7 DEF Opt
<1>9. permit # "none" =>
          /\ permits # << >> /\ permit \in ToolCalls /\ call[permit].permitted
          /\ ToolOf[permit] = key /\ Listed(permit)
  BY <1>4, <1>7, <1>8 DEF ListOK, Listed
<1> DEFINE next == [call[c] EXCEPT !.at = "reported", !.of = permit]
<1>10. next \in CallRecords
  BY <1>0, <1>8 DEF CallRecords, CallPlaces
<1>11. /\ next.at = "reported" /\ next.of = permit /\ next.policy = call[c].policy
       /\ next.permitted = call[c].permitted /\ next.revision = call[c].revision
       /\ next.saw = call[c].saw /\ next.violation = call[c].violation
       /\ next.judgedBy = call[c].judgedBy /\ next.swayed = call[c].swayed
  BY <1>0 DEF CallRecords
<1>12. /\ call' = [call EXCEPT ![c] = next] /\ mixed' = mixed \cup Open(c)
       /\ pending' = [pending EXCEPT ![key] = shorter]
       /\ baseline' = IF Commits(permit) = "none" THEN baseline ELSE Commits(permit)
  BY <1>5, <1>6 DEF After, KeyFor, Step
<1> HIDE DEF next, permits
<1>13. /\ call'[c] = next /\ \A d \in ToolCalls \ {c} : call'[d] = call[d]
       /\ call' \in [ToolCalls -> CallRecords]
  BY <1>0, <1>10, <1>12
<1>14. /\ pending' \in [Tools -> Seq(ToolCalls)] /\ pending'[key] = shorter
       /\ \A k \in Tools \ {key} : pending'[k] = pending[k]
  BY <1>0, <1>7, <1>12
<1>15. \A d \in ToolCalls :
          call'[d].permitted = call[d].permitted /\ call'[d].revision = call[d].revision
  BY <1>11, <1>13
<1>16. \A d \in ToolCalls : Listed(d)' => Listed(d) /\ (permit # "none" => d # permit)
  <2> SUFFICES ASSUME NEW d \in ToolCalls, Listed(d)'
               PROVE  Listed(d) /\ (permit # "none" => d # permit)
    OBVIOUS
  <2>1. CASE ToolOf[d] = key
    BY <1>7, <1>9, <1>14, <2>1 DEF Listed, permits
  <2>2. CASE ToolOf[d] # key
    <3>1. ToolOf[d] \in Tools
      BY DEF Tools
    <3> QED
      BY <1>9, <1>14, <2>2, <3>1 DEF Listed
  <2> QED
    BY <2>1, <2>2
<1>17. ASSUME NEW d \in ToolCalls PROVE ToldOK(d)'
  <2>1. CASE d # c
    BY <1>1, <1>3, <1>13, <2>1, ToldKept
  <2>2. CASE d = c
    <3>1. call[c].permitted => call[c].violation \notin Says(call[c].judgedBy, "deny")
      BY <1>0 DEF ToldOK
    <3>2. (call[c].permitted => call[c].violation \notin Says(call[c].judgedBy, "deny"))'
      BY <1>1, <1>11, <1>13, <3>1 DEF Says
    <3> QED
      BY <1>0, <1>1, <1>11, <1>13, <2>2, <3>2 DEF ToldOK
  <2> QED
    BY <2>1, <2>2
<1>18. ASSUME NEW d \in ToolCalls PROVE PermitOK(d)'
  <2>1. CASE d = c
    <3>1. permit # "none" => call'[permit].permitted /\ ~Listed(permit)'
      BY <1>9, <1>15, <1>16
    <3>2. call[c].permitted /\ c \notin mixed' => permit = c
      <4>1. call[c].permitted => call[c].at = "allowed"
        BY <1>0 DEF ToldOK
      <4>2. c \notin mixed' => c \notin mixed
        BY <1>12
      <4> QED
        BY <1>0, <1>5, <4>1, <4>2 DEF PermitOK, permits
    <3> QED
      BY <1>11, <1>13, <2>1, <3>1, <3>2 DEF PermitOK
  <2>2. CASE d # c
    <3>1. PermitOK(d) /\ call'[d] = call[d] /\ ToolOf[d] \in Tools
      BY <1>13, <2>2 DEF HooksInv, CallsInv, Tools
    <3>2. call[d].at = "allowed" /\ d \notin mixed' => ToolOf[d] # key /\ d \notin mixed
      BY <1>12, <2>2 DEF Open
    <3>3. call[d].at = "allowed" /\ d \notin mixed' =>
              pending'[ToolOf[d]] # << >> /\ Last(pending'[ToolOf[d]]) = d
      BY <1>14, <3>1, <3>2 DEF PermitOK
    <3>4. PICK o : o = call[d].of
      OBVIOUS
    <3>5. o # "none" => o \in ToolCalls
      BY <1>0, <3>4 DEF CallRecords, Opt
    <3>6. o # "none" => call'[o].permitted /\ ~Listed(o)'
      BY <1>15, <1>16, <3>1, <3>4, <3>5 DEF PermitOK
    <3> QED
      BY <1>12, <3>1, <3>3, <3>4, <3>6 DEF PermitOK
  <2> QED
    BY <2>1, <2>2
<1>19. ASSUME NEW k \in Tools PROVE ListOK(k)' /\ IsInjective(pending'[k])
  <2>1. /\ ListOK(k) /\ IsInjective(pending[k])
        /\ \A i \in DOMAIN pending[k] : pending[k][i] \in ToolCalls
    BY <1>0 DEF HooksInv, CallsInv, TakenOnce
  <2>2. CASE k = key
    <3>1. /\ pending'[k] = shorter /\ IsInjective(shorter)
          /\ \A i \in DOMAIN shorter : i \in DOMAIN pending[k] /\ shorter[i] = pending[k][i]
      BY <1>7, <1>14, <2>2 DEF permits
    <3>2. ListOK(k)'
      BY <1>15, <2>1, <3>1 DEF ListOK
    <3> QED
      BY <3>1, <3>2
  <2>3. CASE k # key
    BY <1>14, <1>15, <2>1, <2>3 DEF ListOK
  <2> QED
    BY <2>2, <2>3
<1>20. TakenOnce'
  <2>1. ASSUME NEW a \in ToolCalls, NEW b \in ToolCalls, a # b, call'[a].of # "none"
        PROVE  call'[a].of # call'[b].of
    <3>1. CASE a # c /\ b # c
      BY <1>13, <2>1, <3>1 DEF HooksInv, CallsInv, TakenOnce
    <3>2. ASSUME NEW d \in ToolCalls \ {c}, permit # "none" PROVE call[d].of # permit
      <4>1. PermitOK(d)
        BY DEF HooksInv, CallsInv
      <4> QED
        BY <1>9, <3>2, <4>1 DEF PermitOK
    <3> QED
      BY <1>11, <1>13, <2>1, <3>1, <3>2
  <2> QED
    BY <1>19, <2>1 DEF TakenOnce
<1>21. SkillsInv'
  <2>1. baseline' # "none" =>
            \E d \in ToolCalls : call'[d].permitted /\ call'[d].revision = baseline'
    <3>1. CASE Commits(permit) = "none"
      BY <1>12, <1>15, <3>1 DEF HooksInv, SkillsInv
    <3>2. CASE Commits(permit) # "none"
      BY <1>9, <1>12, <1>15, <3>2 DEF Commits
    <3> QED
      BY <3>1, <3>2
  <2> QED
    BY <1>1, <2>1 DEF HooksInv, SkillsInv
<1>22. HooksTypeOK'
  <2>1. baseline' \in Opt(Revisions)
    <3>1. permit # "none" => call[permit].revision \in Opt(Revisions)
      BY <1>0, <1>9 DEF CallRecords
    <3> QED
      BY <1>0, <1>12, <3>1 DEF Commits, Opt
  <2>2. mixed' \subseteq ToolCalls
    BY <1>0, <1>12 DEF Open
  <2> QED
    BY <1>1, <1>13, <1>14, <2>1, <2>2 DEF HooksInv, HooksTypeOK
<1> QED
  BY <1>2, <1>3, <1>17, <1>18, <1>19, <1>20, <1>21, <1>22 DEF HooksInv, CallsInv

\* The skill's scans end and lapse.
LEMMA ScansKeep ==
    ASSUME HooksInv, NEW r \in Revisions, ScanEnds(r) \/ ScanLapses(r)
    PROVE  HooksInv'
<1>0. /\ UNCHANGED << setup, served, lists, allow, pending, mixed, baseline, holds, escalation,
                      call, msg, misses >>
      /\ scan \in [Revisions -> {"none", "pending", "pass", "fail"}]
      /\ inflight \subseteq Revisions /\ passed \subseteq Revisions /\ blind \subseteq Revisions
      /\ lapses \in 0 .. MaxLapses /\ MaxLapses \in Nat
      /\ \A other \in Revisions : scan[other] = "pass" => other \in passed
      /\ \A other \in inflight : scan[other] = "pending" \/ other \in blind
  BY HooksAssumption DEF HooksInv, HooksTypeOK, SkillsInv, ScanEnds, ScanLapses, bounds
<1>1. MessagesInv'
  BY <1>0, MessagesKept
<1>2. /\ lists' \in 0 .. Len(PolicyOf) /\ allow' \in 0 .. Len(PolicyOf)
      /\ ListsInv' /\ lists <= lists'
  BY <1>0, ListsKept
<1>3. /\ scan' \in [Revisions -> {"none", "pending", "pass", "fail"}]
      /\ inflight' \subseteq inflight
      /\ passed' \subseteq Revisions /\ passed \subseteq passed'
      /\ blind' \subseteq Revisions /\ blind \subseteq blind'
      /\ lapses' \in 0 .. MaxLapses
      /\ \A other \in Revisions : scan'[other] = "pass" => other \in passed'
      /\ \A other \in inflight' : scan'[other] = "pending" \/ other \in blind'
  <2>1. CASE ScanEnds(r)
    <3>1. PICK result \in {"pass", "fail"} :
              /\ scan' = [scan EXCEPT ![r] = result]
              /\ passed' = IF result = "pass" THEN passed \cup {r} ELSE passed
      BY <2>1 DEF ScanEnds
    <3>2. inflight' = inflight \ {r} /\ UNCHANGED << blind, lapses >>
      BY <2>1 DEF ScanEnds, bounds
    <3> QED
      BY <1>0, <3>1, <3>2
  <2>2. CASE ScanLapses(r)
    <3>1. /\ scan' = [scan EXCEPT ![r] = "none"] /\ UNCHANGED << inflight, passed >>
          /\ blind' = IF r \in inflight THEN blind \cup {r} ELSE blind
          /\ lapses' = lapses + 1 /\ lapses < MaxLapses
      BY <2>2 DEF ScanLapses
    <3>2. lapses' \in 0 .. MaxLapses
      BY <1>0, <3>1
    <3> QED
      BY <1>0, <3>1, <3>2
  <2> QED
    BY <2>1, <2>2
<1>4. \A c \in ToolCalls : ToldOK(c)'
  BY <1>0, <1>2, <1>3, ToldKept
<1>5. (\A c \in ToolCalls : PermitOK(c)') /\ (\A k \in Tools : ListOK(k)') /\ TakenOnce'
  BY <1>0 DEF HooksInv, CallsInv, PermitOK, Listed, ListOK, TakenOnce
<1>6. SkillsInv'
  BY <1>0, <1>3 DEF HooksInv, SkillsInv
<1>7. HooksTypeOK'
  BY <1>0, <1>3 DEF HooksInv, HooksTypeOK, holds
<1> QED
  BY <1>1, <1>2, <1>4, <1>5, <1>6, <1>7 DEF HooksInv, CallsInv

----------------------------------------------------------------------------
(***************************************************************************)
(* OpenClawHooks: the plane and the messages.                              *)
(***************************************************************************)
LEMMA PublishKeeps == ASSUME HooksInv, Publish PROVE HooksInv'
<1>1. /\ UNCHANGED << setup, lists, allow, pending, mixed, skills, holds, escalation, call, msg,
                      bounds >>
      /\ served' = served + 1 /\ served < Len(PolicyOf) /\ served \in Policies
      /\ lists \in 0 .. Len(PolicyOf) /\ allow \in 0 .. Len(PolicyOf)
      /\ Len(PolicyOf) \in Nat \ {0} /\ Policies = 1 .. Len(PolicyOf)
  BY PoliciesAre DEF Publish, HooksInv, HooksTypeOK
<1>2. MessagesInv'
  BY <1>1, MessagesKept
<1>3. SkillsInv' /\ CallsInv'
  BY <1>1, CallsKept
<1>4. served' \in Policies
  BY <1>1
<1>5. ListsInv'
  BY <1>1 DEF HooksInv, ListsInv, Hosted
<1>6. HooksTypeOK'
  BY <1>1, <1>4 DEF HooksInv, HooksTypeOK, skills, holds, bounds
<1> QED
  BY <1>2, <1>3, <1>5, <1>6 DEF HooksInv

\* A message takes its next step; holds are only dropped from contents set free.
LEMMA MessageTurns ==
    ASSUME HooksInv, NEW m \in Messages, NEW next \in MessageRecords, Turn(m, next),
           UNCHANGED << setup, served, pending, mixed, skills, call, lapses >>,
           lists' \in 0 .. Len(PolicyOf), allow' \in 0 .. Len(PolicyOf),
           ListsInv', lists <= lists',
           quarantine' \in [Contents -> Opt(Reasons)],
           freed' \subseteq Contents, freed \subseteq freed',
           \A k \in Contents : quarantine[k] # "none" => quarantine'[k] # "none" \/ k \in freed',
           misses' \in 0 .. MaxMisses,
           escalation' \in [Sent -> {"none", "open", "approved", "rejected", "expired"}],
           \A n \in Sent \ {m} : escalation'[n] = escalation[n],
           next.at = "weighing" => next.policy \in Policies,
           next.hard => msg[m].hard \/ quarantine'[ContentOf[m]] # "none",
           next.held => ContentOf[m] \in freed' \/ next.at \in {"cancelled", "threw"},
           m \in Sent /\ next.at = "approved" /\ setup.approval # "auto_approve" =>
               escalation'[m] = "approved",
           m \in Sent /\ next.at = "waiting" => escalation'[m] # "none"
    PROVE  HooksInv'
<1>1. msg \in [Messages -> MessageRecords] /\ msg' = [msg EXCEPT ![m] = next]
  BY DEF HooksInv, HooksTypeOK, Turn
<1>2. /\ msg' \in [Messages -> MessageRecords] /\ msg'[m] = next
      /\ \A n \in Messages \ {m} : msg'[n] = msg[n]
  BY <1>1
<1>3. SkillsInv' /\ CallsInv'
  BY CallsKept
<1>4. ASSUME NEW n \in Messages PROVE MessageOK(n)'
  <2>1. MessageOK(n) /\ ContentOf[n] \in Contents
    BY DEF HooksInv, MessagesInv, Contents
  <2>2. CASE n = m
    BY <1>2, <2>1, <2>2 DEF MessageOK
  <2>3. CASE n # m
    BY <1>2, <2>1, <2>3 DEF MessageOK
  <2> QED
    BY <2>2, <2>3
<1>5. ASSUME NEW n \in Sent
      PROVE  /\ msg'[n].at = "approved" /\ setup'.approval # "auto_approve" =>
                    escalation'[n] = "approved"
             /\ msg'[n].at = "waiting" => escalation'[n] # "none"
  <2>1. n \in Messages
    BY DEF Messages
  <2>2. /\ msg[n].at = "approved" /\ setup.approval # "auto_approve" => escalation[n] = "approved"
        /\ msg[n].at = "waiting" => escalation[n] # "none"
    BY DEF HooksInv, MessagesInv, SentIsAnswered
  <2>3. CASE n = m
    BY <1>2, <2>3
  <2>4. CASE n # m
    BY <1>2, <2>1, <2>2, <2>4
  <2> QED
    BY <2>3, <2>4
<1>6. MessagesInv'
  BY <1>4, <1>5 DEF MessagesInv, SentIsAnswered
<1>7. HooksTypeOK'
  BY <1>2 DEF HooksInv, HooksTypeOK, skills
<1> QED
  BY <1>3, <1>6, <1>7 DEF HooksInv

\* What is left of a message that only goes on to another place.
LEMMA MessageMoved ==
    ASSUME NEW old \in MessageRecords, NEW place \in MsgPlaces,
           NEW n \in 0 .. Len(PolicyOf), NEW hard \in BOOLEAN, NEW held \in BOOLEAN,
           NEW next \in {[old EXCEPT !.at = place], [old EXCEPT !.at = place, !.policy = n],
                         [old EXCEPT !.at = place, !.policy = n, !.hard = hard],
                         [old EXCEPT !.at = place, !.held = held]}
    PROVE  next \in MessageRecords
  BY DEF MessageRecords

\* What every step of a message may rely on.
LEMMA MessageIs ==
    ASSUME HooksInv, NEW m \in Messages
    PROVE  /\ msg[m] \in MessageRecords /\ MessageOK(m) /\ ContentOf[m] \in Contents
           /\ quarantine \in [Contents -> Opt(Reasons)] /\ freed \subseteq Contents
           /\ misses \in 0 .. MaxMisses
           /\ escalation \in [Sent -> {"none", "open", "approved", "rejected", "expired"}]
           /\ Len(PolicyOf) \in Nat /\ 0 \in 0 .. Len(PolicyOf)
  BY PoliciesAre DEF HooksInv, HooksTypeOK, MessagesInv, Contents

LEMMA OpenKeeps == ASSUME HooksInv, NEW m \in Messages, OpenHook(m) PROVE HooksInv'
<1>0. /\ msg[m].at \in {"idle", "opening"} /\ msg[m] \in MessageRecords /\ MessageOK(m)
      /\ UNCHANGED << setup, served, pending, mixed, skills, holds, escalation, call, bounds >>
      /\ quarantine \in [Contents -> Opt(Reasons)] /\ freed \subseteq Contents
      /\ misses \in 0 .. MaxMisses
      /\ escalation \in [Sent -> {"none", "open", "approved", "rejected", "expired"}]
  BY MessageIs DEF OpenHook
<1>1. UNCHANGED << quarantine, freed, misses, lapses >>
  BY <1>0 DEF holds, bounds
<1>2. CASE Refresh /\ Turn(m, [msg[m] EXCEPT
                        !.at = IF Usable /\ Buildable(allow') THEN "weighing" ELSE "threw",
                        !.policy = allow'])
  <2>1. /\ lists' \in 0 .. Len(PolicyOf) /\ allow' \in 0 .. Len(PolicyOf)
        /\ ListsInv' /\ lists <= lists' /\ (Usable => allow' \in Policies)
    BY <1>0, <1>2, RefreshIs
  <2>2. PICK place \in {"weighing", "threw"} :
            /\ place = IF Usable /\ Buildable(allow') THEN "weighing" ELSE "threw"
    OBVIOUS
  <2>3. PICK n : n = allow'
    OBVIOUS
  <2> DEFINE next == [msg[m] EXCEPT !.at = place, !.policy = n]
  <2>4. next \in MessageRecords
    BY <1>0, <2>1, <2>3 DEF MessageRecords, MsgPlaces
  <2>5. /\ next.at = place /\ next.policy = n /\ next.held = msg[m].held /\ next.hard = msg[m].hard
    BY <1>0 DEF MessageRecords
  <2>6. Turn(m, next)
    BY <1>2, <2>2, <2>3
  <2>7. place = "weighing" => n \in Policies
    BY <2>1, <2>2, <2>3
  <2> HIDE DEF next
  <2> QED
    BY <1>0, <1>1, <2>1, <2>4, <2>5, <2>6, <2>7, MessageTurns DEF MessageOK
<1>3. CASE Turn(m, [msg[m] EXCEPT !.at = "threw"]) /\ UNCHANGED << lists, allow >>
  <2>1. /\ lists' \in 0 .. Len(PolicyOf) /\ allow' \in 0 .. Len(PolicyOf)
        /\ ListsInv' /\ lists <= lists'
    BY <1>0, <1>3, ListsKept
  <2> DEFINE next == [msg[m] EXCEPT !.at = "threw"]
  <2>2. next \in MessageRecords
    BY <1>0 DEF MessageRecords, MsgPlaces
  <2>3. next.at = "threw" /\ next.held = msg[m].held /\ next.hard = msg[m].hard
    BY <1>0 DEF MessageRecords
  <2>4. Turn(m, next)
    BY <1>3
  <2> HIDE DEF next
  <2> QED
    BY <1>0, <1>1, <2>1, <2>2, <2>3, <2>4, MessageTurns DEF MessageOK
<1> QED
  BY <1>2, <1>3 DEF OpenHook

\* A content is weighed, and held if it was found bad.
LEMMA WeighedKeeps ==
    ASSUME HooksInv, NEW m \in Messages, msg[m].at = "weighing",
           NEW violation \in Opt(Reasons), NEW hard \in BOOLEAN, hard => violation \in Denied,
           Hold(m, violation, hard), NEW ok \in BOOLEAN, Append1(ok),
           NEW place \in {"done", "threw", "escalating", "cancelled", "sent"},
           Turn(m, [msg[m] EXCEPT !.at = place, !.policy = 0, !.hard = hard]),
           UNCHANGED << setup, served, lists, allow, pending, mixed, skills, freed, escalation,
                        call, lapses >>
    PROVE  HooksInv'
<1>0. /\ msg[m] \in MessageRecords /\ MessageOK(m) /\ ContentOf[m] \in Contents
      /\ quarantine \in [Contents -> Opt(Reasons)] /\ freed \subseteq Contents
      /\ escalation \in [Sent -> {"none", "open", "approved", "rejected", "expired"}]
      /\ 0 \in 0 .. Len(PolicyOf)
  BY MessageIs
<1>1. misses' \in 0 .. MaxMisses
  BY AppendIs
<1>2. /\ lists' \in 0 .. Len(PolicyOf) /\ allow' \in 0 .. Len(PolicyOf)
      /\ ListsInv' /\ lists <= lists'
  BY ListsKept
<1>3. hard => violation \in Reasons
  <2>1. lists \in 0 .. Len(PolicyOf)
    BY DEF HooksInv, HooksTypeOK
  <2> QED
    BY <2>1, SaysReasons DEF Denied
<1>4. "none" \notin Reasons
  BY DEF Reasons
<1>5. /\ quarantine' \in [Contents -> Opt(Reasons)]
      /\ \A k \in Contents : quarantine[k] # "none" => quarantine'[k] # "none"
      /\ hard => quarantine'[ContentOf[m]] # "none"
  BY <1>0, <1>3, <1>4 DEF Hold, MessageKeyFor
<1> DEFINE next == [msg[m] EXCEPT !.at = place, !.policy = 0, !.hard = hard]
<1>6. next \in MessageRecords
  BY <1>0 DEF MessageRecords, MsgPlaces
<1>7. next.at = place /\ next.held = msg[m].held /\ next.hard = hard
  BY <1>0 DEF MessageRecords
<1>8. Turn(m, next)
  OBVIOUS
<1> HIDE DEF next
<1> QED
  BY <1>0, <1>1, <1>2, <1>5, <1>6, <1>7, <1>8, MessageTurns DEF MessageOK

LEMMA ReceiveKeeps == ASSUME HooksInv, NEW m \in Messages, Receive(m) PROVE HooksInv'
<1>1. PICK outline \in Outlines[ScanBy(msg[m].policy, "input")], ok \in BOOLEAN :
          LET violation == IF outline.blocks THEN "agent_guard_failed" ELSE "none"
              hard      == violation \in Denied
          IN  /\ Hold(m, violation, hard) /\ Append1(ok)
              /\ Turn(m, [msg[m] EXCEPT !.at = IF ok THEN "done" ELSE "threw",
                                         !.policy = 0, !.hard = hard])
  BY DEF Receive
<1>2. PICK violation : violation = IF outline.blocks THEN "agent_guard_failed" ELSE "none"
  OBVIOUS
<1>3. PICK hard \in BOOLEAN : hard = (violation \in Denied)
  <2>1. (violation \in Denied) \in BOOLEAN
    OBVIOUS
  <2> QED
    BY <2>1
<1>4. PICK place : place = IF ok THEN "done" ELSE "threw"
  OBVIOUS
<1>5. /\ Hold(m, violation, hard) /\ Append1(ok)
      /\ Turn(m, [msg[m] EXCEPT !.at = place, !.policy = 0, !.hard = hard])
  BY <1>1, <1>2, <1>3, <1>4
<1>6. violation \in Opt(Reasons)
  BY <1>2 DEF Opt, Reasons
<1>7. hard \in BOOLEAN /\ (hard => violation \in Denied)
  BY <1>3
<1>8. place \in {"done", "threw"}
  BY <1>4
<1>9. /\ msg[m].at = "weighing"
      /\ UNCHANGED << setup, served, lists, allow, pending, mixed, skills, freed, escalation,
                      call, lapses >>
  BY DEF Receive
<1> QED
  BY <1>5, <1>6, <1>7, <1>8, <1>9, WeighedKeeps

LEMMA WeighKeeps == ASSUME HooksInv, NEW m \in Messages, Weigh(m) PROVE HooksInv'
<1>1. PICK outline \in Outlines[ScanBy(msg[m].policy, "output")], ok \in BOOLEAN :
      \E opinion \in Opinions[Asked(ScanBy(msg[m].policy, "output"), outline.class,
                                    outline.blocks)] :
          LET raw       == IF outline.blocks THEN "agent_guard_failed" ELSE "none"
              violation == Adjudicated(raw, outline.class, opinion)
              hard      == violation \in Denied /\ ~ForHuman(violation)
              where     == IF ~ok THEN "threw"
                           ELSE IF ForHuman(violation) THEN "escalating"
                           ELSE IF hard THEN "cancelled" ELSE "sent"
          IN  /\ Hold(m, violation, hard) /\ Append1(ok)
              /\ Turn(m, [msg[m] EXCEPT !.at = where, !.policy = 0, !.hard = hard])
  BY DEF Weigh
<1>2. PICK opinion :
          LET raw       == IF outline.blocks THEN "agent_guard_failed" ELSE "none"
              violation == Adjudicated(raw, outline.class, opinion)
              hard      == violation \in Denied /\ ~ForHuman(violation)
              where     == IF ~ok THEN "threw"
                           ELSE IF ForHuman(violation) THEN "escalating"
                           ELSE IF hard THEN "cancelled" ELSE "sent"
          IN  /\ Hold(m, violation, hard) /\ Append1(ok)
              /\ Turn(m, [msg[m] EXCEPT !.at = where, !.policy = 0, !.hard = hard])
  BY <1>1
<1>3. PICK raw : raw = IF outline.blocks THEN "agent_guard_failed" ELSE "none"
  OBVIOUS
<1>4. PICK violation : violation = Adjudicated(raw, outline.class, opinion)
  OBVIOUS
<1>5. PICK hard : hard = (violation \in Denied /\ ~ForHuman(violation))
  OBVIOUS
<1>6. PICK place : place = IF ~ok THEN "threw"
                           ELSE IF ForHuman(violation) THEN "escalating"
                           ELSE IF hard THEN "cancelled" ELSE "sent"
  OBVIOUS
<1>7. /\ Hold(m, violation, hard) /\ Append1(ok)
      /\ Turn(m, [msg[m] EXCEPT !.at = place, !.policy = 0, !.hard = hard])
  BY <1>2, <1>3, <1>4, <1>5, <1>6
<1>8. violation \in Opt(Reasons)
  <2>1. raw \in Opt(Reasons)
    BY <1>3 DEF Opt, Reasons
  <2> QED
    BY <1>4, <2>1, AdjudicatedIs
<1>9. hard \in BOOLEAN /\ (hard => violation \in Denied)
  BY <1>5
<1>10. place \in {"threw", "escalating", "cancelled", "sent"}
  BY <1>6
<1>11. /\ msg[m].at = "weighing"
       /\ UNCHANGED << setup, served, lists, allow, pending, mixed, skills, freed, escalation,
                       call, lapses >>
  BY DEF Weigh
<1> QED
  BY <1>7, <1>8, <1>9, <1>10, <1>11, WeighedKeeps

LEMMA SendKeeps == ASSUME HooksInv, NEW m \in Messages, Send(m) PROVE HooksInv'
<1>0. /\ msg[m] \in MessageRecords /\ MessageOK(m) /\ ContentOf[m] \in Contents
      /\ quarantine \in [Contents -> Opt(Reasons)] /\ freed \subseteq Contents
      /\ misses \in 0 .. MaxMisses /\ msg[m].at = "idle"
      /\ escalation \in [Sent -> {"none", "open", "approved", "rejected", "expired"}]
      /\ UNCHANGED << setup, served, lists, allow, pending, mixed, skills, escalation, call,
                      lapses >>
  BY MessageIs DEF Send
<1>1. /\ lists' \in 0 .. Len(PolicyOf) /\ allow' \in 0 .. Len(PolicyOf)
      /\ ListsInv' /\ lists <= lists'
  BY <1>0, ListsKept
<1>2. PICK why : why = quarantine[ContentOf[m]]
  OBVIOUS
<1>3. PICK held : held = (\E n \in Messages : /\ msg[n].hard /\ ContentOf[n] = ContentOf[m]
                                              /\ ContentOf[m] \notin freed)
  OBVIOUS
<1>4. held => why # "none"
  <2> SUFFICES ASSUME held PROVE why # "none"
    OBVIOUS
  <2>1. PICK n \in Messages : /\ msg[n].hard /\ ContentOf[n] = ContentOf[m]
                              /\ ContentOf[m] \notin freed
    BY <1>3
  <2>2. MessageOK(n)
    BY MessageIs
  <2> QED
    BY <1>2, <2>1, <2>2 DEF MessageOK
<1>5. held \in BOOLEAN
  BY <1>3
<1>6. \/ /\ why # "none"
         /\ \E ok \in BOOLEAN :
               Append1(ok) /\ Turn(m, [[msg[m] EXCEPT !.held = held] EXCEPT
                                          !.at = IF ok THEN "cancelled" ELSE "threw"])
         /\ UNCHANGED holds
      \/ /\ quarantine' = [quarantine EXCEPT ![ContentOf[m]] = "none"]
         /\ freed' = IF why = "none" THEN freed ELSE freed \cup {ContentOf[m]}
         /\ Turn(m, [[msg[m] EXCEPT !.held = held] EXCEPT !.at = "opening"])
         /\ UNCHANGED misses
  BY <1>2, <1>3 DEF Send, MessageKeyFor
<1>7. ASSUME NEW ok \in BOOLEAN, Append1(ok), UNCHANGED holds,
             Turn(m, [[msg[m] EXCEPT !.held = held] EXCEPT
                         !.at = IF ok THEN "cancelled" ELSE "threw"])
      PROVE  HooksInv'
  <2>1. misses' \in 0 .. MaxMisses
    BY <1>7, AppendIs
  <2>2. UNCHANGED << quarantine, freed >>
    BY <1>7 DEF holds
  <2>3. PICK place \in {"cancelled", "threw"} : place = IF ok THEN "cancelled" ELSE "threw"
    OBVIOUS
  <2> DEFINE next == [[msg[m] EXCEPT !.held = held] EXCEPT !.at = place]
  <2>4. next \in MessageRecords
    BY <1>0, <1>5 DEF MessageRecords, MsgPlaces
  <2>5. next.at = place /\ next.hard = msg[m].hard
    BY <1>0 DEF MessageRecords
  <2>6. Turn(m, next)
    BY <1>7, <2>3
  <2> HIDE DEF next
  <2> QED
    BY <1>0, <1>1, <2>1, <2>2, <2>4, <2>5, <2>6, MessageTurns
<1>8. CASE /\ quarantine' = [quarantine EXCEPT ![ContentOf[m]] = "none"]
           /\ freed' = IF why = "none" THEN freed ELSE freed \cup {ContentOf[m]}
           /\ Turn(m, [[msg[m] EXCEPT !.held = held] EXCEPT !.at = "opening"])
           /\ UNCHANGED misses
  <2> DEFINE next == [[msg[m] EXCEPT !.held = held] EXCEPT !.at = "opening"]
  <2>1. next \in MessageRecords
    BY <1>0, <1>5 DEF MessageRecords, MsgPlaces
  <2>2. next.at = "opening" /\ next.hard = msg[m].hard /\ next.held = held
    BY <1>0 DEF MessageRecords
  <2>3. Turn(m, next)
    BY <1>8
  <2>4. /\ freed' \subseteq Contents /\ freed \subseteq freed'
        /\ why # "none" => ContentOf[m] \in freed'
    BY <1>0, <1>8
  <2>5. /\ quarantine' \in [Contents -> Opt(Reasons)]
        /\ \A k \in Contents : quarantine[k] # "none" => quarantine'[k] # "none" \/ k \in freed'
    BY <1>0, <1>2, <1>8, <2>4 DEF Opt
  <2> HIDE DEF next
  <2> QED
    BY <1>0, <1>1, <1>4, <1>8, <2>1, <2>2, <2>3, <2>4, <2>5, MessageTurns
<1> QED
  BY <1>6, <1>7, <1>8

\* A message goes on to another place, and nothing else changes but the
\* escalation that is its own.
LEMMA MessageGoes ==
    ASSUME HooksInv, NEW m \in Messages, NEW next,
           next \in MessageRecords, Turn(m, next),
           next.held = msg[m].held, next.hard = msg[m].hard,
           msg[m].at \notin {"cancelled", "threw"}, next.at # "weighing",
           UNCHANGED << setup, served, lists, allow, pending, mixed, skills, holds, call, bounds >>,
           escalation' \in [Sent -> {"none", "open", "approved", "rejected", "expired"}],
           \A n \in Sent \ {m} : escalation'[n] = escalation[n],
           m \in Sent /\ next.at = "approved" /\ setup.approval # "auto_approve" =>
               escalation'[m] = "approved",
           m \in Sent /\ next.at = "waiting" => escalation'[m] # "none"
    PROVE  HooksInv'
<1>1. UNCHANGED << quarantine, freed, misses, lapses >>
  BY DEF holds, bounds
<1>2. /\ MessageOK(m) /\ misses \in 0 .. MaxMisses
      /\ quarantine \in [Contents -> Opt(Reasons)] /\ freed \subseteq Contents
  BY MessageIs
<1>3. /\ lists' \in 0 .. Len(PolicyOf) /\ allow' \in 0 .. Len(PolicyOf)
      /\ ListsInv' /\ lists <= lists'
  BY ListsKept
<1> QED
  BY <1>1, <1>2, <1>3, MessageTurns DEF MessageOK

LEMMA WeighRefusedKeeps == ASSUME HooksInv, NEW m \in Messages, WeighRefused(m) PROVE HooksInv'
<1>0. /\ msg[m] \in MessageRecords /\ msg[m].at = "weighing" /\ 0 \in 0 .. Len(PolicyOf)
      /\ escalation \in [Sent -> {"none", "open", "approved", "rejected", "expired"}]
      /\ UNCHANGED << setup, served, lists, allow, pending, mixed, skills, holds, escalation,
                      call, bounds >>
  BY MessageIs DEF WeighRefused
<1> DEFINE next == [msg[m] EXCEPT !.at = "threw", !.policy = 0]
<1>1. next \in MessageRecords
  BY <1>0 DEF MessageRecords, MsgPlaces
<1>2. next.at = "threw" /\ next.held = msg[m].held /\ next.hard = msg[m].hard
  BY <1>0 DEF MessageRecords
<1>3. Turn(m, next)
  BY DEF WeighRefused
<1> HIDE DEF next
<1> QED
  BY <1>0, <1>1, <1>2, <1>3, MessageGoes

LEMMA EscalateKeeps == ASSUME HooksInv, NEW m \in Sent, Escalate(m) PROVE HooksInv'
<1>0. m \in Messages
  BY DEF Messages
<1>1. /\ msg[m] \in MessageRecords /\ msg[m].at = "escalating"
      /\ escalation \in [Sent -> {"none", "open", "approved", "rejected", "expired"}]
      /\ UNCHANGED << setup, served, lists, allow, pending, mixed, skills, holds, call, bounds >>
  BY <1>0, MessageIs DEF Escalate
<1>2. setup.approval \in {"human", "auto_approve", "auto_reject"} /\ setup.waits \in BOOLEAN
  BY SetupAssumption DEF HooksInv, HooksTypeOK, Configurations
<1>3. PICK place \in {"approved", "rejected", "create_failed", "waiting", "pending"} :
          /\ Turn(m, [msg[m] EXCEPT !.at = place])
          /\ place = "approved" => setup.approval = "auto_approve"
          /\ place = "waiting" => escalation'[m] # "none"
          /\ \/ UNCHANGED escalation
             \/ escalation' = [escalation EXCEPT ![m] = "open"]
  <2>1. CASE setup.approval # "human"
    BY <2>1 DEF Escalate
  <2>2. CASE setup.approval = "human"
    <3>1. CASE /\ Turn(m, [msg[m] EXCEPT !.at = "create_failed"])
               /\ UNCHANGED escalation
      BY <3>1
    <3>2. CASE /\ escalation' = [escalation EXCEPT ![m] = "open"]
               /\ \E place \in {"rejected", IF setup.waits THEN "waiting" ELSE "pending"} :
                     Turn(m, [msg[m] EXCEPT !.at = place])
      <4>1. escalation'[m] = "open"
        BY <1>1, <3>2
      <4>2. PICK place \in {"rejected", "waiting", "pending"} :
                Turn(m, [msg[m] EXCEPT !.at = place])
        BY <3>2
      <4> QED
        BY <3>2, <4>1, <4>2
    <3> QED
      BY <2>2, <3>1, <3>2 DEF Escalate
  <2> QED
    BY <2>1, <2>2
<1> DEFINE next == [msg[m] EXCEPT !.at = place]
<1>4. next \in MessageRecords
  BY <1>1 DEF MessageRecords, MsgPlaces
<1>5. next.at = place /\ next.held = msg[m].held /\ next.hard = msg[m].hard
  BY <1>1 DEF MessageRecords
<1>6. Turn(m, next)
  BY <1>3
<1>7. /\ escalation' \in [Sent -> {"none", "open", "approved", "rejected", "expired"}]
      /\ \A n \in Sent \ {m} : escalation'[n] = escalation[n]
  BY <1>1, <1>3
<1> HIDE DEF next
<1> QED
  BY <1>0, <1>1, <1>3, <1>4, <1>5, <1>6, <1>7, MessageGoes

LEMMA WaitEndsKeeps == ASSUME HooksInv, NEW m \in Sent, WaitEnds(m) PROVE HooksInv'
<1>0. m \in Messages
  BY DEF Messages
<1>1. /\ msg[m] \in MessageRecords /\ msg[m].at = "waiting"
      /\ escalation \in [Sent -> {"none", "open", "approved", "rejected", "expired"}]
      /\ UNCHANGED << setup, served, lists, allow, pending, mixed, skills, holds, escalation,
                      call, bounds >>
  BY <1>0, MessageIs DEF WaitEnds
<1>2. escalation[m] # "none"
  BY <1>1 DEF HooksInv, MessagesInv
<1>3. PICK place \in WaitOutcomes(escalation[m]) : Turn(m, [msg[m] EXCEPT !.at = place])
  BY DEF WaitEnds
<1>4. /\ place \in {"approved", "rejected", "expired", "pending"}
      /\ place = "approved" => escalation[m] = "approved"
  BY <1>1, <1>2, <1>3 DEF WaitOutcomes
<1> DEFINE next == [msg[m] EXCEPT !.at = place]
<1>5. next \in MessageRecords
  BY <1>1, <1>4 DEF MessageRecords, MsgPlaces
<1>6. next.at = place /\ next.held = msg[m].held /\ next.hard = msg[m].hard
  BY <1>1 DEF MessageRecords
<1>7. Turn(m, next)
  BY <1>3
<1> HIDE DEF next
<1> QED
  BY <1>0, <1>1, <1>4, <1>5, <1>6, <1>7, MessageGoes

LEMMA ResolveKeeps == ASSUME HooksInv, NEW m \in Sent, Resolve(m) PROVE HooksInv'
<1>1. /\ escalation[m] = "open"
      /\ escalation \in [Sent -> {"none", "open", "approved", "rejected", "expired"}]
      /\ UNCHANGED << setup, served, lists, allow, pending, mixed, skills, holds, call, msg,
                      bounds >>
  BY DEF Resolve, HooksInv, HooksTypeOK
<1>2. PICK how \in {"approved", "rejected", "expired"} :
          escalation' = [escalation EXCEPT ![m] = how]
  BY DEF Resolve
<1>3. /\ lists' \in 0 .. Len(PolicyOf) /\ allow' \in 0 .. Len(PolicyOf)
      /\ ListsInv' /\ lists <= lists'
  BY <1>1, ListsKept
<1>4. SkillsInv' /\ CallsInv'
  BY <1>1, <1>3, CallsKept
<1>5. MessagesInv'
  BY <1>1, <1>2 DEF HooksInv, MessagesInv, MessageOK, SentIsAnswered, holds
<1>6. HooksTypeOK'
  BY <1>1, <1>2 DEF HooksInv, HooksTypeOK, skills, holds, bounds
<1> QED
  BY <1>3, <1>4, <1>5, <1>6 DEF HooksInv

LEMMA HoldLapseKeeps == ASSUME HooksInv, NEW k \in Contents, QuarantineLapses(k) PROVE HooksInv'
<1>1. /\ quarantine' = [quarantine EXCEPT ![k] = "none"] /\ freed' = freed \cup {k}
      /\ lapses' = lapses + 1 /\ lapses < MaxLapses
      /\ UNCHANGED << setup, served, lists, allow, pending, mixed, skills, escalation, call, msg,
                      misses >>
      /\ quarantine \in [Contents -> Opt(Reasons)] /\ freed \subseteq Contents
      /\ lapses \in 0 .. MaxLapses /\ MaxLapses \in Nat
  BY HooksAssumption DEF QuarantineLapses, HooksInv, HooksTypeOK
<1>2. /\ lists' \in 0 .. Len(PolicyOf) /\ allow' \in 0 .. Len(PolicyOf)
      /\ ListsInv' /\ lists <= lists'
  BY <1>1, ListsKept
<1>3. SkillsInv' /\ CallsInv'
  BY <1>1, <1>2, CallsKept
<1>4. ASSUME NEW m \in Messages PROVE MessageOK(m)'
  <2>1. MessageOK(m) /\ ContentOf[m] \in Contents
    BY MessageIs
  <2> QED
    BY <1>1, <2>1 DEF MessageOK
<1>5. MessagesInv'
  BY <1>1, <1>4 DEF HooksInv, MessagesInv, SentIsAnswered
<1>6. lapses' \in 0 .. MaxLapses
  BY <1>1
<1>7. quarantine' \in [Contents -> Opt(Reasons)]
  BY <1>1 DEF Opt
<1>8. HooksTypeOK'
  BY <1>1, <1>6, <1>7 DEF HooksInv, HooksTypeOK, skills
<1> QED
  BY <1>2, <1>3, <1>5, <1>8 DEF HooksInv

----------------------------------------------------------------------------
(***************************************************************************)
(* OpenClawHooks: the theorems.                                            *)
(***************************************************************************)
LEMMA HooksStep == HooksInv /\ [HooksNext]_hooksVars => HooksInv'
<1> SUFFICES ASSUME HooksInv, [HooksNext]_hooksVars PROVE HooksInv'
  OBVIOUS
<1>1. CASE UNCHANGED hooksVars
  <2>1. /\ UNCHANGED << setup, served, lists, allow, pending, mixed, skills, holds, escalation,
                        call, msg, bounds >>
    BY <1>1 DEF hooksVars
  <2>2. /\ lists' \in 0 .. Len(PolicyOf) /\ ListsInv' /\ lists <= lists'
    BY <2>1, ListsKept
  <2>3. SkillsInv' /\ CallsInv'
    BY <2>1, <2>2, CallsKept
  <2>4. MessagesInv'
    BY <2>1, MessagesKept
  <2>5. HooksTypeOK'
    BY <2>1 DEF HooksInv, HooksTypeOK, skills, holds, bounds
  <2> QED
    BY <2>2, <2>3, <2>4, <2>5 DEF HooksInv
<1>2. CASE Publish
  BY <1>2, PublishKeeps
<1>3. ASSUME NEW r \in Revisions, ScanEnds(r) \/ ScanLapses(r) PROVE HooksInv'
  BY <1>3, ScansKeep
<1>4. ASSUME NEW c \in ToolCalls,
             Before(c) \/ CheckCall(c) \/ Judge(c) \/ JudgeRefused(c) \/ After(c)
      PROVE  HooksInv'
  BY <1>4, BeforeKeeps, CheckKeeps, JudgeKeeps, JudgeRefusedKeeps, AfterKeeps
<1>5. ASSUME NEW m \in Messages,
             OpenHook(m) \/ Receive(m) \/ Send(m) \/ Weigh(m) \/ WeighRefused(m)
      PROVE  HooksInv'
  BY <1>5, OpenKeeps, ReceiveKeeps, SendKeeps, WeighKeeps, WeighRefusedKeeps
<1>6. ASSUME NEW m \in Sent, Escalate(m) \/ Resolve(m) \/ WaitEnds(m) PROVE HooksInv'
  BY <1>6, EscalateKeeps, ResolveKeeps, WaitEndsKeeps
<1>7. ASSUME NEW k \in Contents, QuarantineLapses(k) PROVE HooksInv'
  BY <1>7, HoldLapseKeeps
<1> QED
  BY <1>1, <1>2, <1>3, <1>4, <1>5, <1>6, <1>7 DEF HooksNext

LEMMA HooksInvariance == HooksSpec => []HooksInv
  BY HooksStart, HooksStep, PTL DEF HooksSpec

\* Whatever calls of whatever tools run at once, each permit of beforeToolCall
\* waits on one list once and is taken by one report, and the report of a call
\* that was alone with its session and tool is filed under its own permit,
\* although afterToolCall only pops the last one.
THEOREM PermitsAreTaken == HooksSpec => []PermitsTaken
  BY HooksInvariance, HooksInvImplies, PTL

\* afterToolCall makes no revision of a skill the baseline that beforeToolCall
\* let through unscanned under a policy that denies pending and failed scans,
\* unless its scan lapsed while it ran or the evaluator set the violation aside.
THEOREM BaselinesWereScanned == HooksSpec => []BaselineWasScanned
  BY HooksInvariance, HooksInvImplies, PTL

\* beforeToolCall judges a call by the lists that other hooks may have replaced
\* while it waited for the scan, but never by lists older than the policy that
\* it fetched itself, even where a refresh threw halfway.
THEOREM ListsAreNeverOlder == HooksSpec => []NeverOlderLists
  BY HooksInvariance, HooksInvImplies, PTL

\* What messageReceived or messageSending found bad is not sent while it is in
\* quarantine, and what was escalated goes out only on the answer to that
\* escalation.
THEOREM MessagesAreHeld == HooksSpec => []MessagesHeld
  BY HooksInvariance, HooksInvImplies, PTL

----------------------------------------------------------------------------
(***************************************************************************)
(* The evaluator's opinion of what the guards found.                       *)
(***************************************************************************)
LEMMA HardIsSeen ==
    ASSUME NEW S, NEW findings \in Seq(S), Len(findings) <= MaxDescribed,
           NEW n \in DOMAIN findings, Hard(findings[n])
    PROVE  ClassOf(findings) = "hard"
<1>1. Len(findings) \in Nat /\ DOMAIN findings = 1 .. Len(findings) /\ MaxDescribed \in Nat
  BY LenProperties, EvaluatorAssumption
<1>2. findings # << >>
  BY <1>1, EmptySeq
<1>3. n \in OfPersons(findings, Len(findings))
  BY <1>1 DEF OfPersons, RoleMailbox
<1>4. IsFiniteSet(1 .. Len(findings)) /\ Cardinality(1 .. Len(findings)) = Len(findings)
  <2>1. 1 \in Int /\ Len(findings) \in Int
    BY <1>1
  <2>2. /\ IsFiniteSet(1 .. Len(findings))
        /\ Cardinality(1 .. Len(findings)) = IF 1 > Len(findings) THEN 0 ELSE Len(findings) - 1 + 1
    BY <2>1, FS_Interval
  <2> QED
    BY <1>1, <2>2
<1>5. OfPersons(findings, n) \subseteq 1 .. Len(findings)
  BY <1>1 DEF OfPersons
<1>6. /\ Cardinality(OfPersons(findings, n)) <= Cardinality(1 .. Len(findings))
      /\ IsFiniteSet(OfPersons(findings, n))
  BY <1>4, <1>5, FS_Subset
<1>7. Cardinality(OfPersons(findings, n)) <= MaxDescribed
  <2>1. Cardinality(OfPersons(findings, n)) \in Nat
    BY <1>6, FS_CardinalityType
  <2> QED
    BY <1>1, <1>4, <1>6, <2>1
<1> QED
  BY <1>2, <1>3, <1>7 DEF ClassOf

\* A guard that blocked for what no context excuses is never overruled by
\* resolveDetectorContextualViolation: for every list of findings that is
\* described to the evaluator as a whole, and every opinion, also of a remote
\* one, the violation is the guard's.
THEOREM HardFindingsStand ==
    ASSUME NEW S, NEW findings \in Seq(S), Len(findings) <= MaxDescribed,
           NEW n \in DOMAIN findings, Hard(findings[n]), NEW opinion
    PROVE  Adjudicated("agent_guard_failed", ClassOf(findings), opinion) = "agent_guard_failed"
<1>1. ClassOf(findings) = "hard"
  BY HardIsSeen
<1> QED
  BY <1>1 DEF Adjudicated

----------------------------------------------------------------------------
(***************************************************************************)
(* OpenClawHooks: the findings and the evaluator.  What FlattenSeq and     *)
(* Total compute is shown by counting up (UpTo): a set of numbers that     *)
(* holds 0 and, of a number below a bound, its successor, holds all up to  *)
(* it.                                                                     *)
(***************************************************************************)
\* Counting up: what holds of 0 and of a successor within a bound holds up to it.
LEMMA UpTo ==
    ASSUME NEW N \in Nat, NEW D, 0 \in D, \A n \in 0 .. N : n \in D /\ n < N => n + 1 \in D
    PROVE  \A n \in 0 .. N : n \in D
<1> DEFINE Out == (0 .. N) \ D
<1>1. SUFFICES ASSUME Out # {} PROVE FALSE
  BY <1>1
<1>2. PICK d \in Out : \A e \in Out : << e, d >> \notin OpToRel(<, Nat)
  <2>1. Out \subseteq Nat
    OBVIOUS
  <2> HIDE DEF Out
  <2> QED
    BY <1>1, <2>1, NatLessThanWellFounded, WFMin
<1>3. d # 0 /\ d \in 0 .. N /\ d - 1 \in 0 .. N
  OBVIOUS
<1>4. d - 1 \notin Out
  <2>1. \A e \in Out : e \in Nat /\ d \in Nat
    BY <1>3
  <2> HIDE DEF Out
  <2>2. \A e \in Out : ~(e < d)
    BY <1>2, <2>1 DEF OpToRel
  <2> QED
    BY <1>3, <2>2
<1>5. (d - 1) + 1 \in D
  BY <1>3, <1>4
<1> QED
  BY <1>3, <1>5

\* The functions FlattenSeq is made of: f[n] is the first n sequences in one.
Flattens(f, ss, n) ==
    f = [i \in 1 .. n |-> IF i = 1 THEN ss[i] ELSE f[i - 1] \o ss[i]]

LEMMA FlattenedOnce ==
    ASSUME NEW S, NEW ss \in Seq(Seq(S)), NEW n \in 0 .. Len(ss)
    PROVE  \E f \in [1 .. n -> Seq(S)] : Flattens(f, ss, n)
<1> DEFINE D == {k \in 0 .. Len(ss) : \E f \in [1 .. k -> Seq(S)] : Flattens(f, ss, k)}
<1>1. Len(ss) \in Nat /\ \A k \in 1 .. Len(ss) : ss[k] \in Seq(S)
  BY LenProperties
<1>2. 0 \in D
  <2> DEFINE none == [i \in 1 .. 0 |-> << >>]
  <2>1. none \in [1 .. 0 -> Seq(S)]
    OBVIOUS
  <2>2. none = [i \in 1 .. 0 |-> IF i = 1 THEN ss[i] ELSE none[i - 1] \o ss[i]]
    OBVIOUS
  <2>3. Flattens(none, ss, 0)
    BY <2>2 DEF Flattens
  <2> HIDE DEF none
  <2>4. \E f \in [1 .. 0 -> Seq(S)] : Flattens(f, ss, 0)
    BY <2>1, <2>3
  <2>5. 0 \in 0 .. Len(ss)
    BY <1>1
  <2> QED
    BY <2>4, <2>5
<1>3. ASSUME NEW k \in 0 .. Len(ss), k \in D, k < Len(ss)
      PROVE  k + 1 \in D
  <2>1. PICK f \in [1 .. k -> Seq(S)] : Flattens(f, ss, k)
    BY <1>3
  <2> DEFINE last == IF k = 0 THEN ss[k + 1] ELSE f[k] \o ss[k + 1]
             g == [i \in 1 .. k + 1 |-> IF i = k + 1 THEN last ELSE f[i]]
  <2>2. last \in Seq(S)
    BY <1>1, <1>3, ConcatProperties
  <2>3. g \in [1 .. k + 1 -> Seq(S)]
    <3> HIDE DEF last
    <3> QED
      BY <2>2
  <2>4. Flattens(g, ss, k + 1)
    <3>1. ASSUME NEW i \in 1 .. k + 1
          PROVE  g[i] = IF i = 1 THEN ss[i] ELSE g[i - 1] \o ss[i]
      <4>1. CASE i = k + 1
        BY <4>1, <1>1
      <4>2. CASE i # k + 1
        <5>1. i \in 1 .. k /\ (i # 1 => i - 1 \in 1 .. k /\ i - 1 # k + 1)
          BY <4>2, <1>1
        <5>2. f[i] = IF i = 1 THEN ss[i] ELSE f[i - 1] \o ss[i]
          BY <2>1, <5>1 DEF Flattens
        <5>3. g[i] = f[i] /\ (i # 1 => g[i - 1] = f[i - 1])
          BY <4>2, <5>1
        <5> QED
          BY <5>2, <5>3
      <4> QED
        BY <4>1, <4>2
    <3> HIDE DEF last
    <3> QED
      BY <3>1 DEF Flattens
  <2> HIDE DEF g
  <2> QED
    BY <1>1, <1>3, <2>3, <2>4
<1> HIDE DEF D
<1>4. n \in D
  BY <1>1, <1>2, <1>3, UpTo
<1> QED
  BY <1>4 DEF D

\* Two functions that agree on their first n arguments.
Alike(f, g, n) == \A i \in 1 .. n : f[i] = g[i]

LEMMA FlattenedAlike ==
    ASSUME NEW n \in Nat, NEW m \in Nat, n <= m, NEW ss, NEW tt, Alike(ss, tt, n),
           NEW f, NEW g, Flattens(f, ss, n), Flattens(g, tt, m)
    PROVE  Alike(f, g, n)
<1> DEFINE D == {k \in 0 .. n : k # 0 => f[k] = g[k]}
<1>1. 0 \in D
  OBVIOUS
<1>2. ASSUME NEW k \in 0 .. n, k \in D, k < n
      PROVE  k + 1 \in D
  <2>1. k + 1 \in 1 .. n /\ k + 1 \in 1 .. m
    BY <1>2
  <2>2. f[k + 1] = IF k + 1 = 1 THEN ss[k + 1] ELSE f[(k + 1) - 1] \o ss[k + 1]
    BY <2>1 DEF Flattens
  <2>3. g[k + 1] = IF k + 1 = 1 THEN tt[k + 1] ELSE g[(k + 1) - 1] \o tt[k + 1]
    BY <2>1 DEF Flattens
  <2>4. k + 1 # 1 => f[k] = g[k] /\ (k + 1) - 1 = k
    BY <1>2
  <2> QED
    BY <2>1, <2>2, <2>3, <2>4 DEF Alike
<1> HIDE DEF D
<1>3. \A k \in 0 .. n : k \in D
  BY <1>1, <1>2, UpTo
<1> QED
  BY <1>3 DEF D, Alike

LEMMA FlattenIs ==
    ASSUME NEW S, NEW ss \in Seq(Seq(S)), Len(ss) # 0
    PROVE  \E f \in [1 .. Len(ss) -> Seq(S)] :
              Flattens(f, ss, Len(ss)) /\ FlattenSeq(ss) = f[Len(ss)]
<1> DEFINE h == CHOOSE h : Flattens(h, ss, Len(ss))
<1>1. Len(ss) \in Nat /\ Len(ss) \in 0 .. Len(ss)
  BY LenProperties
<1>2. PICK f \in [1 .. Len(ss) -> Seq(S)] : Flattens(f, ss, Len(ss))
  BY <1>1, FlattenedOnce
<1>3. Flattens(h, ss, Len(ss))
  BY <1>2
<1>4. FlattenSeq(ss) = h[Len(ss)]
  BY DEF FlattenSeq, Flattens
<1> HIDE DEF h
<1>5. DOMAIN h = 1 .. Len(ss) /\ h = [i \in 1 .. Len(ss) |-> h[i]]
  BY <1>3 DEF Flattens
<1>6. Alike(h, f, Len(ss))
  <2>1. Alike(ss, ss, Len(ss)) /\ Len(ss) <= Len(ss)
    BY <1>1 DEF Alike
  <2> QED
    BY <1>1, <1>2, <1>3, <2>1, FlattenedAlike
<1>7. h \in [1 .. Len(ss) -> Seq(S)]
  BY <1>5, <1>6 DEF Alike
<1> QED
  BY <1>3, <1>4, <1>7

\* FlattenSeq yields a sequence of the elements of its sequences.
LEMMA FlattenType ==
    ASSUME NEW S, NEW ss \in Seq(Seq(S))
    PROVE  FlattenSeq(ss) \in Seq(S)
<1>1. Len(ss) \in Nat /\ (Len(ss) = 0 => ss = << >>)
  BY LenProperties, EmptySeq
<1>2. CASE Len(ss) = 0
  <2>1. FlattenSeq(ss) = << >>
    BY <1>1, <1>2 DEF FlattenSeq
  <2> QED
    BY <2>1
<1>3. CASE Len(ss) # 0
  <2>1. PICK f \in [1 .. Len(ss) -> Seq(S)] : FlattenSeq(ss) = f[Len(ss)]
    BY <1>3, FlattenIs
  <2>2. Len(ss) \in 1 .. Len(ss)
    BY <1>1, <1>3
  <2> QED
    BY <2>1, <2>2
<1> QED
  BY <1>2, <1>3

\* One more sequence comes to the end of what is flattened.
LEMMA FlattenAppend ==
    ASSUME NEW S, NEW ss \in Seq(Seq(S)), NEW s \in Seq(S)
    PROVE  FlattenSeq(Append(ss, s)) = FlattenSeq(ss) \o s
<1> DEFINE tt == Append(ss, s)
           n  == Len(ss)
<1>1. n \in Nat /\ (n = 0 => ss = << >>)
  BY LenProperties, EmptySeq
<1>2. /\ tt \in Seq(Seq(S)) /\ Len(tt) = n + 1 /\ tt[n + 1] = s
      /\ \A i \in 1 .. n : tt[i] = ss[i]
  BY AppendProperties
<1> HIDE DEF tt
<1>3. PICK g \in [1 .. n + 1 -> Seq(S)] : Flattens(g, tt, n + 1) /\ FlattenSeq(tt) = g[n + 1]
  <2>1. Len(tt) # 0
    BY <1>1, <1>2
  <2>2. \E g \in [1 .. Len(tt) -> Seq(S)] :
           Flattens(g, tt, Len(tt)) /\ FlattenSeq(tt) = g[Len(tt)]
    BY <1>2, <2>1, FlattenIs
  <2> QED
    BY <1>2, <2>2
<1>4. g[n + 1] = IF n + 1 = 1 THEN tt[n + 1] ELSE g[(n + 1) - 1] \o tt[n + 1]
  <2>1. n + 1 \in 1 .. n + 1
    BY <1>1
  <2> QED
    BY <1>3, <2>1 DEF Flattens
<1>5. CASE n = 0
  <2>1. FlattenSeq(ss) = << >>
    BY <1>1, <1>5 DEF FlattenSeq
  <2>2. FlattenSeq(tt) = s
    BY <1>2, <1>3, <1>4, <1>5
  <2>3. << >> \o s = s
    BY ConcatEmptySeq
  <2> QED
    BY <2>1, <2>2, <2>3 DEF tt
<1>6. CASE n # 0
  <2>1. PICK f \in [1 .. n -> Seq(S)] : Flattens(f, ss, n) /\ FlattenSeq(ss) = f[n]
    BY <1>6, FlattenIs
  <2>2. Alike(f, g, n)
    <3>1. Flattens(f, ss, n) /\ Flattens(g, tt, n + 1)
      BY <1>3, <2>1
    <3>2. Alike(ss, tt, n)
      BY <1>2 DEF Alike
    <3> HIDE DEF n
    <3>3. n <= n + 1 /\ n + 1 \in Nat
      BY <1>1
    <3> QED
      BY <1>1, <3>1, <3>2, <3>3, FlattenedAlike
  <2>4. f[n] = g[(n + 1) - 1] /\ n + 1 # 1
    BY <1>1, <1>6, <2>2 DEF Alike
  <2> QED
    BY <1>2, <1>3, <1>4, <2>1, <2>4 DEF tt
<1> QED
  BY <1>5, <1>6

\* The function Total is made of: f[k] is the sum of the first k weights.
Sums(f, w, n) == f = [k \in 0 .. n |-> IF k = 0 THEN 0 ELSE f[k - 1] + w[k]]

LEMMA SummedOnce ==
    ASSUME NEW w \in Seq(Nat), NEW n \in 0 .. Len(w)
    PROVE  \E f \in [0 .. n -> Nat] : Sums(f, w, n)
<1> DEFINE D == {k \in 0 .. Len(w) : \E f \in [0 .. k -> Nat] : Sums(f, w, k)}
<1>1. Len(w) \in Nat /\ \A k \in 1 .. Len(w) : w[k] \in Nat
  BY LenProperties
<1>2. 0 \in D
  <2> DEFINE none == [k \in 0 .. 0 |-> 0]
  <2>1. none \in [0 .. 0 -> Nat]
    OBVIOUS
  <2>2. none = [k \in 0 .. 0 |-> IF k = 0 THEN 0 ELSE none[k - 1] + w[k]]
    OBVIOUS
  <2>3. Sums(none, w, 0)
    BY <2>2 DEF Sums
  <2> HIDE DEF none
  <2>4. \E f \in [0 .. 0 -> Nat] : Sums(f, w, 0)
    BY <2>1, <2>3
  <2>5. 0 \in 0 .. Len(w)
    BY <1>1
  <2> QED
    BY <2>4, <2>5
<1>3. ASSUME NEW k \in 0 .. Len(w), k \in D, k < Len(w)
      PROVE  k + 1 \in D
  <2>1. PICK f \in [0 .. k -> Nat] : Sums(f, w, k)
    BY <1>3
  <2> DEFINE last == f[k] + w[k + 1]
             g == [i \in 0 .. k + 1 |-> IF i = k + 1 THEN last ELSE f[i]]
  <2>2. last \in Nat
    BY <1>1, <1>3
  <2>3. g \in [0 .. k + 1 -> Nat]
    <3> HIDE DEF last
    <3> QED
      BY <2>2
  <2>4. Sums(g, w, k + 1)
    <3>1. ASSUME NEW i \in 0 .. k + 1
          PROVE  g[i] = IF i = 0 THEN 0 ELSE g[i - 1] + w[i]
      <4>1. CASE i = k + 1
        BY <4>1, <1>1
      <4>2. CASE i # k + 1
        <5>1. i \in 0 .. k /\ (i # 0 => i - 1 \in 0 .. k /\ i - 1 # k + 1)
          BY <4>2, <1>1
        <5>2. f[i] = IF i = 0 THEN 0 ELSE f[i - 1] + w[i]
          BY <2>1, <5>1 DEF Sums
        <5>3. g[i] = f[i] /\ (i # 0 => g[i - 1] = f[i - 1])
          BY <4>2, <5>1
        <5> QED
          BY <5>2, <5>3
      <4> QED
        BY <4>1, <4>2
    <3> HIDE DEF last
    <3> QED
      BY <3>1 DEF Sums
  <2> HIDE DEF g
  <2>5. \E h \in [0 .. k + 1 -> Nat] : Sums(h, w, k + 1)
    BY <2>3, <2>4
  <2>6. k + 1 \in 0 .. Len(w)
    BY <1>1, <1>3
  <2> QED
    BY <2>5, <2>6
<1> HIDE DEF D
<1>4. n \in D
  BY <1>1, <1>2, <1>3, UpTo
<1> QED
  BY <1>4 DEF D

LEMMA TotalIs ==
    ASSUME NEW w \in Seq(Nat)
    PROVE  \E f : /\ Sums(f, w, Len(w)) /\ Total(w) = f[Len(w)]
                  /\ \A k \in 0 .. Len(w) : f[k] \in Nat
<1> DEFINE h == CHOOSE h : Sums(h, w, Len(w))
<1>1. Len(w) \in Nat /\ Len(w) \in 0 .. Len(w) /\ \A k \in 1 .. Len(w) : w[k] \in Nat
  BY LenProperties
<1>2. PICK f \in [0 .. Len(w) -> Nat] : Sums(f, w, Len(w))
  BY <1>1, SummedOnce
<1>3. Sums(h, w, Len(w))
  BY <1>2
<1>4. Total(w) = h[Len(w)]
  BY DEF Total, Sums
<1> HIDE DEF h
<1> DEFINE D == {k \in 0 .. Len(w) : h[k] \in Nat}
<1>5. ASSUME NEW k \in 0 .. Len(w)
      PROVE  h[k] = IF k = 0 THEN 0 ELSE h[k - 1] + w[k]
  BY <1>3 DEF Sums
<1>6. 0 \in D
  BY <1>1, <1>5
<1>7. ASSUME NEW k \in 0 .. Len(w), k \in D, k < Len(w)
      PROVE  k + 1 \in D
  <2>1. k + 1 \in 1 .. Len(w) /\ (k + 1) - 1 = k
    BY <1>1, <1>7
  <2>2. h[k + 1] = h[k] + w[k + 1]
    BY <1>5, <2>1
  <2> QED
    BY <1>1, <1>7, <2>1, <2>2
<1> HIDE DEF D
<1>8. \A k \in 0 .. Len(w) : k \in D
  BY <1>1, <1>6, <1>7, UpTo
<1> QED
  BY <1>3, <1>4, <1>8 DEF D

\* A sequence that goes on as another one began adds up to no less.
LEMMA TotalGrows ==
    ASSUME NEW v \in Seq(Nat), NEW w \in Seq(Nat), Len(v) <= Len(w), Alike(v, w, Len(v))
    PROVE  Total(v) \in Nat /\ Total(w) \in Nat /\ Total(v) <= Total(w)
<1> DEFINE n == Len(v)
           m == Len(w)
<1>1. n \in Nat /\ m \in Nat /\ \A k \in 1 .. m : w[k] \in Nat
  BY LenProperties
<1>2. PICK f : /\ Sums(f, v, n) /\ Total(v) = f[n] /\ \A k \in 0 .. n : f[k] \in Nat
  BY TotalIs
<1>3. PICK g : /\ Sums(g, w, m) /\ Total(w) = g[m] /\ \A k \in 0 .. m : g[k] \in Nat
  BY TotalIs
<1> HIDE DEF n, m
<1>n. n <= m /\ Alike(v, w, n)
  BY DEF n, m
<1> DEFINE D == {k \in 0 .. m : IF k <= n THEN f[k] = g[k] ELSE f[n] <= g[k]}
<1>4. ASSUME NEW k \in 1 .. n
      PROVE  f[k] = f[k - 1] + v[k]
  <2>1. k \in 0 .. n /\ k # 0
    BY <1>1
  <2> QED
    BY <1>2, <2>1 DEF Sums
<1>5. ASSUME NEW k \in 1 .. m
      PROVE  g[k] = g[k - 1] + w[k]
  <2>1. k \in 0 .. m /\ k # 0
    BY <1>1
  <2> QED
    BY <1>3, <2>1 DEF Sums
<1>6. 0 \in D
  <2>1. 0 \in 0 .. n /\ 0 \in 0 .. m
    BY <1>1
  <2>2. f[0] = 0 /\ g[0] = 0
    BY <1>2, <1>3, <2>1 DEF Sums
  <2> QED
    BY <1>1, <2>1, <2>2
<1>7. ASSUME NEW k \in 0 .. m, k \in D, k < m
      PROVE  k + 1 \in D
  <2>1. k + 1 \in 1 .. m /\ (k + 1) - 1 = k /\ w[k + 1] \in Nat /\ g[k] \in Nat
    BY <1>1, <1>3, <1>7
  <2>2. g[k + 1] = g[k] + w[k + 1]
    BY <1>5, <2>1
  <2>3. CASE k + 1 <= n
    <3>1. k + 1 \in 1 .. n /\ k <= n
      BY <1>1, <2>1, <2>3
    <3>2. f[k + 1] = f[k] + v[k + 1]
      BY <1>4, <2>1, <3>1
    <3>3. v[k + 1] = w[k + 1]
      BY <1>n, <3>1 DEF Alike
    <3>4. f[k] = g[k]
      BY <1>7, <3>1
    <3> QED
      BY <2>1, <2>2, <2>3, <3>2, <3>3, <3>4
  <2>4. CASE k = n
    <3>1. f[n] = g[k] /\ ~(k + 1 <= n)
      BY <1>1, <1>7, <2>4
    <3> QED
      BY <1>1, <2>1, <2>2, <3>1
  <2>5. CASE k > n
    <3>1. f[n] <= g[k] /\ ~(k + 1 <= n) /\ f[n] \in Nat
      BY <1>1, <1>2, <1>7, <2>5
    <3> QED
      BY <1>1, <2>1, <2>2, <3>1
  <2> QED
    BY <1>1, <1>7, <2>3, <2>4, <2>5
<1> HIDE DEF D
<1>8. m \in D
  <2>1. \A k \in 0 .. m : k \in D
    BY <1>1, <1>6, <1>7, UpTo
  <2> QED
    BY <1>1, <2>1
<1>9. n \in 0 .. n /\ m \in 0 .. m
  BY <1>1
<1>10. IF m <= n THEN f[m] = g[m] ELSE f[n] <= g[m]
  BY <1>8 DEF D
<1>11. m <= n => m = n
  BY <1>1, <1>n
<1> QED
  BY <1>2, <1>3, <1>9, <1>10, <1>11

Principles ==
    {"authority_scope_mismatch", "boundary_crossing_without_justification",
     "source_use_misalignment", "unmet_preconditions", "disproportionate_disclosure",
     "insufficient_justification"}
ConcernRecords == [principle : Principles, weight : Nat]

LEMMA WhenIs ==
    ASSUME NEW condition, NEW principle \in Principles, NEW weight \in Nat
    PROVE  When(condition, principle, weight) \in Seq(ConcernRecords)
<1>1. [principle |-> principle, weight |-> weight] \in ConcernRecords
  BY DEF ConcernRecords
<1>2. /\ << [principle |-> principle, weight |-> weight] >> \in Seq(ConcernRecords)
      /\ << >> \in Seq(ConcernRecords)
  BY <1>1
<1> QED
  BY <1>2, SMT DEF When

LEMMA AuthorityIs == ASSUME NEW i PROVE OfAuthority(i) \in Seq(ConcernRecords)
<1> DEFINE C == Seq(ConcernRecords)
           a == When(i.boundary # Nowhere /\ i.allowed # {} /\ i.boundary \notin i.allowed,
                     "authority_scope_mismatch", 35)
           b == When(MissingScopes(i) # {}, "authority_scope_mismatch", 25)
           c == When(i.boundary \in i.forbidden, "boundary_crossing_without_justification", 25)
           d == When(i.crosses /\ i.justification # "concrete",
                     "boundary_crossing_without_justification", 20)
<1>1. a \in C
  BY WhenIs DEF Principles
<1>2. b \in C
  BY WhenIs DEF Principles
<1>3. c \in C
  BY WhenIs DEF Principles
<1>4. d \in C
  BY WhenIs DEF Principles
<1> HIDE DEF a, b, c, d
<1>5. a \o b \o c \o d \in C
  BY <1>1, <1>2, <1>3, <1>4, ConcatProperties
<1> QED
  BY <1>5 DEF OfAuthority, a, b, c, d

LEMMA SourcesIs == ASSUME NEW i PROVE OfSources(i) \in Seq(ConcernRecords)
<1> DEFINE C == Seq(ConcernRecords)
           a == When(i.unjustified, "source_use_misalignment", 20)
           b == When(Larger(i.rank, i.sourceRank) > i.maxRank, "source_use_misalignment", 20)
           c == When(i.unresolved, "unmet_preconditions", 25)
           d == When(~(i.needed \subseteq i.approvals), "unmet_preconditions", 25)
<1>1. a \in C
  BY WhenIs DEF Principles
<1>2. b \in C
  BY WhenIs DEF Principles
<1>3. c \in C
  BY WhenIs DEF Principles
<1>4. d \in C
  BY WhenIs DEF Principles
<1> HIDE DEF a, b, c, d
<1>5. a \o b \o c \o d \in C
  BY <1>1, <1>2, <1>3, <1>4, ConcatProperties
<1> QED
  BY <1>5 DEF OfSources, a, b, c, d

LEMMA DisclosureIs == ASSUME NEW i PROVE OfDisclosure(i) \in Seq(ConcernRecords)
<1> DEFINE C == Seq(ConcernRecords)
           a == When(i.discloses /\ (i.overBudget \/ i.rank >= 2), "disproportionate_disclosure", 20)
           b == When((i.sideEffect \/ i.discloses \/ i.crosses
                         \/ Larger(i.rank, i.sourceRank) >= 2)
                        /\ i.justification # "concrete", "insufficient_justification", 15)
<1>1. a \in C
  BY WhenIs DEF Principles
<1>2. b \in C
  BY WhenIs DEF Principles
<1> HIDE DEF a, b
<1>3. a \o b \in C
  BY <1>1, <1>2, ConcatProperties
<1> QED
  BY <1>3 DEF OfDisclosure, a, b

LEMMA ReflectionIs ==
    ASSUME NEW i, i.reflection \in ReflectionRecords
    PROVE  OfReflection(i) \in Seq(ConcernRecords)
<1> DEFINE C == Seq(ConcernRecords)
           u == Smaller(20, 8 + 3 * i.reflection.missing)
           v == Smaller(18, 8 + 3 * i.reflection.deviations)
           w == Smaller(18, 8 + 3 * i.reflection.doubts)
           a == When(i.reflection.missing > 0, "unmet_preconditions", u)
           b == When(i.reflection.deviations > 0, "insufficient_justification", v)
           c == When(NeedsReview(i), "insufficient_justification", w)
<1>1. u \in Nat /\ v \in Nat /\ w \in Nat
  <2>1. /\ i.reflection.missing \in Nat /\ i.reflection.deviations \in Nat
        /\ i.reflection.doubts \in Nat
    BY DEF ReflectionRecords
  <2> QED
    BY <2>1 DEF Smaller
<1> HIDE DEF u, v, w
<1>2. a \in C
  BY <1>1, WhenIs DEF Principles
<1>3. b \in C
  BY <1>1, WhenIs DEF Principles
<1>4. c \in C
  BY <1>1, WhenIs DEF Principles
<1> HIDE DEF a, b, c
<1>5. a \o b \o c \in C
  BY <1>2, <1>3, <1>4, ConcatProperties
<1> QED
  BY <1>5 DEF OfReflection, a, b, c, u, v, w

LEMMA FindingIs == ASSUME NEW i, NEW f PROVE OfFinding(i, f) \in Seq(ConcernRecords)
<1> DEFINE C == Seq(ConcernRecords)
           w == WeightOf(f.severity)
<1>1. w \in Nat /\ Larger(w, 35) \in Nat /\ Larger(25, w) \in Nat /\ Larger(20, w - 5) \in Nat
  <2>1. w \in {40, 30, 20, 12, 10}
    BY DEF WeightOf
  <2> HIDE DEF w
  <2> QED
    BY <2>1 DEF Larger
<1> HIDE DEF w
<1> DEFINE a == When(TRUE, "disproportionate_disclosure", Larger(w, 35))
           b == When(TRUE, "insufficient_justification", 20)
           c == When(TRUE, "disproportionate_disclosure", w)
           d == When(f.subject \in {"email", "mailbox", "phone"},
                     "source_use_misalignment", Larger(25, w))
           e == When(i.justification = "none", "insufficient_justification", 15)
           g == When(TRUE, "source_use_misalignment", w)
           h == When("prerequisite" \in f.hints, "unmet_preconditions", Larger(20, w - 5))
           j == When("commitment" \in f.hints,
                     "boundary_crossing_without_justification", Larger(20, w - 5))
           k == When("disclosure" \in f.hints,
                     "disproportionate_disclosure", Larger(20, w - 5))
<1>2. a \in C /\ b \in C /\ c \in C /\ g \in C
  BY <1>1, WhenIs DEF Principles
<1>3. d \in C
  BY <1>1, WhenIs DEF Principles
<1>4. e \in C
  BY <1>1, WhenIs DEF Principles
<1>5. h \in C
  BY <1>1, WhenIs DEF Principles
<1>6. j \in C
  BY <1>1, WhenIs DEF Principles
<1>7. k \in C
  BY <1>1, WhenIs DEF Principles
<1> HIDE DEF a, b, c, d, e, g, h, j, k
<1>8. a \o b \in C /\ c \o d \o e \in C /\ g \o h \o j \o k \in C
  BY <1>2, <1>3, <1>4, <1>5, <1>6, <1>7, ConcatProperties
<1>9. OfFinding(i, f) \in {<< >>, a \o b, c \o d \o e, g \o h \o j \o k}
  BY DEF OfFinding, a, b, c, d, e, g, h, j, k, w
<1>10. << >> \in C
  OBVIOUS
<1> QED
  BY <1>8, <1>9, <1>10

\* What the proofs need of an input.
InputFields ==
    {"sideEffect", "discloses", "crosses", "writes", "boundary", "allowed", "forbidden",
     "granted", "needed", "approvals", "justification", "rank", "sourceRank", "maxRank",
     "unjustified", "unresolved", "overBudget", "unclear", "reflection", "routing", "findings"}
InputOK(i) ==
    /\ i = [field \in DOMAIN i |-> i[field]] /\ InputFields \subseteq DOMAIN i
    /\ i.findings \in Seq(FindingRecords) /\ i.reflection \in ReflectionRecords

\* What the input says but for its findings.
Context(i) == OfAuthority(i) \o OfSources(i) \o OfDisclosure(i) \o OfReflection(i)
OfFindings(i) == [n \in DOMAIN i.findings |-> OfFinding(i, i.findings[n])]

LEMMA ConcernsAre ==
    ASSUME NEW i, InputOK(i)
    PROVE  /\ Context(i) \in Seq(ConcernRecords)
           /\ OfFindings(i) \in Seq(Seq(ConcernRecords))
           /\ Concerns(i) = Context(i) \o FlattenSeq(OfFindings(i))
           /\ Concerns(i) \in Seq(ConcernRecords)
<1>1. Context(i) \in Seq(ConcernRecords)
  <2>1. OfReflection(i) \in Seq(ConcernRecords)
    BY ReflectionIs DEF InputOK
  <2> QED
    BY <2>1, AuthorityIs, SourcesIs, DisclosureIs, ConcatProperties DEF Context
<1>2. OfFindings(i) \in Seq(Seq(ConcernRecords))
  <2>1. Len(i.findings) \in Nat /\ DOMAIN i.findings = 1 .. Len(i.findings)
    BY LenProperties DEF InputOK
  <2>2. \A n \in 1 .. Len(i.findings) : OfFinding(i, i.findings[n]) \in Seq(ConcernRecords)
    BY FindingIs
  <2>3. OfFindings(i) = [n \in 1 .. Len(i.findings) |-> OfFinding(i, i.findings[n])]
    BY <2>1 DEF OfFindings
  <2> QED
    BY <2>1, <2>2, <2>3, IsASeq
<1>3. Concerns(i) = Context(i) \o FlattenSeq(OfFindings(i))
  BY DEF Concerns, Context, OfFindings
<1>4. FlattenSeq(OfFindings(i)) \in Seq(ConcernRecords)
  BY <1>2, FlattenType
<1> QED
  BY <1>1, <1>2, <1>3, <1>4, ConcatProperties

\* One more finding leaves all else of an input as it is.
LEMMA OneMore ==
    ASSUME NEW i, InputOK(i), NEW x \in FindingRecords,
           NEW more, more = [i EXCEPT !.findings = Append(@, x)]
    PROVE  /\ InputOK(more) /\ more.findings = Append(i.findings, x)
           /\ more.reflection = i.reflection /\ more.unclear = i.unclear
           /\ Concerns(more) = Concerns(i) \o OfFinding(i, x)
           /\ OfFinding(i, x) \in Seq(ConcernRecords)
<1>1. /\ DOMAIN more = DOMAIN i /\ more = [field \in DOMAIN more |-> more[field]]
      /\ \A field \in InputFields \ {"findings"} : more[field] = i[field]
      /\ more["findings"] = Append(i.findings, x)
  BY DEF InputOK, InputFields
<1>2. /\ more.sideEffect = i.sideEffect /\ more.discloses = i.discloses
      /\ more.crosses = i.crosses /\ more.writes = i.writes /\ more.boundary = i.boundary
      /\ more.allowed = i.allowed /\ more.forbidden = i.forbidden /\ more.granted = i.granted
      /\ more.needed = i.needed /\ more.approvals = i.approvals
      /\ more.justification = i.justification /\ more.rank = i.rank
      /\ more.sourceRank = i.sourceRank /\ more.maxRank = i.maxRank
      /\ more.unjustified = i.unjustified /\ more.unresolved = i.unresolved
      /\ more.overBudget = i.overBudget /\ more.unclear = i.unclear
      /\ more.reflection = i.reflection /\ more.routing = i.routing
      /\ more.findings = Append(i.findings, x)
  BY <1>1 DEF InputFields
<1>3. InputOK(more)
  <2>1. Append(i.findings, x) \in Seq(FindingRecords)
    BY AppendProperties DEF InputOK
  <2> QED
    BY <1>1, <1>2, <2>1 DEF InputOK
<1>4. Context(more) = Context(i)
  <2>1. OfAuthority(more) = OfAuthority(i)
    BY <1>2 DEF OfAuthority, MissingScopes, RequiredScopes
  <2>2. OfSources(more) = OfSources(i)
    BY <1>2 DEF OfSources
  <2>3. OfDisclosure(more) = OfDisclosure(i)
    BY <1>2 DEF OfDisclosure
  <2>4. OfReflection(more) = OfReflection(i)
    BY <1>2 DEF OfReflection, NeedsReview
  <2> QED
    BY <2>1, <2>2, <2>3, <2>4 DEF Context
<1>5. ASSUME NEW f
      PROVE  OfFinding(more, f) = OfFinding(i, f)
  BY <1>2 DEF OfFinding
<1>6. OfFindings(more) = Append(OfFindings(i), OfFinding(i, x))
  <2> DEFINE n == Len(i.findings)
             s == OfFindings(more)
             t == Append(OfFindings(i), OfFinding(i, x))
  <2>1. n \in Nat /\ DOMAIN i.findings = 1 .. n
    BY LenProperties DEF InputOK
  <2>2. /\ Len(more.findings) = n + 1 /\ DOMAIN more.findings = 1 .. n + 1
        /\ more.findings[n + 1] = x /\ \A m \in 1 .. n : more.findings[m] = i.findings[m]
    BY <1>2, AppendProperties, LenProperties DEF InputOK
  <2>3. s \in Seq(Seq(ConcernRecords)) /\ OfFindings(i) \in Seq(Seq(ConcernRecords))
    BY <1>3, ConcernsAre
  <2>4. /\ Len(OfFindings(i)) = n
        /\ \A m \in 1 .. n : OfFindings(i)[m] = OfFinding(i, i.findings[m])
    <3>1. OfFindings(i) = [m \in 1 .. n |-> OfFinding(i, i.findings[m])]
      BY <2>1 DEF OfFindings
    <3> QED
      BY <2>1, <3>1
  <2>5. /\ Len(s) = n + 1
        /\ \A m \in 1 .. n + 1 : s[m] = OfFinding(i, more.findings[m])
    <3>1. s = [m \in 1 .. n + 1 |-> OfFinding(i, more.findings[m])]
      BY <1>5, <2>2 DEF OfFindings
    <3> HIDE DEF s, n
    <3>2. PICK k \in Nat : k = n + 1
      BY <2>1
    <3>3. DOMAIN s = 1 .. k /\ \A m \in 1 .. k : s[m] = OfFinding(i, more.findings[m])
      BY <3>1, <3>2
    <3>4. Len(s) \in Nat /\ DOMAIN s = 1 .. Len(s)
      BY <2>3, LenProperties
    <3>5. Len(s) = k
      BY <3>2, <3>3, <3>4
    <3> QED
      BY <3>2, <3>3, <3>5
  <2>6. /\ t \in Seq(Seq(ConcernRecords)) /\ Len(t) = n + 1 /\ t[n + 1] = OfFinding(i, x)
        /\ \A m \in 1 .. n : t[m] = OfFindings(i)[m]
    BY <2>3, <2>4, FindingIs, AppendProperties
  <2> HIDE DEF s, t, n
  <2>7. \A m \in 1 .. n + 1 : s[m] = t[m]
    BY <2>1, <2>2, <2>4, <2>5, <2>6
  <2>8. s = t
    BY <2>3, <2>5, <2>6, <2>7, SeqEqual
  <2> QED
    BY <2>8 DEF s, t
<1>7. OfFinding(i, x) \in Seq(ConcernRecords)
  BY FindingIs
<1>8. Concerns(more) = Concerns(i) \o OfFinding(i, x)
  <2>1. /\ Context(i) \in Seq(ConcernRecords)
        /\ OfFindings(i) \in Seq(Seq(ConcernRecords))
        /\ FlattenSeq(OfFindings(i)) \in Seq(ConcernRecords)
    BY ConcernsAre, FlattenType
  <2>2. FlattenSeq(OfFindings(more)) = FlattenSeq(OfFindings(i)) \o OfFinding(i, x)
    BY <1>6, <1>7, <2>1, FlattenAppend
  <2>3. Concerns(more) = Context(i) \o (FlattenSeq(OfFindings(i)) \o OfFinding(i, x))
    BY <1>3, <1>4, <2>2, ConcernsAre
  <2>4. Concerns(i) = Context(i) \o FlattenSeq(OfFindings(i))
    BY ConcernsAre
  <2>5. ASSUME NEW c \in Seq(ConcernRecords), NEW f \in Seq(ConcernRecords),
               NEW e \in Seq(ConcernRecords)
        PROVE  c \o (f \o e) = (c \o f) \o e
    BY ConcatAssociative
  <2>6. Context(i) \o (FlattenSeq(OfFindings(i)) \o OfFinding(i, x))
           = (Context(i) \o FlattenSeq(OfFindings(i))) \o OfFinding(i, x)
    BY <1>7, <2>1, <2>5
  <2> QED
    BY <2>3, <2>4, <2>6
<1> QED
  BY <1>2, <1>3, <1>7, <1>8

\* What each concern adds to the score.
Weights(concerns) ==
    [n \in DOMAIN concerns |-> IF Counts(concerns, n) THEN concerns[n].weight ELSE 0]

LEMMA SameLength == ASSUME NEW a \in Nat, NEW b \in Nat, 1 .. a = 1 .. b PROVE a = b
  OBVIOUS

LEMMA WeightsAre ==
    ASSUME NEW c \in Seq(ConcernRecords)
    PROVE  /\ Weights(c) \in Seq(Nat) /\ Len(Weights(c)) = Len(c)
           /\ \A n \in 1 .. Len(c) :
                 Weights(c)[n] = IF Counts(c, n) THEN c[n].weight ELSE 0
           /\ Score(c) = Smaller(100, Total(Weights(c)))
<1>1. Len(c) \in Nat /\ DOMAIN c = 1 .. Len(c) /\ \A n \in 1 .. Len(c) : c[n] \in ConcernRecords
  BY LenProperties
<1>2. Weights(c) = [n \in 1 .. Len(c) |-> IF Counts(c, n) THEN c[n].weight ELSE 0]
  BY <1>1 DEF Weights
<1>3. \A n \in 1 .. Len(c) : (IF Counts(c, n) THEN c[n].weight ELSE 0) \in Nat
  BY <1>1 DEF ConcernRecords
<1>4. Weights(c) \in Seq(Nat)
  BY <1>1, <1>2, <1>3, IsASeq
<1>5. DOMAIN Weights(c) = 1 .. Len(Weights(c)) /\ Len(Weights(c)) \in Nat
  BY <1>4, LenProperties
<1>6. DOMAIN Weights(c) = 1 .. Len(c)
  BY <1>2
<1>7. Len(Weights(c)) = Len(c)
  BY <1>1, <1>5, <1>6, SameLength
<1> QED
  BY <1>2, <1>4, <1>7 DEF Score, Weights

\* More concerns score no less, and are of no fewer principles.
LEMMA ScoreGrows ==
    ASSUME NEW c \in Seq(ConcernRecords), NEW e \in Seq(ConcernRecords)
    PROVE  /\ Score(c) \in Nat /\ Score(c \o e) \in Nat /\ Score(c) <= Score(c \o e)
           /\ PrinciplesOf(c) \subseteq PrinciplesOf(c \o e)
<1> DEFINE d == c \o e
<1>1. Len(c) \in Nat /\ Len(e) \in Nat /\ DOMAIN c = 1 .. Len(c)
  BY LenProperties
<1>2. /\ d \in Seq(ConcernRecords) /\ Len(d) = Len(c) + Len(e)
      /\ \A n \in 1 .. Len(c) + Len(e) : d[n] = IF n <= Len(c) THEN c[n] ELSE e[n - Len(c)]
  BY ConcatProperties
<1>3. DOMAIN d = 1 .. Len(d)
  BY <1>2, LenProperties
<1> HIDE DEF d
<1>4. \A n \in 1 .. Len(c) : n \in 1 .. Len(d) /\ d[n] = c[n]
  BY <1>1, <1>2
<1>5. \A n \in 1 .. Len(c) : Counts(d, n) <=> Counts(c, n)
  <2>1. ASSUME NEW n \in 1 .. Len(c), NEW m \in 1 .. n - 1
        PROVE  d[m] = c[m] /\ d[n] = c[n]
    BY <1>1, <1>4
  <2> QED
    BY <2>1 DEF Counts
<1>6. Alike(Weights(c), Weights(d), Len(c))
  <2>1. ASSUME NEW n \in 1 .. Len(c)
        PROVE  Weights(c)[n] = Weights(d)[n]
    <3>1. Weights(c)[n] = IF Counts(c, n) THEN c[n].weight ELSE 0
      BY WeightsAre
    <3>2. Weights(d)[n] = IF Counts(d, n) THEN d[n].weight ELSE 0
      BY <1>2, <1>4, WeightsAre
    <3> QED
      BY <1>4, <1>5, <3>1, <3>2
  <2> QED
    BY <2>1 DEF Alike
<1>7. /\ Total(Weights(c)) \in Nat /\ Total(Weights(d)) \in Nat
      /\ Total(Weights(c)) <= Total(Weights(d))
  <2>1. /\ Weights(c) \in Seq(Nat) /\ Weights(d) \in Seq(Nat)
        /\ Len(Weights(c)) = Len(c) /\ Len(Weights(d)) = Len(d)
    BY <1>2, WeightsAre
  <2>2. Len(Weights(c)) <= Len(Weights(d)) /\ Alike(Weights(c), Weights(d), Len(Weights(c)))
    BY <1>1, <1>2, <1>6, <2>1
  <2> QED
    BY <2>1, <2>2, TotalGrows
<1>8. Score(c) = Smaller(100, Total(Weights(c))) /\ Score(d) = Smaller(100, Total(Weights(d)))
  BY <1>2, WeightsAre
<1>9. Score(c) \in Nat /\ Score(d) \in Nat /\ Score(c) <= Score(d)
  BY <1>7, <1>8 DEF Smaller
<1>10. PrinciplesOf(c) \subseteq PrinciplesOf(d)
  BY <1>1, <1>3, <1>4 DEF PrinciplesOf
<1> QED
  BY <1>9, <1>10 DEF d

\* More concerns cannot take back a threshold that was reached.
LEMMA ReachesGrows ==
    ASSUME NEW low \in Nat, NEW high \in Nat, low <= high, NEW threshold \in 0 .. 100
    PROVE  /\ Reaches(low, threshold) \subseteq BOOLEAN
           /\ \E x \in BOOLEAN : x \in Reaches(low, threshold)
           /\ FALSE \in Reaches(high, threshold) => FALSE \in Reaches(low, threshold)
<1>1. (low > threshold) \in BOOLEAN /\ (high > threshold) \in BOOLEAN
  OBVIOUS
<1>2. Reaches(low, threshold) \subseteq BOOLEAN /\ \E x \in BOOLEAN : x \in Reaches(low, threshold)
  BY <1>1 DEF Reaches
<1>3. ASSUME NEW n \in Nat
      PROVE  FALSE \in Reaches(n, threshold) <=> ~(n > threshold)
  <2>1. CASE n = threshold
    <3>1. ~(n > threshold)
      BY <2>1
    <3> QED
      BY <2>1, <3>1 DEF Reaches
  <2>2. CASE n # threshold
    <3>1. PICK above \in BOOLEAN : above = (n > threshold)
      <4>1. (n > threshold) \in BOOLEAN
        OBVIOUS
      <4> QED
        BY <4>1
    <3>2. Reaches(n, threshold) = {above}
      BY <2>2, <3>1 DEF Reaches
    <3> QED
      BY <3>1, <3>2
  <2> QED
    BY <2>1, <2>2
<1>4. ~(high > threshold) => ~(low > threshold)
  OBVIOUS
<1> QED
  BY <1>2, <1>3, <1>4

\* The opinions the local rules may form: one for each way to cut the score at the two thresholds.
LEMMA OpinionsAre ==
    ASSUME NEW i, NEW b \in LocalOpinions(i)
    PROVE  \E denies \in Reaches(Score(Concerns(i)), DenyAt),
              escalates \in Reaches(Score(Concerns(i)), EscalateAt) :
                 b = Opinion(i, PrinciplesOf(Concerns(i)), denies, escalates)
<1> DEFINE c == Concerns(i)
           P == PrinciplesOf(c)
           D == Reaches(Score(c), DenyAt)
           E == Reaches(Score(c), EscalateAt)
<1>1. b \in {Opinion(i, P, denies, escalates) : denies \in D, escalates \in E}
  BY DEF LocalOpinions
<1> HIDE DEF c, P, D, E
<1>2. \E denies \in D, escalates \in E : b = Opinion(i, P, denies, escalates)
  BY <1>1
<1> QED
  BY <1>2 DEF c, P, D, E

LEMMA SharpensIs == ASSUME NEW i, InputOK(i) PROVE Sharpens(i)
<1> SUFFICES ASSUME NEW code \in Codes, NEW p \in Pieces, NEW more,
                    more = [i EXCEPT !.findings = Append(@, Finding(code, SeverityOf(code), p))],
                    "clarify" \notin LocalOpinions(i)
             PROVE  /\ "clarify" \notin LocalOpinions(more)
                    /\ \A b \in LocalOpinions(more) :
                          \E a \in LocalOpinions(i) : Strictness(a) <= Strictness(b)
  BY DEF Sharpens
<1> DEFINE c  == Concerns(i)
           d  == Concerns(more)
           P  == PrinciplesOf(c)
           Q  == PrinciplesOf(d)
           Refused(R) == {"authority_scope_mismatch", "unmet_preconditions"} \subseteq R
<1>1. Finding(code, SeverityOf(code), p) \in FindingRecords
  <2>1. SubjectOf[p] \in Subjects
    BY ContentAssumption
  <2>2. SeverityOf(code) \in ToSet(Severities)
    BY DEF SeverityOf, Severities, ToSet
  <2> QED
    BY <2>1, <2>2 DEF Finding, FindingRecords
<1>2. /\ more.reflection = i.reflection /\ more.unclear = i.unclear
      /\ Score(c) \in Nat /\ Score(d) \in Nat /\ Score(c) <= Score(d) /\ P \subseteq Q
  <2> DEFINE e == OfFinding(i, Finding(code, SeverityOf(code), p))
  <2>1. /\ more.reflection = i.reflection /\ more.unclear = i.unclear
        /\ d = c \o e /\ e \in Seq(ConcernRecords)
    BY <1>1, OneMore
  <2>2. c \in Seq(ConcernRecords)
    BY ConcernsAre
  <2> HIDE DEF c, d, e
  <2> QED
    BY <2>1, <2>2, ScoreGrows
<1> HIDE DEF c, d
<1>3. NeedsReview(more) = NeedsReview(i)
  BY <1>2 DEF NeedsReview
<1>4. NeedsClarification(more, Q) => NeedsClarification(i, P)
  BY <1>2 DEF NeedsClarification
<1>5. Refused(P) => Refused(Q)
  BY <1>2
<1>6. LocalOpinions(i) = {Opinion(i, P, denies, escalates) :
             denies \in Reaches(Score(c), DenyAt), escalates \in Reaches(Score(c), EscalateAt)}
  BY DEF LocalOpinions, c
<1>7. /\ Reaches(Score(c), DenyAt) \subseteq BOOLEAN
      /\ Reaches(Score(c), EscalateAt) \subseteq BOOLEAN
      /\ Reaches(Score(d), DenyAt) \subseteq BOOLEAN
      /\ Reaches(Score(d), EscalateAt) \subseteq BOOLEAN
      /\ \E x \in BOOLEAN : x \in Reaches(Score(c), DenyAt)
      /\ \E x \in BOOLEAN : x \in Reaches(Score(c), EscalateAt)
      /\ FALSE \in Reaches(Score(d), DenyAt) => FALSE \in Reaches(Score(c), DenyAt)
      /\ FALSE \in Reaches(Score(d), EscalateAt) => FALSE \in Reaches(Score(c), EscalateAt)
  <2>1. Score(d) <= Score(d)
    BY <1>2
  <2> QED
    BY <1>2, <2>1, ReachesGrows, EvaluatorAssumption
<1> HIDE DEF P, Q
<1>o. ASSUME NEW x \in Reaches(Score(c), DenyAt), NEW y \in Reaches(Score(c), EscalateAt)
      PROVE  Opinion(i, P, x, y) \in LocalOpinions(i)
  BY <1>6
<1>no. PICK no \in BOOLEAN : no = FALSE
  OBVIOUS
\* Where no question is asked before, an action that may pass is not refused for more.
<1>8. ASSUME FALSE \in Reaches(Score(c), DenyAt), ~Refused(P)
      PROVE  ~NeedsClarification(i, P)
  <2>1. SUFFICES ASSUME NeedsClarification(i, P) PROVE FALSE
    OBVIOUS
  <2>2. PICK x \in BOOLEAN : x \in Reaches(Score(c), EscalateAt)
    BY <1>7
  <2>3. Opinion(i, P, no, x) = "clarify"
    BY <1>8, <1>no, <2>1 DEF Opinion
  <2>4. Opinion(i, P, no, x) \in LocalOpinions(i)
    BY <1>8, <1>no, <1>o, <2>2
  <2> QED
    BY <2>3, <2>4
<1>9. ASSUME NEW denies \in Reaches(Score(d), DenyAt), NEW escalates \in Reaches(Score(d), EscalateAt),
             NEW b, b = Opinion(more, Q, denies, escalates)
      PROVE  b # "clarify" /\ \E a \in LocalOpinions(i) : Strictness(a) <= Strictness(b)
  <2>1. denies \in BOOLEAN /\ escalates \in BOOLEAN
    BY <1>7
  <2>2. CASE denies \/ Refused(Q)
    <3>1. b = "deny" /\ Strictness(b) = 2
      BY <1>9, <2>2 DEF Opinion, Strictness
    <3>2. PICK x \in Reaches(Score(c), DenyAt), y \in Reaches(Score(c), EscalateAt) : TRUE
      BY <1>7
    <3>3. Opinion(i, P, x, y) \in LocalOpinions(i)
      BY <1>6
    <3>4. Strictness(Opinion(i, P, x, y)) <= 2
      BY DEF Strictness
    <3> QED
      BY <3>1, <3>3, <3>4
  <2>3. CASE ~denies /\ ~Refused(Q)
    <3>1. FALSE \in Reaches(Score(c), DenyAt) /\ ~Refused(P)
      BY <1>5, <1>7, <2>1, <2>3
    <3>2. ~NeedsClarification(i, P) /\ ~NeedsClarification(more, Q)
      BY <1>4, <1>8, <3>1
    <3>3. b = IF escalates \/ NeedsReview(i) THEN "escalate" ELSE "allow"
      BY <1>3, <1>9, <2>3, <3>2 DEF Opinion
    <3>4. CASE escalates \/ NeedsReview(i)
      <4>1. PICK x \in BOOLEAN : x \in Reaches(Score(c), EscalateAt)
        BY <1>7
      <4>2. PICK a : a = Opinion(i, P, no, x)
        OBVIOUS
      <4>3. a \in {"escalate", "allow"}
        BY <1>no, <3>1, <3>2, <4>2 DEF Opinion
      <4>4. a \in LocalOpinions(i)
        BY <1>no, <1>o, <3>1, <4>1, <4>2
      <4>5. b = "escalate"
        BY <3>3, <3>4
      <4>6. Strictness(a) <= Strictness(b) /\ b # "clarify"
        BY <4>3, <4>5 DEF Strictness
      <4> QED
        BY <4>4, <4>6
    <3>5. CASE ~escalates /\ ~NeedsReview(i)
      <4>1. FALSE \in Reaches(Score(c), EscalateAt)
        BY <1>7, <2>1, <3>5
      <4>2. PICK a : a = Opinion(i, P, no, no)
        OBVIOUS
      <4>3. a = "allow" /\ b = "allow"
        BY <1>no, <3>1, <3>2, <3>3, <3>5, <4>2 DEF Opinion
      <4>4. a \in LocalOpinions(i)
        BY <1>no, <1>o, <3>1, <4>1, <4>2
      <4>5. Strictness(a) <= Strictness(b) /\ b # "clarify"
        BY <4>3 DEF Strictness
      <4> QED
        BY <4>4, <4>5
    <3> QED
      BY <3>4, <3>5
  <2> QED
    BY <2>1, <2>2, <2>3
<1>10. ASSUME NEW b \in LocalOpinions(more)
      PROVE  b # "clarify" /\ \E a \in LocalOpinions(i) : Strictness(a) <= Strictness(b)
  <2>1. PICK denies \in Reaches(Score(d), DenyAt), escalates \in Reaches(Score(d), EscalateAt) :
           b = Opinion(more, Q, denies, escalates)
    BY OpinionsAre DEF d, Q
  <2> QED
    BY <1>9, <2>1
<1> QED
  BY <1>10

\* A sequence of one-element and empty sequences of elements of another flattens to some of these.
LEMMA KeptIs ==
    ASSUME NEW S, NEW s \in Seq(S), NEW kept, DOMAIN kept = DOMAIN s,
           kept = [n \in DOMAIN kept |-> kept[n]],
           \A n \in DOMAIN s : kept[n] = << s[n] >> \/ kept[n] = << >>
    PROVE  FlattenSeq(kept) \in Seq(S)
<1>1. Len(s) \in Nat /\ DOMAIN s = 1 .. Len(s) /\ \A n \in 1 .. Len(s) : s[n] \in S
  BY LenProperties
<1>2. \A n \in 1 .. Len(s) : kept[n] \in Seq(S)
  <2>1. \A n \in 1 .. Len(s) : << s[n] >> \in Seq(S) /\ << >> \in Seq(S)
    BY <1>1
  <2> QED
    BY <1>1, <2>1
<1>3. kept = [n \in 1 .. Len(s) |-> kept[n]]
  BY <1>1
<1>4. kept \in Seq(Seq(S))
  BY <1>1, <1>2, <1>3, IsASeq
<1> QED
  BY <1>4, FlattenType

LEMMA PatternsAre ==
    ASSUME NEW piece \in Pieces, NEW location
    PROVE  PatternFindings(piece, location) \in Seq(FindingRecords)
<1> DEFINE kept == [n \in DOMAIN Families |->
                      IF Families[n] \in MatchOf[piece] \cap Scanned(location)
                      THEN << Families[n] >> ELSE << >>]
           matched == FlattenSeq(kept)
<1>1. Families \in Seq(Codes)
  BY DEF Families, Codes, ToSet
<1>2. matched \in Seq(Codes)
  <2>1. /\ DOMAIN kept = DOMAIN Families /\ kept = [n \in DOMAIN kept |-> kept[n]]
        /\ \A n \in DOMAIN Families : kept[n] = << Families[n] >> \/ kept[n] = << >>
    OBVIOUS
  <2> HIDE DEF kept
  <2> QED
    BY <1>1, <2>1, KeptIs
<1>3. PatternFindings(piece, location)
         = [n \in DOMAIN matched |-> Finding(matched[n], SeverityOf(matched[n]), piece)]
  BY DEF PatternFindings, Filtered
<1> HIDE DEF matched
<1>4. ASSUME NEW code \in Codes
      PROVE  Finding(code, SeverityOf(code), piece) \in FindingRecords
  <2>1. SubjectOf[piece] \in Subjects
    BY ContentAssumption
  <2>2. SeverityOf(code) \in ToSet(Severities)
    BY DEF SeverityOf, Severities, ToSet
  <2> QED
    BY <2>1, <2>2 DEF Finding, FindingRecords
<1>5. Len(matched) \in Nat /\ DOMAIN matched = 1 .. Len(matched)
  BY <1>2, LenProperties
<1>6. \A n \in 1 .. Len(matched) :
         Finding(matched[n], SeverityOf(matched[n]), piece) \in FindingRecords
  BY <1>2, <1>4, LenProperties
<1>7. PatternFindings(piece, location)
         = [n \in 1 .. Len(matched) |-> Finding(matched[n], SeverityOf(matched[n]), piece)]
  BY <1>3, <1>5
<1> QED
  BY <1>5, <1>6, <1>7, IsASeq

\* A rule as it is in force names a severity the guards know.
Rules == {r \in RuleRecords : r.severity \in {"low", "medium", "high", "critical"}}

LEMMA RulesAre ==
    ASSUME NEW pack \in Seq(RuleRecords)
    PROVE  RulesOf(pack) \in Seq(Rules)
<1> DEFINE taken == [n \in DOMAIN pack |-> IF Compiles(pack[n]) THEN << pack[n] >> ELSE << >>]
           kept  == FlattenSeq(taken)
<1>1. kept \in Seq(RuleRecords)
  <2>1. /\ DOMAIN taken = DOMAIN pack /\ taken = [n \in DOMAIN taken |-> taken[n]]
        /\ \A n \in DOMAIN pack : taken[n] = << pack[n] >> \/ taken[n] = << >>
    OBVIOUS
  <2> HIDE DEF taken
  <2> QED
    BY <2>1, KeptIs
<1>2. RulesOf(pack) = [n \in DOMAIN kept |-> Compiled(kept[n])]
  BY DEF RulesOf, Filtered
<1> HIDE DEF kept
<1>3. ASSUME NEW rule \in RuleRecords
      PROVE  Compiled(rule) \in Rules
  BY DEF Compiled, Rules, RuleRecords
<1>4. Len(kept) \in Nat /\ DOMAIN kept = 1 .. Len(kept)
  BY <1>1, LenProperties
<1>5. \A n \in 1 .. Len(kept) : Compiled(kept[n]) \in Rules
  BY <1>1, <1>3, LenProperties
<1>6. RulesOf(pack) = [n \in 1 .. Len(kept) |-> Compiled(kept[n])]
  BY <1>2, <1>4
<1> QED
  BY <1>4, <1>5, <1>6, IsASeq

PackPolicies == [enabled : BOOLEAN, packs : Seq({"pack"})]

LEMMA AppsAre ==
    ASSUME NEW compliance, compliance.packs \in [{"pack"} -> Seq(RuleRecords)],
           compliance.policies \in Seq(PackPolicies)
    PROVE  Apps(compliance) \in Seq(Rules)
<1> DEFINE policies == compliance.policies
           taken   == [n \in DOMAIN policies |->
                         IF policies[n].enabled THEN << policies[n] >> ELSE << >>]
           enabled == FlattenSeq(taken)
           named(n) == [m \in DOMAIN enabled[n].packs |->
                          IF enabled[n].packs[m] \in DOMAIN compliance.packs
                          THEN << enabled[n].packs[m] >> ELSE << >>]
           known   == [n \in DOMAIN enabled |-> FlattenSeq(named(n))]
           ids     == FlattenSeq(known)
           rules   == [n \in DOMAIN ids |-> RulesOf(compliance.packs[ids[n]])]
<1>0. Apps(compliance) = FlattenSeq(rules)
  BY DEF Apps, Filtered
<1>1. enabled \in Seq(PackPolicies)
  <2>1. /\ DOMAIN taken = DOMAIN policies /\ taken = [n \in DOMAIN taken |-> taken[n]]
        /\ \A n \in DOMAIN policies : taken[n] = << policies[n] >> \/ taken[n] = << >>
    OBVIOUS
  <2>2. policies \in Seq(PackPolicies)
    OBVIOUS
  <2> HIDE DEF taken, policies
  <2> QED
    BY <2>1, <2>2, KeptIs
<1> HIDE DEF enabled
<1>2. known \in Seq(Seq({"pack"}))
  <2>1. Len(enabled) \in Nat /\ DOMAIN enabled = 1 .. Len(enabled)
    BY <1>1, LenProperties
  <2>2. ASSUME NEW n \in 1 .. Len(enabled)
        PROVE  FlattenSeq(named(n)) \in Seq({"pack"})
    <3> DEFINE packs == enabled[n].packs
               kept  == [m \in DOMAIN packs |->
                           IF packs[m] \in DOMAIN compliance.packs THEN << packs[m] >> ELSE << >>]
    <3>1. packs \in Seq({"pack"})
      <4>1. enabled[n] \in PackPolicies
        BY <1>1, LenProperties
      <4> QED
        BY <4>1 DEF PackPolicies
    <3>2. named(n) = kept
      OBVIOUS
    <3>3. /\ DOMAIN kept = DOMAIN packs /\ kept = [m \in DOMAIN kept |-> kept[m]]
          /\ \A m \in DOMAIN packs : kept[m] = << packs[m] >> \/ kept[m] = << >>
      OBVIOUS
    <3> HIDE DEF packs, kept
    <3>4. FlattenSeq(kept) \in Seq({"pack"})
      BY <3>1, <3>3, KeptIs
    <3> QED
      BY <3>2, <3>4
  <2> HIDE DEF named
  <2>3. known = [n \in 1 .. Len(enabled) |-> FlattenSeq(named(n))]
    BY <2>1
  <2> HIDE DEF known
  <2> QED
    BY <2>1, <2>2, <2>3, IsASeq
<1> HIDE DEF known
<1>3. ids \in Seq({"pack"})
  BY <1>2, FlattenType
<1> HIDE DEF ids
<1>4. rules \in Seq(Seq(Rules))
  <2>1. Len(ids) \in Nat /\ DOMAIN ids = 1 .. Len(ids) /\ \A n \in 1 .. Len(ids) : ids[n] = "pack"
    BY <1>3, LenProperties
  <2>2. RulesOf(compliance.packs["pack"]) \in Seq(Rules)
    BY RulesAre
  <2>3. \A n \in 1 .. Len(ids) : RulesOf(compliance.packs[ids[n]]) \in Seq(Rules)
    BY <2>1, <2>2
  <2>4. rules = [n \in 1 .. Len(ids) |-> RulesOf(compliance.packs[ids[n]])]
    BY <2>1
  <2> QED
    BY <2>1, <2>3, <2>4, IsASeq
<1> HIDE DEF rules
<1> QED
  BY <1>0, <1>4, FlattenType

LEMMA PackFindingsAre ==
    ASSUME NEW apps \in Seq(Rules), NEW text, NEW location, NEW judging
    PROVE  PackFindings(apps, text, location, judging) \in Seq(FindingRecords)
<1> DEFINE taken == [n \in DOMAIN apps |->
                       IF Due(apps[n], location) /\ Matches(apps[n], text, judging)
                       THEN << apps[n] >> ELSE << >>]
           found == FlattenSeq(taken)
           most  == IF Len(found) > MaxFindings THEN MaxFindings ELSE Len(found)
           few   == SubSeq(found, 1, most)
           Of(r) == [code |-> "agent_policy_violation", severity |-> r.severity,
                     subject |-> "none", hints |-> r.hints]
<1>1. PackFindings(apps, text, location, judging) = [n \in DOMAIN few |-> Of(few[n])]
  BY DEF PackFindings, Filtered
<1>2. found \in Seq(Rules)
  <2>1. /\ DOMAIN taken = DOMAIN apps /\ taken = [n \in DOMAIN taken |-> taken[n]]
        /\ \A n \in DOMAIN apps : taken[n] = << apps[n] >> \/ taken[n] = << >>
    OBVIOUS
  <2> HIDE DEF taken
  <2> QED
    BY <2>1, KeptIs
<1> HIDE DEF found
<1>3. few \in Seq(Rules)
  <2>1. Len(found) \in Nat /\ \A n \in 1 .. Len(found) : found[n] \in Rules
    BY <1>2, LenProperties
  <2>2. most \in Nat /\ most <= Len(found)
    BY <2>1, ContentAssumption
  <2>3. \A n \in 1 .. most : found[n] \in Rules
    BY <2>1, <2>2
  <2> HIDE DEF most
  <2> QED
    BY <2>2, <2>3, SubSeqProperties
<1> HIDE DEF few
<1>4. ASSUME NEW r \in Rules
      PROVE  Of(r) \in FindingRecords
  <2>1. r.severity \in ToSet(Severities)
    BY DEF Rules, Severities, ToSet
  <2>2. r.hints \in SUBSET Hints
    BY DEF Rules, RuleRecords
  <2>3. "agent_policy_violation" \in Codes /\ "none" \in Subjects
    BY DEF Codes, Families, ToSet, Subjects
  <2> QED
    BY <2>1, <2>2, <2>3 DEF FindingRecords
<1> HIDE DEF Of
<1>5. Len(few) \in Nat /\ DOMAIN few = 1 .. Len(few) /\ \A n \in 1 .. Len(few) : few[n] \in Rules
  BY <1>3, LenProperties
<1>6. \A n \in 1 .. Len(few) : Of(few[n]) \in FindingRecords
  BY <1>4, <1>5
<1>7. PackFindings(apps, text, location, judging) = [n \in 1 .. Len(few) |-> Of(few[n])]
  BY <1>1, <1>5
<1> QED
  BY <1>5, <1>6, <1>7, IsASeq

LEMMA HostedAre ==
    ASSUME NEW guard, guard.hosted = ReportOf, NEW text \in Seq(Pieces), NEW location
    PROVE  HostedFindings(guard, text, location) \in Seq(FindingRecords)
<1> DEFINE Reports == [code : STRING, severity : STRING]
           reported == [n \in DOMAIN text |-> guard.hosted[text[n]]]
           reports == FlattenSeq(reported)
<1>1. Len(text) \in Nat /\ DOMAIN text = 1 .. Len(text) /\ \A n \in 1 .. Len(text) : text[n] \in Pieces
  BY LenProperties
<1>2. reports \in Seq(Reports)
  <2>1. \A n \in 1 .. Len(text) : guard.hosted[text[n]] \in Seq(Reports)
    BY <1>1, PayloadAssumption
  <2>2. reported = [n \in 1 .. Len(text) |-> guard.hosted[text[n]]]
    BY <1>1
  <2> HIDE DEF Reports, reported
  <2>3. reported \in Seq(Seq(Reports))
    BY <1>1, <2>1, <2>2, IsASeq
  <2> QED
    BY <2>3, FlattenType
<1>3. HostedFindings(guard, text, location)
         = [n \in DOMAIN reports |-> Reported(reports[n], location)]
  BY DEF HostedFindings
<1> HIDE DEF reports, Reports
<1>4. ASSUME NEW r
      PROVE  Reported(r, location) \in FindingRecords
  <2>1. {"agent_prompt_injection", "agent_pii"} \subseteq Codes
    BY DEF Codes, Families, ToSet
  <2>2. "unknown" \in ToSet(Severities)
    BY DEF Severities, ToSet
  <2>3. "none" \in Subjects
    BY DEF Subjects
  <2> QED
    BY <2>1, <2>2, <2>3 DEF Reported, FindingRecords
<1>5. Len(reports) \in Nat /\ DOMAIN reports = 1 .. Len(reports)
  BY <1>2, LenProperties
<1>6. HostedFindings(guard, text, location)
         = [n \in 1 .. Len(reports) |-> Reported(reports[n], location)]
  BY <1>3, <1>5
<1>7. \A n \in 1 .. Len(reports) : Reported(reports[n], location) \in FindingRecords
  BY <1>4
<1> QED
  BY <1>5, <1>6, <1>7, IsASeq

\* What a scan finds is a list of findings, of a code and a severity the evaluator knows.
LEMMA ScanIs ==
    ASSUME NEW n \in Policies, NEW text \in Seq(Pieces), NEW location, NEW up
    PROVE  Scan(GuardOf(n), text, location, up) \in Seq(FindingRecords)
<1> DEFINE guard  == GuardOf(n)
           found  == [k \in DOMAIN text |-> PatternFindings(text[k], location)]
           built  == FlattenSeq(found)
           hosted == IF "scanner" \in up THEN HostedFindings(guard, text, location) ELSE << >>
           packs  == PackFindings(guard.apps, text, location, "judge" \in up)
<1>1. guard.apps \in Seq(Rules) /\ guard.hosted = ReportOf
  <2>1. PolicyOf[n] \in PolicyRecords
    BY PolicyAssumption, LenProperties DEF Policies
  <2>2. PolicyOf[n].guard \in Guards
    BY <2>1 DEF PolicyRecords
  <2> DEFINE compliance == PolicyOf[n].guard.compliance
  <2>3. /\ compliance.packs \in [{"pack"} -> Seq(RuleRecords)]
        /\ compliance.policies \in Seq(PackPolicies)
    BY <2>2 DEF Guards, PackPolicies
  <2>4. Apps(compliance) \in Seq(Rules)
    BY <2>3, AppsAre
  <2> QED
    BY <2>4 DEF GuardOf
<1>2. built \in Seq(FindingRecords)
  <2>1. /\ Len(text) \in Nat /\ DOMAIN text = 1 .. Len(text)
        /\ \A k \in 1 .. Len(text) : text[k] \in Pieces
    BY LenProperties
  <2>2. found = [k \in 1 .. Len(text) |-> PatternFindings(text[k], location)]
    BY <2>1
  <2>3. \A k \in 1 .. Len(text) : PatternFindings(text[k], location) \in Seq(FindingRecords)
    BY <2>1, PatternsAre
  <2> HIDE DEF found
  <2>4. found \in Seq(Seq(FindingRecords))
    BY <2>1, <2>2, <2>3, IsASeq
  <2> QED
    BY <2>4, FlattenType
<1>3. << >> \in Seq(FindingRecords)
  OBVIOUS
<1> HIDE DEF guard
<1>4. hosted \in Seq(FindingRecords)
  BY <1>1, <1>3, HostedAre
<1>5. packs \in Seq(FindingRecords)
  <2>1. PICK judging : judging = ("judge" \in up)
    OBVIOUS
  <2>2. PackFindings(guard.apps, text, location, judging) \in Seq(FindingRecords)
    BY <1>1, PackFindingsAre
  <2> QED
    BY <2>1, <2>2
<1>6. Scan(guard, text, location, up) \in {<< >>, packs, built \o hosted \o packs}
  BY DEF Scan
<1> HIDE DEF built, hosted, packs
<1>7. built \o hosted \o packs \in Seq(FindingRecords)
  BY <1>2, <1>4, <1>5, ConcatProperties
<1> QED
  BY <1>3, <1>5, <1>6, <1>7 DEF guard

LEMMA DescribedIs ==
    ASSUME NEW findings \in Seq(FindingRecords)
    PROVE  Described(findings) \in Seq(FindingRecords)
<1> DEFINE most == Smaller(Len(findings), MaxDescribed)
<1>1. Len(findings) \in Nat /\ \A n \in 1 .. Len(findings) : findings[n] \in FindingRecords
  BY LenProperties
<1>2. most \in Nat /\ most <= Len(findings)
  BY <1>1, EvaluatorAssumption DEF Smaller
<1>3. \A n \in 1 .. most : findings[n] \in FindingRecords
  BY <1>1, <1>2
<1> HIDE DEF most
<1>4. SubSeq(findings, 1, most) \in Seq(FindingRecords)
  BY <1>2, <1>3, SubSeqProperties
<1> QED
  BY <1>4 DEF Described, most

\* Before its payload's own context, an input has every field.
LEMMA DefaultIs ==
    ASSUME NEW p, NEW default, default = ToolInput(p) \/ default = MessageInput(p)
    PROVE  /\ InputFields \subseteq DOMAIN default
           /\ default["reflection"] \in ReflectionRecords
<1> DEFINE tool    == [sideEffect |-> p.writes, writes |-> p.writes, discloses |-> FALSE,
                       crosses |-> p.outside, granted |-> {}, approvals |-> {},
                       routing |-> p.routing]
           message == [sideEffect |-> TRUE, writes |-> TRUE, discloses |-> TRUE, crosses |-> TRUE,
                       granted |-> p.granted, approvals |-> p.approvals, routing |-> TRUE]
           blank   == BlankInput(p)
           Own     == {"sideEffect", "writes", "discloses", "crosses", "granted", "approvals",
                       "routing"}
<1>1. DOMAIN tool = Own /\ DOMAIN message = Own
  OBVIOUS
<1>2. InputFields \subseteq DOMAIN blank \cup Own
  BY DEF InputFields, BlankInput
<1>3. "reflection" \in DOMAIN blank \ Own /\ blank["reflection"] \in ReflectionRecords
  BY DEF BlankInput, ReflectionRecords
<1> HIDE DEF tool, message, blank, Own
<1>4. default = Merged(blank, tool) \/ default = Merged(blank, message)
  BY DEF ToolInput, MessageInput, tool, message, blank
<1>5. /\ DOMAIN default = DOMAIN blank \cup Own
      /\ \A field \in DOMAIN blank \ Own : default[field] = blank[field]
  <2>1. CASE default = Merged(blank, tool)
    BY <1>1, <2>1 DEF Merged
  <2>2. CASE default = Merged(blank, message)
    BY <1>1, <2>2 DEF Merged
  <2> QED
    BY <1>4, <2>1, <2>2
<1> QED
  BY <1>2, <1>3, <1>5

LEMMA InputIs ==
    ASSUME NEW f, f.payload \in Payloads, f.payload.valid, NEW look,
           NEW findings \in Seq(FindingRecords)
    PROVE  InputOK(InputFor(f, look, findings))
<1> DEFINE p       == f.payload
           default == IF look = "input" THEN ToolInput(p) ELSE MessageInput(p)
           own     == [findings |-> Described(findings)]
           described    == Merged(default, own)
           i       == Merged(described, p.patch)
<1>1. InputFor(f, look, findings) = i
  BY DEF InputFor, InputOf
<1>2. InputFields \subseteq DOMAIN default /\ default["reflection"] \in ReflectionRecords
  BY DefaultIs
<1>3. DOMAIN own = {"findings"} /\ own["findings"] \in Seq(FindingRecords)
  BY DescribedIs
<1>4. /\ "findings" \in DOMAIN p.patch => p.patch["findings"] \in Seq(FindingRecords)
      /\ "reflection" \in DOMAIN p.patch => p.patch["reflection"] \in ReflectionRecords
  BY PayloadAssumption
<1> HIDE DEF default, own, p
<1>5. /\ DOMAIN described = DOMAIN default \cup {"findings"}
      /\ described["findings"] = own["findings"] /\ described["reflection"] = default["reflection"]
  <2>1. PICK merged : merged = Merged(default, own)
    OBVIOUS
  <2>2. "reflection" \in DOMAIN default \ DOMAIN own /\ "findings" \in DOMAIN own
    BY <1>2, <1>3 DEF InputFields
  <2>3. /\ DOMAIN merged = DOMAIN default \cup DOMAIN own
        /\ \A field \in DOMAIN own : merged[field] = own[field]
        /\ \A field \in DOMAIN default \ DOMAIN own : merged[field] = default[field]
    BY <2>1 DEF Merged
  <2> QED
    BY <1>3, <2>1, <2>2, <2>3
<1> HIDE DEF described
<1>6. /\ DOMAIN i = DOMAIN described \cup DOMAIN p.patch /\ i = [field \in DOMAIN i |-> i[field]]
      /\ \A field \in DOMAIN p.patch : i[field] = p.patch[field]
      /\ \A field \in DOMAIN described \ DOMAIN p.patch : i[field] = described[field]
  <2>1. PICK merged : merged = Merged(described, p.patch)
    OBVIOUS
  <2>2. /\ DOMAIN merged = DOMAIN described \cup DOMAIN p.patch
        /\ merged = [field \in DOMAIN merged |-> merged[field]]
        /\ \A field \in DOMAIN p.patch : merged[field] = p.patch[field]
        /\ \A field \in DOMAIN described \ DOMAIN p.patch : merged[field] = described[field]
    BY <2>1 DEF Merged
  <2> QED
    BY <2>1, <2>2
<1> HIDE DEF i
<1>7. InputFields \subseteq DOMAIN i
  BY <1>2, <1>5, <1>6
<1>8. i["findings"] \in Seq(FindingRecords)
  BY <1>3, <1>4, <1>5, <1>6
<1>9. i["reflection"] \in ReflectionRecords
  BY <1>2, <1>4, <1>5, <1>6 DEF InputFields
<1> QED
  BY <1>1, <1>6, <1>7, <1>8, <1>9 DEF InputOK

LEMMA FoundIs ==
    ASSUME NEW s \in Scans, NEW f \in Found[s]
    PROVE  f.payload \in Payloads /\ f.findings \in Seq(FindingRecords)
<1>1. PICK p \in Payloads, up \in Up(s.judge) :
         f = [payload |-> p, findings |-> Scan(GuardOf(s.n), p.text, s.look, up)]
  BY DEF Found
<1>2. s.n \in Policies
  BY DEF Scans
<1>3. p.text \in Seq(Pieces)
  BY PayloadAssumption
<1> QED
  BY <1>1, <1>2, <1>3, ScanIs

LEMMA EveryScanSharpens == ASSUME NEW s \in Scans PROVE Sharpening[s]
<1>1. ASSUME NEW f \in Found[s], f.payload.valid
      PROVE  Sharpens(InputFor(f, s.look, f.findings))
  BY <1>1, FoundIs, InputIs, SharpensIs
<1> QED
  BY <1>1 DEF Sharpening

\* A guard's hard finding is seen, and the violation stays the guard's.
LEMMA EveryScanStands == ASSUME NEW s \in Scans PROVE Standing[s]
<1>1. ASSUME NEW f \in Found[s], NEW opinion \in Decided,
             \E finding \in ToSet(f.findings) : Hard(finding),
             Len(f.findings) <= MaxDescribed
      PROVE  Adjudicated("agent_guard_failed", ClassOf(f.findings), opinion)
                = "agent_guard_failed"
  <2>1. f.findings \in Seq(FindingRecords)
    BY FoundIs
  <2>2. PICK n \in DOMAIN f.findings : Hard(f.findings[n])
    BY <1>1 DEF ToSet
  <2> QED
    BY <1>1, <2>1, <2>2, HardFindingsStand
<1> QED
  BY <1>1 DEF Standing

LEMMA WeighedAreScans == ASSUME HooksInv PROVE Weighed \subseteq Scans
<1>1. setup \in Setups
  BY DEF HooksInv, HooksTypeOK
<1>2. ASSUME NEW c \in ToolCalls, call[c].at = "judging"
      PROVE  ScanBy(call[c].policy, "input") \in Scans
  <2>1. call[c].policy \in Policies
    BY <1>2 DEF HooksInv, CallsInv, ToldOK
  <2> QED
    BY <1>1, <2>1, ScanByIs DEF Looks
<1>3. ASSUME NEW m \in Sent, msg[m].at = "weighing"
      PROVE  ScanBy(msg[m].policy, "output") \in Scans
  <2>1. msg[m].policy \in Policies
    BY <1>3 DEF HooksInv, MessagesInv, MessageOK, Messages
  <2> QED
    BY <1>1, <2>1, ScanByIs DEF Looks
<1> QED
  BY <1>2, <1>3 DEF Weighed

\* For all guards, policies, packs of rules and payloads: one more finding
\* never makes the local evaluator's opinion (evaluateContextualInputLocal)
\* milder, where no question is asked; and a guard that blocks for a hard
\* finding is never overruled, whatever the evaluator answers.
THEOREM FindingsAreWeighedFairly == HooksSpec => []WeighedFairly
<1>1. HooksInv => WeighedFairly
  BY WeighedAreScans, EveryScanSharpens, EveryScanStands
     DEF WeighedFairly, FindingsOnlySharpen, HardStands
<1> QED
  BY <1>1, HooksInvariance, PTL
=============================================================================
