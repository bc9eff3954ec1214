-------------------------- MODULE GuardEscalation --------------------------
(***************************************************************************)
(* guard.execute (src/guard/index.ts, src/guard/escalation.ts) over the    *)
(* escalation manager (src/review-loop/manager.ts, waiter.ts): a guarded   *)
(* action runs, is refused, or is put before a reviewer; the call polls    *)
(* the control plane for the verdict.  Others may wait for the verdict of  *)
(* the same escalation through guard.waitForResolution: whoever comes      *)
(* second shares the polling loop of the first, with the timeout and the   *)
(* abort signal of the first.                                              *)
(*                                                                         *)
(* The control plane and its reviewers are external.  An escalation goes   *)
(* by the call it was created for.  Hooks and transports that can change   *)
(* nothing (their errors are swallowed) are left out.                      *)
(***************************************************************************)
EXTENDS GuardPolicy

CONSTANTS
    Calls,       \* calls of guard.execute
    Watchers,    \* calls of guard.waitForResolution, with options of their own
    NoCaller,    \* a value that is none of them
    NoCall,
    MaxRetries   \* errors of the resolver in a row that a wait survives

ASSUME GuardAssumption ==
    /\ Calls \cap Watchers = {}
    /\ NoCaller \notin Calls \cup Watchers
    /\ NoCall \notin Calls
    /\ MaxRetries \in Nat

VARIABLES
    stage,      \* where each caller is
    decision,   \* what the policy said of each call
    ran,        \* calls whose action was run
    outcome,    \* what each call came to
    review,     \* each escalation at the control plane
    wait,       \* inFlightWaits: the polling loop of each escalation
    watched,    \* the escalation each caller waits for
    told,       \* the resolution each caller was told
    aborted,    \* watchers whose AbortSignal has fired
    forbidden,  \* history: calls whose policy wants approval, or none at all
    certain     \* history: callers that asked with the verdict in and no answer
                \* of the control plane on its way

vars == << stage, decision, ran, outcome, review, wait, watched, told, aborted,
           forbidden, certain >>

Callers == Calls \cup Watchers

Verdicts == {"approved", "rejected", "expired"}   \* TERMINAL_STATUSES
Resolutions == Verdicts \cup {"timeout", "error"}

Stages == {"new", "create", "hook", "ask", "waiting", "told", "act", "ended"}
Decisions == {"none"} \cup GuardOutcomes
Outcomes == {"none", "value", "handled", "blocked", "timeout", "pending", "error"}

\* A loop pauses, before its first request too, has sent a request, or has an
\* answer coming with the status that was read.
Loops == [at : {"pause", "asked", "answered"}, read : {"none", "pending"} \cup Verdicts,
          retries : 0 .. MaxRetries, late : BOOLEAN, by : Callers]

NoLoop == [at |-> "none", read |-> "none", retries |-> 0, late |-> FALSE,
           by |-> NoCaller]

TypeOK ==
    /\ stage \in [Callers -> Stages]
    /\ decision \in [Calls -> Decisions]
    /\ ran \subseteq Calls
    /\ outcome \in [Calls -> Outcomes]
    /\ review \in [Calls -> {"none", "pending"} \cup Verdicts]
    /\ wait \in [Calls -> Loops \cup {NoLoop}]
    /\ watched \in [Callers -> Calls \cup {NoCall}]
    /\ told \in [Callers -> {"none"} \cup Resolutions]
    /\ aborted \subseteq Watchers
    /\ forbidden \subseteq Calls
    /\ certain \subseteq Callers

Init ==
    /\ stage = [c \in Callers |-> "new"]
    /\ decision = [c \in Calls |-> "none"]
    /\ ran = {}
    /\ outcome = [c \in Calls |-> "none"]
    /\ review = [c \in Calls |-> "none"]
    /\ wait = [c \in Calls |-> NoLoop]
    /\ watched = [c \in Callers |-> NoCall]
    /\ told = [c \in Callers |-> "none"]
    /\ aborted = {}
    /\ forbidden = {}
    /\ certain = {}

\* A call moves on, or it ends.
Move(c, to) == stage' = [stage EXCEPT ![c] = to] /\ UNCHANGED outcome

End(c, o) ==
    /\ stage' = [stage EXCEPT ![c] = "ended"]
    /\ outcome' = [outcome EXCEPT ![c] = o]

\* With an onBlock handler its value is returned, or what it throws is thrown;
\* without one the call throws.
Refuse(c, o) == \E result \in {"handled", "error", o} : End(c, result)

----------------------------------------------------------------------------
\* guard.execute.

\* check() judges an input by the policy in force, or its provider, or a pattern
\* of the policy, throws.
Check(c) ==
    /\ stage[c] = "new"
    /\ \/ /\ End(c, "error")
          /\ UNCHANGED << decision, forbidden >>
       \/ \E q \in Questions :
            LET d == EvaluateGuardDecision(q.policy, q.input)
            IN  /\ decision' = [decision EXCEPT ![c] = d]
                /\ forbidden' = IF Forbidden(q.policy, q.input)
                                THEN forbidden \cup {c} ELSE forbidden
                /\ \/ d \in {"allow", "redact"} /\ Move(c, "act")
                   \/ d = "block" /\ Refuse(c, "blocked")
                   \/ d = "escalate" /\ (Move(c, "create") \/ End(c, "blocked"))
    /\ UNCHANGED << ran, review, wait, watched, told, aborted, certain >>

\* requestEscalation: the escalation is created, or the call fails, perhaps
\* with an escalation left behind that nobody waits for.
Create(c) ==
    /\ stage[c] = "create"
    /\ \/ /\ review' = [review EXCEPT ![c] = "pending"]
          /\ Move(c, "hook") \/ End(c, "error")
       \/ /\ End(c, "error")
          /\ UNCHANGED review
    /\ UNCHANGED << decision, ran, wait, watched, told, aborted, forbidden,
                    certain >>

\* onEscalationRequested may throw.  Without waitForEscalation the call returns
\* here, and its action never runs.
Requested(c) ==
    /\ stage[c] = "hook"
    /\ End(c, "error") \/ End(c, "pending") \/ Move(c, "ask")
    /\ UNCHANGED << decision, ran, review, wait, watched, told, aborted, forbidden,
                    certain >>

\* Mutant: whatever is not a rejection lets the action run.
ConcludeLeniently(c) ==
    /\ stage[c] = "told"
    /\ \/ /\ told[c] \notin {"rejected", "error"}
          /\ Move(c, "act")
       \/ /\ told[c] = "error"
          /\ End(c, "error")
       \/ /\ told[c] = "rejected"
          /\ Refuse(c, "blocked")
    /\ UNCHANGED << decision, ran, review, wait, watched, told, aborted, forbidden,
                    certain >>

\* The wait is over: only an approval leads to the action.
Conclude(c) ==
    /\ stage[c] = "told"
    /\ \/ /\ told[c] = "approved"
          /\ Move(c, "act")
       \/ /\ told[c] = "error"
          /\ End(c, "error")
       \/ /\ told[c] \in {"rejected", "expired"}
          /\ Refuse(c, "blocked")
       \/ /\ told[c] = "timeout"
          /\ Refuse(c, "timeout")
    /\ UNCHANGED << decision, ran, review, wait, watched, told, aborted, forbidden,
                    certain >>

\* Mutant: an action that throws is tried again.
ActUntilDone(c) ==
    /\ stage[c] = "act"
    /\ \/ /\ ran' = ran \cup {c}
          /\ End(c, "value") \/ UNCHANGED << stage, outcome >>
       \/ /\ decision[c] = "redact"
          /\ End(c, "error")
          /\ UNCHANGED ran
    /\ UNCHANGED << decision, review, wait, watched, told, aborted, forbidden,
                    certain >>

\* The action runs; whatever it throws is the call's error, after an approval as
\* a GuardEscalationError.  onRedactInput may throw before it.
Act(c) ==
    /\ stage[c] = "act"
    /\ \/ /\ ran' = ran \cup {c}
          /\ End(c, "value") \/ End(c, "error")
       \/ /\ decision[c] = "redact"
          /\ End(c, "error")
          /\ UNCHANGED ran
    /\ UNCHANGED << decision, review, wait, watched, told, aborted, forbidden,
                    certain >>

----------------------------------------------------------------------------
\* The polling loop of an escalation.

\* waitForResolution: share the loop of the escalation or begin one.
Ask(w, c) ==
    /\ \/ w \in Calls /\ w = c /\ stage[w] = "ask"
       \/ w \in Watchers /\ stage[w] = "new"
    /\ wait' = IF wait[c] # NoLoop THEN wait
               ELSE [wait EXCEPT ![c] = [NoLoop EXCEPT !.at = "pause", !.by = w]]
    /\ watched' = [watched EXCEPT ![w] = c]
    /\ certain' = IF review[c] \in Verdicts /\ wait[c].at \in {"none", "pause"}
                  THEN certain \cup {w} ELSE certain
    /\ Move(w, "waiting")
    /\ UNCHANGED << decision, ran, review, told, aborted, forbidden >>

\* The loop ends: all who share it are told, and it is forgotten.
Settle(c, resolution) ==
    LET sharers == {w \in Callers : stage[w] = "waiting" /\ watched[w] = c}
    IN  /\ told' = [w \in Callers |-> IF w \in sharers THEN resolution ELSE told[w]]
        /\ stage' = [w \in Callers |-> IF w \notin sharers THEN stage[w]
                                       ELSE IF w \in Calls THEN "told" ELSE "ended"]
        /\ wait' = [wait EXCEPT ![c] = NoLoop]

\* The loop goes on.
Loop(c, l) == wait' = [wait EXCEPT ![c] = l] /\ UNCHANGED << stage, told >>

\* The top of the loop: the signal of whoever began it ends it for all.
Wake(c) ==
    /\ wait[c].at = "pause"
    /\ IF wait[c].by \in aborted
       THEN Settle(c, "error")
       ELSE Loop(c, [wait[c] EXCEPT !.at = "asked"])
    /\ UNCHANGED << decision, ran, outcome, review, watched, aborted, forbidden,
                    certain >>

\* The control plane reads the escalation's status.
Read(c) ==
    /\ wait[c].at = "asked"
    /\ Loop(c, [wait[c] EXCEPT !.at = "answered", !.read = review[c]])
    /\ UNCHANGED << decision, ran, outcome, review, watched, aborted, forbidden,
                    certain >>

\* Mutant: the deadline is looked at before the status.
AnswerLate(c) ==
    /\ wait[c].at = "answered"
    /\ IF wait[c].late
       THEN Settle(c, "timeout")
       ELSE IF wait[c].read \in Verdicts
            THEN Settle(c, wait[c].read)
            ELSE Loop(c, [wait[c] EXCEPT !.at = "pause", !.read = "none", !.retries = 0])
    /\ UNCHANGED << decision, ran, outcome, review, watched, aborted, forbidden,
                    certain >>

\* Mutant: a wait past its deadline reports the escalation as expired.
AnswerExpired(c) ==
    /\ wait[c].at = "answered"
    /\ IF wait[c].read \in Verdicts
       THEN Settle(c, wait[c].read)
       ELSE IF wait[c].late
            THEN Settle(c, "expired")
            ELSE Loop(c, [wait[c] EXCEPT !.at = "pause", !.read = "none", !.retries = 0])
    /\ UNCHANGED << decision, ran, outcome, review, watched, aborted, forbidden,
                    certain >>

\* The status arrives: a verdict ends the loop, any other one ends it only past
\* the deadline.
Answer(c) ==
    /\ wait[c].at = "answered"
    /\ IF wait[c].read \in Verdicts
       THEN Settle(c, wait[c].read)
       ELSE IF wait[c].late
            THEN Settle(c, "timeout")
            ELSE Loop(c, [wait[c] EXCEPT !.at = "pause", !.read = "none", !.retries = 0])
    /\ UNCHANGED << decision, ran, outcome, review, watched, aborted, forbidden,
                    certain >>

\* Mutant: errors in a row are not counted.
GetFailsUncounted(c) ==
    /\ wait[c].at \in {"asked", "answered"}
    /\ Loop(c, [wait[c] EXCEPT !.at = "pause", !.read = "none"])
    /\ UNCHANGED << decision, ran, outcome, review, watched, aborted, forbidden,
                    certain >>

\* Mutant: the loop survives one error more.
GetFailsOneMore(c) ==
    /\ wait[c].at \in {"asked", "answered"}
    /\ IF wait[c].retries > MaxRetries
       THEN Settle(c, "error")
       ELSE Loop(c, [wait[c] EXCEPT !.at = "pause", !.read = "none", !.retries = @ + 1])
    /\ UNCHANGED << decision, ran, outcome, review, watched, aborted, forbidden,
                    certain >>

\* The request fails or its answer is lost; this branch of the loop does not look
\* at the deadline, only at the number of errors in a row.
GetFails(c) ==
    /\ wait[c].at \in {"asked", "answered"}
    /\ IF wait[c].retries = MaxRetries
       THEN Settle(c, "error")
       ELSE Loop(c, [wait[c] EXCEPT !.at = "pause", !.read = "none", !.retries = @ + 1])
    /\ UNCHANGED << decision, ran, outcome, review, watched, aborted, forbidden,
                    certain >>

----------------------------------------------------------------------------
\* The environment.

\* The timeout of the loop's first caller runs out.
Overdue(c) ==
    /\ wait[c] # NoLoop /\ ~wait[c].late
    /\ Loop(c, [wait[c] EXCEPT !.late = TRUE])
    /\ UNCHANGED << decision, ran, outcome, review, watched, aborted, forbidden,
                    certain >>

\* A reviewer decides, or the escalation expires at the control plane.
Decide(c) ==
    /\ review[c] = "pending"
    /\ \E v \in Verdicts : review' = [review EXCEPT ![c] = v]
    /\ UNCHANGED << stage, decision, ran, outcome, wait, watched, told, aborted, forbidden,
                    certain >>

Abort(w) ==
    /\ w \notin aborted
    /\ aborted' = aborted \cup {w}
    /\ UNCHANGED << stage, decision, ran, outcome, review, wait, watched, told, forbidden,
                    certain >>

Execute(c) == Check(c) \/ Create(c) \/ Requested(c) \/ Conclude(c) \/ Act(c)
Poll(c) == Wake(c) \/ Read(c) \/ Answer(c) \/ GetFails(c)

Next ==
    \/ \E c \in Calls : Execute(c) \/ Poll(c) \/ Overdue(c) \/ Decide(c)
    \/ \E w \in Callers, c \in Calls : Ask(w, c)
    \/ \E w \in Watchers : Abort(w)

\* Timers fire and requests to the control plane settle; a reviewer need not act.
Fairness ==
    \A c \in Calls :
        /\ WF_vars(Execute(c)) /\ WF_vars(Ask(c, c))
        /\ WF_vars(Poll(c)) /\ WF_vars(Overdue(c))

Spec == Init /\ [][Next]_vars /\ Fairness

----------------------------------------------------------------------------
\* Properties.

\* An action that its policy denies, escalates or refuses by a rule runs only when
\* the reviewer of its own escalation approved it and the call learnt of that:
\* never after a timeout, an error or another's wait, even if an approval comes
\* later, and not because there is something to redact.
RunsOnlyCleared ==
    \A c \in ran :
        \/ decision[c] \in {"allow", "redact"} /\ c \notin forbidden
        \/ decision[c] = "escalate" /\ review[c] = "approved" /\ told[c] = "approved"

\* All who are told a verdict of an escalation are told the one the reviewer
\* gave, in whichever loop they shared and however late they came.
VerdictsAgree ==
    \A w \in Callers : told[w] \in Verdicts => told[w] = review[watched[w]]

\* A caller that asks when the verdict is in, and shares no request from before
\* it, is not told that the wait timed out, however short the timeout is: the
\* status is looked at before the deadline, and an ended loop is not shared.
VerdictNotMissed == \A w \in certain : told[w] # "timeout"

\* Whoever waits is told something in the end, although no reviewer may ever
\* decide and errors never look at the deadline.
EveryWaitEnds == \A w \in Callers : stage[w] = "waiting" ~> told[w] # "none"

\* What a call has come to, for those who know nothing of its awaits.
Phase(c) ==
    CASE stage[c] = "new" -> "open"
      [] stage[c] = "ended" -> "over"
      [] stage[c] = "act" /\ decision[c] # "escalate" -> "cleared"
      [] OTHER -> "put"

\* Loops that share, poll, retry and time out keep the promise of Approval: one
\* final verdict, heard by all who wait at once; no action runs twice, after its
\* call is over, or before the call itself heard of its approval.
Approvals == INSTANCE Approval WITH
    phase <- [c \in Calls |-> Phase(c)],
    verdict <- review,
    waits <- [w \in Callers |-> IF stage[w] = "waiting" THEN watched[w] ELSE NoCall],
    heard <- [w \in Callers |->
                 IF told[w] \in Verdicts \cup {"none"} THEN told[w] ELSE "nothing"]

KeepsApprovals == Approvals!Spec

\* Only cleared actions run, and whoever waits on a verdict gets that verdict, the
\* same as the others.
GuardHolds == TypeOK /\ RunsOnlyCleared /\ VerdictsAgree /\ VerdictNotMissed
============================================================================
