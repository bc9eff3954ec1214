--------------------------- MODULE GovernedAction ---------------------------
(***************************************************************************)
(* An action put under review: executeGovernedAction of                    *)
(* src/src/governance/client.ts, its twin executeReviewedAction of         *)
(* src/src/review-loop/client.ts, and the NDJSON stores behind the control *)
(* plane, src/src/governance/store.ts and src/src/review-loop/store.ts.    *)
(*                                                                         *)
(* A call submits its action, waits for a human when the plane asks for    *)
(* one, runs the action or not, and reports what it did.  Every arrow is   *)
(* one HTTP request, sent once: it may be served, or lost on its way, or   *)
(* served with its answer lost, or served by a process that dies in the    *)
(* middle of an append and leaves a torn line.  One step here is one       *)
(* request, or one stretch of the call between two awaits.                 *)
(*                                                                         *)
(* The plane's own routes are not in the repository: Submit, Resolve and   *)
(* Answer do what the store offers them, any decision being possible.      *)
(***************************************************************************)
EXTENDS Naturals, Sequences, FiniteSets, SequencesExt

CONSTANTS
    Calls,           \* the calls made
    KeyOf,           \* KeyOf[c]: the review key of a call's submission
    Waits,           \* the calls made with waitForResolution
    Polls,           \* bound: polls before the deadline of a wait
    MaxResolutions,  \* bound: resolutions people record
    Tearable,        \* bound: the files a cut append may spoil
    MaxTears         \* bound: appends that are cut short

Files == {"submissions", "decisions", "resolutions", "executions"}

ASSUME KeysAssumption == Waits \subseteq Calls /\ DOMAIN KeyOf = Calls
ASSUME BoundsAssumption == {Polls, MaxResolutions, MaxTears} \subseteq Nat
ASSUME FilesAssumption == Tearable \subseteq Files

VARIABLES
    client,    \* which of the two clients, and stores, is at work
    subs,      \* governance-submissions: the calls submitted
    decs,      \* governance-decisions: decs[c], the row of a call
    resols,    \* human-resolutions, in the order they were appended
    answers,   \* calls whose clarification was answered
    execs,     \* execution-records: execs[c], those of a call, in order
    torn,      \* files that end in, or hold, a line that is not JSON
    pc,        \* pc[c]: where the call is
    left,      \* left[c]: polls before its deadline
    payload,   \* payload[c]: effectivePayload
    ran,       \* ran[c]: what the action did, and with which payload
    lost       \* lost[c]: a report of the call did not come back

vars == <<client, subs, decs, resols, answers, execs, torn,
          pc, left, payload, ran, lost>>
store == <<client, subs, decs, resols, answers, execs, torn>>

Payloads  == {"original", "edited"}
Decisions == {"allow", "deny", "escalate", "clarify"}
Verdicts  == {"approve", "reject", "edit", "ask_clarifying_question"}
Places    == {"idle", "waiting", "blocking", "running", "reporting", "failing",
              "returned", "threw"}
NotRun    == [payload |-> "none", how |-> "none"]

Ended(c) == pc[c] \in {"returned", "threw"}

(***************************************************************************)
(* The store.  Each kind of row has its file; a read parses the whole file *)
(* and throws on a bad line, and a row appended after a torn line becomes  *)
(* part of it.                                                             *)
(***************************************************************************)
Governed == client = "governance"

\* What only the governance plane says.
Sayings == IF Governed THEN {} ELSE {"clarify", "ask_clarifying_question"}

Readable(files) == files \cap torn = {}
Appended(file, rows, row) == IF file \in torn THEN rows ELSE Append(rows, row)

\* getLatestResolution: the last row for the submission.
ResolutionsOf(c) == {n \in DOMAIN resols : resols[n].call = c}
Latest(rows)     == resols[CHOOSE n \in rows : \A m \in rows : m <= n]

\* getLatestResolutionForEquivalentSubmission: the last row for any
\* submission with the same review key; a row of a submission that is not in
\* the file is not a match.
Equivalent(c) ==
    {n \in DOMAIN resols : resols[n].call \in subs /\ KeyOf[resols[n].call] = KeyOf[c]}

\* The two appends of a submission.
Submitted(c, d) ==
    /\ subs' = IF "submissions" \in torn THEN subs ELSE subs \cup {c}
    /\ decs' = IF "decisions" \in torn THEN decs ELSE [decs EXCEPT ![c] = d]

\* listPendingReviews: escalations without a resolution, questions without an
\* answer.
Pending ==
    {c \in Calls :
        \/ decs[c] = "escalate" /\ ResolutionsOf(c) = {}
        \/ decs[c] = "clarify"  /\ c \notin answers}

(***************************************************************************)
(* What the clients make of an answer.                                     *)
(***************************************************************************)
\* applyHumanResolutionPayload: an edit without an edited payload leaves the
\* submitted one.
PayloadUnder(r) == IF r.verdict = "edit" THEN r.payload ELSE "original"

\* Mutant: a governed call runs unless the human rejected it, as its twin does.
ReleasesUnlessRejected(c, r) == r.verdict # "reject"

Releases(c, r) ==
    IF Governed THEN r.verdict \in {"approve", "edit"} ELSE r.verdict # "reject"

\* The decisions a call waits on a human for.
Reviewable(c, d) == IF Governed THEN d # "deny" ELSE d = "escalate"

Init ==
    /\ client \in {"governance", "review_loop"}
    /\ subs = {} /\ decs = [c \in Calls |-> "none"]
    /\ resols = <<>> /\ execs = [c \in Calls |-> <<>>]
    /\ answers = {} /\ torn = {}
    /\ pc = [c \in Calls |-> "idle"]
    /\ left = [c \in Calls |-> Polls]
    /\ payload = [c \in Calls |-> "original"]
    /\ ran = [c \in Calls |-> NotRun]
    /\ lost = [c \in Calls |-> FALSE]

Goto(c, place) == pc' = [pc EXCEPT ![c] = place]

----------------------------------------------------------------------------
(***************************************************************************)
(* The call.                                                               *)
(***************************************************************************)
\* Where the answer of the plane sends a call.
AfterSubmit(c, decision, allowed) ==
    IF allowed THEN "running"
    ELSE IF Reviewable(c, decision) /\ c \in Waits THEN "waiting" ELSE "blocking"

\* submitSubmission, served: the plane looks for a resolution of an equivalent
\* submission and otherwise decides, and appends the submission and its
\* decision.  An earlier approval releases the call at once.
Submit(c, d) ==
    /\ pc[c] = "idle" /\ d \in Decisions \ Sayings
    /\ Readable({"submissions", "resolutions"})
    /\ Submitted(c, d)
    /\ LET known == d = "escalate" /\ Equivalent(c) # {}
           r     == Latest(Equivalent(c))
       IN  /\ payload' = [payload EXCEPT ![c] =
                             IF known THEN PayloadUnder(r) ELSE "original"]
           /\ Goto(c, AfterSubmit(c, d, d = "allow" \/ (known /\ Releases(c, r))))
    /\ UNCHANGED <<client, resols, answers, execs, torn, left, ran, lost>>

\* The request or its answer is lost, or the store cannot be read: the call
\* throws before it has an answer, whatever the plane recorded.
SubmitLost(c) ==
    /\ pc[c] = "idle"
    /\ Goto(c, "threw")
    /\ UNCHANGED <<store, left, payload, ran, lost>>

SubmitAnswerLost(c, d) ==
    /\ pc[c] = "idle" /\ d \in Decisions \ Sayings
    /\ Readable({"submissions", "resolutions"})
    /\ Submitted(c, d)
    /\ Goto(c, "threw")
    /\ UNCHANGED <<client, resols, answers, execs, torn, left, payload, ran, lost>>

\* Mutant: every poll sets a new deadline.
PollForever(c) ==
    /\ pc[c] = "waiting" /\ left[c] > 0
    /\ Readable({"resolutions"}) /\ ResolutionsOf(c) = {}
    /\ UNCHANGED vars

\* waitForHumanResolution: one poll.  The first resolution ends the wait,
\* whatever it says.
Poll(c) ==
    /\ pc[c] = "waiting" /\ left[c] > 0
    /\ Readable({"resolutions"})
    /\ IF ResolutionsOf(c) = {}
       THEN left' = [left EXCEPT ![c] = @ - 1] /\ UNCHANGED <<pc, payload>>
       ELSE LET r == Latest(ResolutionsOf(c))
            IN  /\ payload' = [payload EXCEPT ![c] = PayloadUnder(r)]
                /\ Goto(c, IF Releases(c, r) THEN "running" ELSE "blocking")
                /\ UNCHANGED left
    /\ UNCHANGED <<store, ran, lost>>

\* A poll that fails, on the wire or in the store, ends the call.
PollFails(c) ==
    /\ pc[c] = "waiting" /\ left[c] > 0
    /\ Goto(c, "threw")
    /\ UNCHANGED <<store, left, payload, ran, lost>>

Deadline(c) ==
    /\ pc[c] = "waiting" /\ left[c] = 0
    /\ Goto(c, "blocking")
    /\ UNCHANGED <<store, left, payload, ran, lost>>

\* options.execute, which may throw halfway.
Execute(c, how) ==
    /\ pc[c] = "running" /\ how \in {"done", "broke"}
    /\ ran' = [ran EXCEPT ![c] = [payload |-> payload[c], how |-> how]]
    /\ Goto(c, IF how = "done" THEN "reporting" ELSE "failing")
    /\ UNCHANGED <<store, left, payload, lost>>

\* summarizeResult throws: the value is dropped and the run reported as failed.
SummaryThrows(c) ==
    /\ pc[c] = "reporting"
    /\ lost' = [lost EXCEPT ![c] = TRUE]
    /\ Goto(c, "failing")
    /\ UNCHANGED <<store, left, payload, ran>>

\* Mutant: a call that timed out waiting reports a failure of the action.
ReportAsFailed(c) ==
    [executed |-> pc[c] = "reporting" \/ ~Governed,
     status |-> IF pc[c] = "reporting" THEN "succeeded" ELSE "failed"]

\* The record each report sends.
Report(c) ==
    [executed |-> pc[c] = "reporting" \/ (pc[c] = "failing" /\ ~Governed),
     status |-> CASE pc[c] = "blocking"  -> "blocked"
                  [] pc[c] = "reporting" -> "succeeded"
                  [] OTHER               -> "failed"]

Reporting == {"blocking", "reporting", "failing"}

\* reportExecution, served and confirmed.
Reports(c) ==
    /\ pc[c] \in Reporting
    /\ execs' = [execs EXCEPT ![c] = Appended("executions", @, Report(c))]
    /\ Goto(c, IF pc[c] = "failing" /\ Governed THEN "threw" ELSE "returned")
    /\ UNCHANGED <<client, subs, decs, resols, answers, torn, left, payload, ran, lost>>

\* It is lost, or only its answer is: the report of a success is then made
\* again as the report of a failure, any other one ends the call.
ReportLost(c, served) ==
    /\ pc[c] \in Reporting /\ served \in BOOLEAN
    /\ execs' = IF served THEN [execs EXCEPT ![c] = Appended("executions", @, Report(c))] ELSE execs
    /\ lost' = [lost EXCEPT ![c] = TRUE]
    /\ Goto(c, IF pc[c] = "reporting" THEN "failing" ELSE "threw")
    /\ UNCHANGED <<client, subs, decs, resols, answers, torn, left, payload, ran>>

----------------------------------------------------------------------------
(***************************************************************************)
(* People, and the store's host.                                           *)
(***************************************************************************)
\* resolveReview on something the list shows, or once more on something
\* already resolved.
Resolve(c, v, p) ==
    /\ c \in Pending \/ ResolutionsOf(c) # {}
    /\ Len(resols) < MaxResolutions
    /\ v \in Verdicts \ Sayings /\ p \in Payloads /\ (v = "edit" \/ p = "original")
    /\ resols' = Appended("resolutions", resols,
                          [call |-> c, verdict |-> v, payload |-> p])
    /\ UNCHANGED <<client, subs, decs, answers, execs, torn, pc, left, payload, ran, lost>>

AnswerClarification(c) ==
    /\ decs[c] = "clarify"
    /\ answers' = answers \cup {c}
    /\ UNCHANGED <<client, subs, decs, resols, execs, torn, pc, left, payload, ran, lost>>

\* The host dies in the middle of an append: the file ends in half a line.
Tear(file) ==
    /\ Cardinality(torn) < MaxTears /\ file \in Tearable
    /\ torn' = torn \cup {file}
    /\ UNCHANGED <<client, subs, decs, resols, answers, execs, pc, left, payload, ran, lost>>

Next ==
    \/ \E c \in Calls :
        \/ \E d \in Decisions : Submit(c, d) \/ SubmitAnswerLost(c, d)
        \/ SubmitLost(c)
        \/ Poll(c) \/ PollFails(c) \/ Deadline(c)
        \/ \E how \in {"done", "broke"} : Execute(c, how)
        \/ SummaryThrows(c)
        \/ Reports(c)
        \/ \E served \in BOOLEAN : ReportLost(c, served)
        \/ \E v \in Verdicts, p \in Payloads : Resolve(c, v, p)
        \/ AnswerClarification(c)
    \/ \E f \in Tearable : Tear(f)

\* Requests settle, one way or another (fetch gives up at last), timers fire
\* and options.execute settles: a call that can take its next step takes it.
\* Nothing owes it a failed poll while the file can be read.
Steps(c) ==
    \/ Poll(c) \/ Deadline(c)
    \/ PollFails(c) /\ ~Readable({"resolutions"})
    \/ \E how \in {"done", "broke"} : Execute(c, how)
    \/ SummaryThrows(c) \/ Reports(c) \/ \E served \in BOOLEAN : ReportLost(c, served)

Spec == Init /\ [][Next]_vars /\ \A c \in Calls : WF_vars(Steps(c))

----------------------------------------------------------------------------
(***************************************************************************)
(* What is checked.                                                        *)
(***************************************************************************)
\* Every variable holds a value of its kind.
TypeOK ==
    /\ subs \subseteq Calls
    /\ decs \in [Calls -> Decisions \cup {"none"}]
    /\ resols \in Seq([call : Calls, verdict : Verdicts, payload : Payloads])
    /\ execs \in [Calls ->
          Seq([executed : BOOLEAN, status : {"blocked", "succeeded", "failed"}])]
    /\ answers \subseteq Calls /\ torn \subseteq Files
    /\ pc \in [Calls -> Places]
    /\ left \in [Calls -> 0..Polls]
    /\ payload \in [Calls -> Payloads]
    /\ lost \in [Calls -> BOOLEAN]
    /\ ran \in [Calls -> {NotRun} \cup [payload : Payloads, how : {"done", "broke"}]]

\* An action ran only because the plane allowed that very submission, or
\* because a person approved or edited it or one with the same review key;
\* and it ran with the payload that person settled on, never with one
\* resolution's leave and another one's payload.
RunsAsDecided ==
    \A c \in Calls : ran[c] # NotRun =>
        \/ ran[c].payload = "original" /\ (decs[c] = "allow" \/ "decisions" \in torn)
        \/ \E r \in ToSet(resols) :
              /\ KeyOf[r.call] = KeyOf[c]
              /\ r.verdict \in {"approve", "edit"}
              /\ ran[c].payload = PayloadUnder(r)

\* The records of a call do not claim what did not happen: a record of an
\* execution has a run behind it, and an action recorded as blocked never
\* runs, not then and not later.
RecordsHonest ==
    \A c \in Calls : \A e \in ToSet(execs[c]) :
        /\ e.executed => ran[c] # NotRun
        /\ e.status = "blocked" => ran[c] = NotRun
        /\ e.status = "failed" => ran[c] # NotRun

\* A call that is over left at most two records, and its last one calls a
\* completed action failed only when the report of its success was not
\* confirmed or could not be written up.
ContradictedOnlyByLoss ==
    \A c \in Calls : LET rows == execs[c] IN
        /\ Len(rows) <= 2
        /\ (rows # <<>> /\ ran[c].how = "done" /\ Last(rows).status # "succeeded")
              => lost[c]

\* A call that waits for a person, because the plane's answer told it to, is on
\* the list people work from until a person settled it or answered its question,
\* as long as the list can be read.
WaitingIsListed ==
    \A c \in Calls :
        pc[c] = "waiting" /\ Readable(Files) /\ ResolutionsOf(c) = {} /\ c \notin answers
            => c \in Pending

\* Every call that was submitted comes to an end.
CallEnds == \A c \in Calls : pc[c] # "idle" ~> Ended(c)

\* The records tell what happened: of an execution, of its end, and of a call
\* that waits for a person.
RecordsHold == TypeOK /\ RecordsHonest /\ ContradictedOnlyByLoss /\ WaitingIsListed
=============================================================================
