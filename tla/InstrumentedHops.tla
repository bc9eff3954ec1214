--------------------------- MODULE InstrumentedHops ---------------------------
(***************************************************************************)
(* Hops wrapped by the decorators of src/src/instrumentation/index.ts:     *)
(* agents, orchestrators, and the hops that go through wrapNodeFunction    *)
(* (gateways, servers, tools, middleware, skills).                         *)
(*                                                                         *)
(* A hop calls others while its function runs, several at once if it       *)
(* likes, and awaits them.  The hops of one request share an asynchronous  *)
(* context: the run, and one mutable cause that every hop may read and     *)
(* write between its awaits.  Each hop asks the policy what to make of its *)
(* result or error, may escalate a denial, marks the error it throws, and  *)
(* writes one record; a failed append is swallowed.                        *)
(*                                                                         *)
(* A reason found in the parameters weighs as one found in the outcome,    *)
(* and an outcome has at most one.  The policy is fetched through the      *)
(* manager that PolicyResolution models: here it is there or not.          *)
(***************************************************************************)
EXTENDS Naturals, FiniteSets

CONSTANTS
    Hops,      \* the hops called
    Setups,    \* what may be called how: see SetupAssumption
    Listed,    \* the reasons that deny_on and escalate_on list
    Unlisted,  \* other reasons
    None,      \* no hop, no reason, no cause
    Outside    \* a cause given by whoever sent the request

Kinds == {"agent", "orchestrator", "node"}
Options == [enabled : BOOLEAN, mode : {"observe", "enforce"},
            strategy : {"deny_on_match", "deny_on_any"}, ownList : BOOLEAN]
Reasons == Listed \cup Unlisted

\* caller[h] is the hop that calls h, None when h starts a request; given holds
\* the causes a call may bring, ownRuns whether it may bring a run id.
ASSUME SetupAssumption ==
    \A s \in Setups : /\ s.caller \in [Hops -> Hops \cup {None}]
                      /\ s.kind \in [Hops -> Kinds]
                      /\ s.option \in [Hops -> Options]
                      /\ s.given \subseteq {None, Outside}
                      /\ s.ownRuns \subseteq BOOLEAN
ASSUME NamesAssumption ==
    /\ None \notin Hops \cup Reasons \cup {"allow", "deny"}
    /\ Outside \notin Hops \cup {None}
    /\ Listed \cap Unlisted = {}

VARIABLES
    setup,   \* the call tree, the kinds and the enforcement options
    hop,     \* hop[h]: the one call of h
    runs,    \* runs[h]: the run of the scope that h opened
    causes,  \* causes[h]: the cause in the store that h opened
    made     \* made[h]: escalations created for what first went wrong in h

vars == <<setup, hop, runs, causes, made>>

\* What a function threw: the hop that threw it first, whether properties can
\* be set on it, whether it says that a policy denied, the reason it names,
\* whether a hop has dealt with it, and whether it names an escalation.
NoError == [from |-> None, object |-> TRUE, denied |-> FALSE, reason |-> None,
            marked |-> FALSE, escalated |-> FALSE]
NewHop == [at |-> "idle", store |-> None, scope |-> None, run |-> None,
           cause |-> None, passed |-> None, disturbed |-> FALSE,
           reason |-> None, error |-> NoError, decision |-> None]

Init ==
    /\ setup \in Setups
    /\ hop = [h \in Hops |-> NewHop]
    /\ runs = [h \in Hops |-> None]
    /\ causes = [h \in Hops |-> None]
    /\ made = [h \in Hops |-> 0]

Children(h) == {k \in Hops : setup.caller[k] = h}
Ended(h) == hop[h].at \in {"returned", "threw", "refused"}

----------------------------------------------------------------------------
(***************************************************************************)
(* The asynchronous context.  The run scope is opened by the first hop of  *)
(* a request; the store of the cause by the first one that is no agent.    *)
(* What is called inside inherits both.                                    *)
(***************************************************************************)
ScopeOf(h) == LET c == setup.caller[h] IN IF c = None THEN h ELSE hop[c].scope

\* Mutant: one store for the process.
StoreOfProcess(h) == CHOOSE x \in Hops : TRUE

StoreOf(h) ==
    LET c == setup.caller[h]
        inherited == IF c = None THEN None ELSE hop[c].store
    IN  IF inherited # None THEN inherited
        ELSE IF setup.kind[h] = "agent" THEN None ELSE h

\* A hop's own run id wins; else the scope's; else one is generated.
RunOf(h, given) ==
    IF given \/ runs[ScopeOf(h)] = None THEN h ELSE runs[ScopeOf(h)]

\* An orchestrator that is given no cause is its own.
CauseFor(h, given) == IF setup.kind[h] = "orchestrator" /\ given = None THEN h ELSE given

\* Mutant: an orchestrator's own cause does not reach the store.
SeedOnlyGiven(h, given) == given

\* What a hop writes into the store when it is called, None for nothing.
Seed(h, given) == IF setup.kind[h] = "agent" THEN None ELSE CauseFor(h, given)

\* By writing the cause of a store, h disturbs the hops that have read it
\* before an await and will read it again after.
Disturbed(h, s, written) ==
    [k \in Hops |->
        IF written /\ k # h /\ hop[k].at = "entered" /\ hop[k].store = s
        THEN [hop[k] EXCEPT !.disturbed = TRUE] ELSE hop[k]]

----------------------------------------------------------------------------
(***************************************************************************)
(* A call, up to its first await: the hierarchy of the tenant.             *)
(***************************************************************************)
Entered(h, given, ownRun) ==
    LET s == StoreOf(h)
    IN  [NewHop EXCEPT
            !.at = "entered", !.store = s, !.scope = ScopeOf(h), !.run = RunOf(h, ownRun),
            !.cause = CASE setup.kind[h] = "node" -> IF given # None THEN given ELSE causes[s]
                        [] setup.kind[h] = "agent" -> h
                        [] OTHER -> None,
            !.passed = CASE setup.kind[h] = "orchestrator" -> CauseFor(h, given)
                         [] setup.kind[h] = "agent" -> h
                         [] OTHER -> None]

Callable(h) ==
    /\ hop[h].at = "idle"
    /\ setup.caller[h] # None => hop[setup.caller[h]].at = "running"

\* A scope keeps the first run it is given.
OpenRun(h, ownRun) ==
    runs' = [runs EXCEPT ![ScopeOf(h)] = IF @ = None THEN RunOf(h, ownRun) ELSE @]

\* A hop is called with a cause of its own or without, with a run id of its
\* own or without.
Enter(h, given, ownRun) ==
    LET s == StoreOf(h)
        seed == Seed(h, given)
        writes == seed # None
    IN  /\ Callable(h) /\ OpenRun(h, ownRun)
        /\ hop' = [Disturbed(h, s, writes) EXCEPT ![h] = Entered(h, given, ownRun)]
        /\ causes' = IF writes THEN [causes EXCEPT ![s] = seed] ELSE causes
        /\ UNCHANGED <<setup, made>>

\* The parameters of an agent or an orchestrator name another node or another
\* cart, as those of its caller would: nothing is seeded, nothing recorded.
RefuseParameters(h, ownRun) ==
    /\ Callable(h) /\ OpenRun(h, ownRun) /\ setup.kind[h] # "node"
    /\ hop' = [hop EXCEPT ![h] = [NewHop EXCEPT
                  !.at = "refused", !.scope = ScopeOf(h), !.run = RunOf(h, ownRun),
                  !.error = [NoError EXCEPT !.from = h]]]
    /\ UNCHANGED <<setup, causes, made>>

\* The hierarchy cannot be resolved, or a node's parameters name another node:
\* the call throws outside the try, and leaves no record.
RefuseCall(h) ==
    /\ hop[h].at = "entered"
    /\ hop' = [hop EXCEPT ![h].at = "refused", ![h].error = [NoError EXCEPT !.from = h]]
    /\ UNCHANGED <<setup, runs, causes, made>>

\* The hierarchy is there: a node takes the cause its manager passes on from
\* the store as it is now, an orchestrator the cause it records.
Resolve(h) ==
    /\ hop[h].at = "entered"
    /\ hop' = [hop EXCEPT
                 ![h].at = "running",
                 ![h].passed = IF setup.kind[h] = "node" THEN causes[hop[h].store] ELSE @,
                 ![h].cause = IF setup.kind[h] = "orchestrator"
                              THEN causes[hop[h].store] ELSE @]
    /\ UNCHANGED <<setup, runs, causes, made>>

----------------------------------------------------------------------------
(***************************************************************************)
(* The function.  It ends when what it called has ended.                   *)
(***************************************************************************)
Awaited(h) == hop[h].at = "running" /\ \A k \in Children(h) : hop[k].at = "idle" \/ Ended(k)

\* A result with a trace and a span becomes the cause of what follows, except
\* that of an agent.
FnReturns(h, reason, ids) ==
    LET s == hop[h].store
        writes == ids /\ setup.kind[h] # "agent"
    IN  /\ Awaited(h)
        /\ hop' = [Disturbed(h, s, writes) EXCEPT ![h].at = "weighing", ![h].reason = reason]
        /\ causes' = IF writes THEN [causes EXCEPT ![s] = h] ELSE causes
        /\ UNCHANGED <<setup, runs, made>>

\* What a hop's function may throw: something new, or what a call of its threw.
Throwable(h) ==
    [from : {h}, object : BOOLEAN, denied : BOOLEAN, reason : Reasons \cup {None},
     marked : {FALSE}, escalated : {FALSE}]
    \cup {hop[k].error : k \in {k \in Children(h) : hop[k].at \in {"threw", "refused"}}}

\* Mutant: an error that says denied is taken for one already dealt with.
DealtWithIfDenied(e) == e.denied

DealtWith(e) == e.marked

\* A marked error passes through as it is; the record says allow.
FnThrows(h, e) ==
    /\ Awaited(h)
    /\ e \in Throwable(h) /\ (e.denied => e.object)
    /\ hop' = [hop EXCEPT ![h].at = IF DealtWith(e) THEN "threw" ELSE "weighing",
                          ![h].error = e, ![h].reason = e.reason,
                          ![h].decision = IF DealtWith(e) THEN "allow" ELSE None]
    /\ UNCHANGED <<setup, runs, causes, made>>

----------------------------------------------------------------------------
(***************************************************************************)
(* Enforcement.  A policy that cannot be fetched lists nothing, and nobody *)
(* can be asked: only a list in the decorator's options still denies.      *)
(***************************************************************************)
Lists(h, reached) == IF setup.option[h].ownList \/ reached THEN Listed ELSE {}

ShouldDeny(h, reached) ==
    /\ setup.option[h].enabled /\ setup.option[h].mode = "enforce" /\ hop[h].reason # None
    /\ setup.option[h].strategy = "deny_on_any" \/ hop[h].reason \in Lists(h, reached)

Denies(h, reached) == hop[h].error.denied \/ ShouldDeny(h, reached)

Escalates(h, reached) ==
    /\ setup.option[h].enabled /\ reached
    /\ ~hop[h].error.escalated /\ Denies(h, reached)
    /\ hop[h].reason \in Lists(h, reached)

\* Mutant: an error passes on unmarked.
LeaveUnmarked(h, reached, id) == hop[h].error

\* Mutant: the error is marked before the escalation is created.
MarkFirst(h, reached, id) ==
    IF setup.option[h].enabled /\ hop[h].reason # None /\ Denies(h, reached) /\ hop[h].error.object
    THEN [hop[h].error EXCEPT !.from = IF @ = None THEN h ELSE @, !.denied = TRUE,
                              !.reason = hop[h].reason, !.marked = TRUE]
    ELSE hop[h].error

\* Mutant: what cannot be marked is taken as marked.
MarkStrings(h, reached, id) ==
    IF setup.option[h].enabled /\ hop[h].reason # None /\ Denies(h, reached)
    THEN [hop[h].error EXCEPT !.from = IF @ = None THEN h ELSE @, !.denied = TRUE,
                              !.reason = hop[h].reason, !.marked = TRUE,
                              !.escalated = @ \/ id]
    ELSE hop[h].error

\* What the hop throws: a denied outcome is given an error if it has none, and
\* its error names the reason and the escalation.  A string takes no properties.
Mark(h, reached, id) ==
    IF setup.option[h].enabled /\ hop[h].reason # None /\ Denies(h, reached) /\ hop[h].error.object
    THEN [hop[h].error EXCEPT !.from = IF @ = None THEN h ELSE @, !.denied = TRUE,
                              !.reason = hop[h].reason, !.marked = TRUE,
                              !.escalated = @ \/ id]
    ELSE hop[h].error

\* The policy is reached or not, and the escalation is created or not.
Weigh(h, reached, created) ==
    LET id == created /\ Escalates(h, reached)
        e == Mark(h, reached, id)
        origin == IF e.from = None THEN h ELSE e.from
    IN  /\ hop[h].at = "weighing"
        /\ hop' = [hop EXCEPT ![h].at = IF e = NoError THEN "returned" ELSE "threw",
                              ![h].error = e,
                              ![h].decision = IF Denies(h, reached) THEN "deny" ELSE "allow"]
        /\ made' = IF id THEN [made EXCEPT ![origin] = @ + 1] ELSE made
        /\ UNCHANGED <<setup, runs, causes>>

Next ==
    \E h \in Hops :
        \/ \E given \in setup.given, ownRun \in setup.ownRuns : Enter(h, given, ownRun)
        \/ \E ownRun \in setup.ownRuns : RefuseParameters(h, ownRun)
        \/ RefuseCall(h) \/ Resolve(h)
        \/ \E reason \in Reasons \cup {None}, ids \in BOOLEAN : FnReturns(h, reason, ids)
        \/ \E e \in Throwable(h) : FnThrows(h, e)
        \/ \E reached \in BOOLEAN, created \in BOOLEAN : Weigh(h, reached, created)

Spec == Init /\ [][Next]_vars
----------------------------------------------------------------------------
(***************************************************************************)
(* What is checked.                                                        *)
(***************************************************************************)
\* Types, and: a hop that wrote a record has weighed its outcome or passed on
\* an error that another hop has dealt with; one that was refused has not.
TypeOK ==
    /\ setup \in Setups
    /\ \A h \in Hops :
         /\ hop[h].at \in {"idle", "entered", "running", "weighing"} \/ Ended(h)
         /\ hop[h].at \in {"returned", "threw"} <=> hop[h].decision \in {"allow", "deny"}
         /\ {hop[h].store, hop[h].scope, hop[h].run} \subseteq Hops \cup {None}
         /\ {hop[h].cause, hop[h].passed, causes[h]} \subseteq Hops \cup {None, Outside}
         /\ hop[h].reason \in Reasons \cup {None}
         /\ hop[h].error.marked => hop[h].error.denied /\ hop[h].error.object
         /\ hop[h].error.escalated => hop[h].error.marked
    /\ runs \in [Hops -> Hops \cup {None}]
    /\ made \in [Hops -> Nat]

\* index.ts:1999 (applyDenialMetadata) against every catch of the decorators:
\* what goes wrong once is put before a human at most once, however many hops
\* its error passes through and however each of them enforces, unless what
\* was thrown is a string, which cannot be marked.
Strings == {e \in {hop[h].error : h \in Hops} : ~e.object}
OneEscalation == \A h \in Hops : made[h] > 1 => \E e \in Strings : e.from = h

\* index.ts:2162: the escalation that was created is named by the error that
\* the caller sees, and by every hop that passes that error on.
EscalationIsNamed ==
    \A h \in Hops : hop[h].at = "threw" /\ hop[h].error.object /\ hop[h].error.marked
        /\ made[hop[h].error.from] > 0 => hop[h].error.escalated

\* index.ts:2308: an error that says a policy denied has been recorded as a
\* denial by one of the hops it came through.
DeniedIsRecorded ==
    \A h \in Hops : hop[h].at = "threw" /\ hop[h].error.denied =>
        \E k \in Hops : /\ hop[k].decision = "deny" /\ hop[k].scope = hop[h].scope
                        /\ hop[k].error.from = hop[h].error.from

\* index.ts:919 (causeContext): whatever hops of several requests interleave,
\* a hop records, and passes on, a cause and a run of its own request.
CauseOfSameRequest ==
    \A h \in Hops : \A x \in {hop[h].cause, hop[h].passed, hop[h].run} \ {None, Outside} :
        hop[x].scope = hop[h].scope

\* index.ts:2693: the cause a hop hands to what it calls is the one in its own
\* record, although one is taken before an await and the other after; unless
\* a hop of the same request wrote the store meanwhile.
OneCausePerHop ==
    \A h \in Hops : hop[h].at = "running" /\ ~hop[h].disturbed =>
        hop[h].cause = hop[h].passed

\* A denial is dealt with once for all the hops it passes through: one record,
\* one escalation, named to everyone.
DealtWithOnce == TypeOK /\ OneEscalation /\ EscalationIsNamed /\ DeniedIsRecorded

\* The causes that hops record and pass on are those of their own request, and
\* one and the same.
CausesKept == CauseOfSameRequest /\ OneCausePerHop
=============================================================================
