-------------------------- MODULE PolicyResolution --------------------------
(***************************************************************************)
(* How a call comes by its policy: the control-plane policy manager        *)
(* (src/src/middleware/controlPlanePolicy.ts, over the client in           *)
(* adapters/controlPlaneClient.ts), with its cache and its requests in     *)
(* flight, and the two that use it: the wrapped tools of                   *)
(* middleware/securityMiddleware.ts, which share one current policy and    *)
(* one agent guard built from it, and the hybrid guard provider of         *)
(* src/src/guard/providers.ts, which keeps the last snapshot it read for   *)
(* the time the plane is away.                                             *)
(*                                                                         *)
(* Policies are their texts.  Time is kept as ages, in ticks: how long ago *)
(* a cached text arrived, and how long ago the plane served it.            *)
(***************************************************************************)
EXTENDS Naturals, FiniteSets

CONSTANTS
    Nodes,       \* the nodes that may have a policy of their own
    Base,        \* the base policy: node id null
    Texts,       \* the policies, "empty" among them
    FirstTexts,  \* bound: what the plane may hold for the nodes at the start
    Tools,       \* calls of wrapped tools
    Guards,      \* calls of a hybrid guard
    NodeOf,      \* NodeOf[c]: the node a call resolves its policy for
    TTL,         \* refreshTtlMs, in ticks
    MaxFlight,   \* bound: ticks a request may take
    MaxPublish   \* bound: policies published after the start

Calls == Tools \cup Guards
Empty == "empty"

ASSUME NodesAssumption ==
    /\ Base \in Nodes /\ Empty \in Texts /\ "none" \notin Texts
    /\ NodeOf \in [Calls -> Nodes]
ASSUME FirstAssumption == FirstTexts \subseteq [Nodes -> Texts]
ASSUME CallsDiffer == Tools \cap Guards = {}
ASSUME BoundsAssumption == {TTL, MaxFlight, MaxPublish} \subseteq Nat

VARIABLES
    published,   \* published[n]: the text the plane holds for n
    publishes,   \* how many were published so far
    up,          \* the plane answers
    precedence,  \* of the guard's providers
    cache,       \* the manager's cache, by key
    flight,      \* the manager's request in flight, by key
    lastRemote,  \* the guard's lastRemoteSnapshot
    current,     \* policyObj and currentPolicyHash of the middleware
    agentGuard,  \* the policy cachedAgentGuard was built from
    call         \* call[c]

vars == <<published, publishes, up, precedence, cache, flight,
          lastRemote, current, agentGuard, call>>
plane   == <<published, publishes, up, precedence>>
holders == <<lastRemote, current, agentGuard>>

None == "none"
Oldest == TTL + MaxFlight + 1            \* ages are not told apart beyond
Ages == 0..Oldest
Absent == [text |-> None, age |-> 0, served |-> 0]
Idle   == [stage |-> "idle", text |-> None, age |-> 0, served |-> 0]

\* A call: what it waits for, the text it was given and for which node, how
\* old that text was when it asked, and what it made of it.
Stages == {"new", "waiting", "answered", "refused", "ended", "failed"}
Sources == {None, "remote", "remote-cache", "local-fallback", "local"}
NewCall == [stage |-> "new", node |-> None, text |-> None, old |-> 0,
            source |-> None, judged |-> None, scanned |-> None]

Init ==
    /\ published \in FirstTexts /\ publishes = 0
    /\ up = TRUE
    /\ precedence \in {"remote-first", "local-first"}
    /\ cache = [n \in Nodes |-> Absent]
    /\ flight = [n \in Nodes |-> Idle]
    /\ lastRemote = None /\ current = None /\ agentGuard = None
    /\ call = [c \in Calls |-> NewCall]

----------------------------------------------------------------------------
(***************************************************************************)
(* The manager.                                                            *)
(***************************************************************************)
\* Mutant: the cache has one entry for a level, whatever the node.
CacheKeyOfLevel(n) == Base

CacheKey(n) == n

\* Mutant: an entry is good for one tick more than the time to live, and for
\* ever when that is zero.
FreshOrUnlimited(n) ==
    /\ cache[CacheKey(n)].text # None
    /\ TTL = 0 \/ cache[CacheKey(n)].age <= TTL

Fresh(n) == cache[CacheKey(n)].text # None /\ cache[CacheKey(n)].age < TTL

\* getCachedOrFetch: a fresh entry answers at once; otherwise the call joins
\* the request in flight, or sends one.  A call that asks a second time, for
\* the base policy, has been asking all along.
AskManager(c, n, old) ==
    IF Fresh(n)
    THEN /\ call' = [call EXCEPT ![c] = [NewCall EXCEPT
                        !.stage = "answered", !.node = n,
                        !.text = cache[CacheKey(n)].text,
                        !.old = cache[CacheKey(n)].served]]
         /\ UNCHANGED flight
    ELSE /\ call' = [call EXCEPT ![c] = [NewCall EXCEPT
                        !.stage = "waiting", !.node = n, !.old = flight[n].served]]
         /\ flight' = IF flight[n].stage = "idle"
                      THEN [flight EXCEPT ![n].stage = "validating"] ELSE flight

\* A guard whose precedence is local-first asks when it could not read its
\* local policy; reading it may fail at any time.
Ask(c) ==
    /\ call[c].stage = "new"
    /\ AskManager(c, NodeOf[c], 0)
    /\ UNCHANGED <<plane, cache, holders>>

\* validateKey answered, and the plane serves the policy: from here on the
\* text only travels.
Serve(n) ==
    /\ flight[n].stage = "validating" /\ up
    /\ flight' = [flight EXCEPT ![n] = [@ EXCEPT !.stage = "served",
                                                 !.text = published[n], !.served = 0]]
    /\ UNCHANGED <<plane, cache, holders, call>>

\* Mutant: who waits is found by the node of the call, not of the request.
WaitersOfNode(n) == {c \in Calls : call[c].stage = "waiting" /\ NodeOf[c] = n}

Waiters(n) == {c \in Calls : call[c].stage = "waiting" /\ call[c].node = n}

\* The text arrives: it is cached with the time of its arrival, the request is
\* forgotten, and everyone who waited has it.
Arrive(n) ==
    /\ flight[n].stage = "served"
    /\ cache' = [cache EXCEPT ![CacheKey(n)] =
                    [text |-> flight[n].text, age |-> 0, served |-> flight[n].served]]
    /\ flight' = [flight EXCEPT ![n] = Idle]
    /\ call' = [c \in Calls |-> IF c \in Waiters(n)
                                THEN [call[c] EXCEPT !.stage = "answered",
                                                     !.text = flight[n].text]
                                ELSE call[c]]
    /\ UNCHANGED <<plane, holders>>

\* Mutant: the failure is swallowed, and the callers read what there is.
BreakQuietly(n) ==
    /\ flight[n].stage \in {"validating", "served"} /\ ~up
    /\ flight' = [flight EXCEPT ![n] = Idle]
    /\ call' = [c \in Calls |-> IF c \in Waiters(n)
                                THEN [call[c] EXCEPT !.stage = "answered"] ELSE call[c]]
    /\ UNCHANGED <<plane, cache, holders>>

\* Mutant: an abort timer fires on a request that is being answered.
BreakOnTimer(n) ==
    /\ flight[n].stage \in {"validating", "served"}
    /\ flight' = [flight EXCEPT ![n] = Idle]
    /\ call' = [c \in Calls |-> IF c \in Waiters(n)
                                THEN [call[c] EXCEPT !.stage = "refused"] ELSE call[c]]
    /\ UNCHANGED <<plane, cache, holders>>

\* Either request fails, or the text does not parse: nothing is cached, the
\* request is forgotten, and everyone who waited fails with it.
Break(n) ==
    /\ flight[n].stage \in {"validating", "served"} /\ ~up
    /\ flight' = [flight EXCEPT ![n] = Idle]
    /\ call' = [c \in Calls |-> IF c \in Waiters(n)
                                THEN [call[c] EXCEPT !.stage = "refused", !.old = 0] ELSE call[c]]
    /\ UNCHANGED <<plane, cache, holders>>

\* Mutant: only a text that was just fetched is looked at.
FallsToBaseOnFetch(c) ==
    call[c].text = Empty /\ call[c].node # Base /\ ~Fresh(call[c].node)

\* getPolicy: an empty policy of a node sends the call on to the base policy.
FallsToBase(c) == call[c].text = Empty /\ call[c].node # Base

AskBase(c) ==
    /\ call[c].stage = "answered" /\ FallsToBase(c)
    /\ AskManager(c, Base, call[c].old)
    /\ UNCHANGED <<plane, cache, holders>>

----------------------------------------------------------------------------
(***************************************************************************)
(* The tools.                                                              *)
(***************************************************************************)
Resolved(c) == call[c].stage = "answered" /\ ~FallsToBase(c)

\* Mutant: the policy in force is replaced, and the agent guard is not.
OnPolicyResolvedKeepsGuard(text) == current' = text /\ agentGuard' =
    IF agentGuard = None THEN text ELSE agentGuard

\* onPolicyResolved and, in the same step, getPolicy and
\* getAgentGuardForCurrentPolicy: what was built from another policy is
\* dropped and built anew.
OnPolicyResolved(text) == current' = text /\ agentGuard' =
    IF agentGuard = None \/ current # text THEN text ELSE agentGuard

UseInTool(c) ==
    /\ c \in Tools /\ Resolved(c)
    /\ OnPolicyResolved(call[c].text)
    /\ call' = [call EXCEPT ![c] = [@ EXCEPT !.stage = "ended", !.source = "remote", !.old = 0,
                                             !.judged = current', !.scanned = agentGuard']]
    /\ UNCHANGED <<plane, cache, flight, lastRemote>>

\* policy_fetch_failed: the tool is refused.
RefuseTool(c) ==
    /\ c \in Tools /\ call[c].stage = "refused"
    /\ call' = [call EXCEPT ![c] = [NewCall EXCEPT !.stage = "failed"]]
    /\ UNCHANGED <<plane, cache, flight, holders>>

----------------------------------------------------------------------------
(***************************************************************************)
(* The hybrid guard.                                                       *)
(***************************************************************************)
EndGuard(c, source, text) ==
    call' = [call EXCEPT ![c] = [@ EXCEPT !.stage = "ended", !.source = source, !.old = 0,
                                          !.judged = text, !.scanned = text]]

\* readRemote
UseInGuard(c) ==
    /\ c \in Guards /\ Resolved(c)
    /\ lastRemote' = call[c].text
    /\ EndGuard(c, "remote", call[c].text)
    /\ UNCHANGED <<plane, cache, flight, current, agentGuard>>

\* local-first: the local policy, when it can be read.
UseLocalFirst(c) ==
    /\ c \in Guards /\ call[c].stage = "new"
    /\ precedence = "local-first"
    /\ EndGuard(c, "local", "local")
    /\ UNCHANGED <<plane, cache, flight, holders>>

\* Mutant: the last snapshot is used once.
UseLastSnapshotOnce(c) ==
    /\ c \in Guards /\ call[c].stage = "refused"
    /\ precedence = "remote-first" /\ lastRemote # None
    /\ lastRemote' = None
    /\ EndGuard(c, "remote-cache", lastRemote)
    /\ UNCHANGED <<plane, cache, flight, current, agentGuard>>

\* The plane is away: the last snapshot read, for whichever node it was.
UseLastSnapshot(c) ==
    /\ c \in Guards /\ call[c].stage = "refused"
    /\ precedence = "remote-first" /\ lastRemote # None
    /\ EndGuard(c, "remote-cache", lastRemote)
    /\ UNCHANGED <<plane, cache, flight, holders>>

\* ... and if there is none, the local policy.
UseLocalFallback(c) ==
    /\ c \in Guards /\ call[c].stage = "refused"
    /\ precedence = "remote-first" /\ lastRemote = None
    /\ EndGuard(c, "local-fallback", "local")
    /\ UNCHANGED <<plane, cache, flight, holders>>

NoPolicy(c) ==
    /\ c \in Guards /\ call[c].stage = "refused"
    /\ precedence = "remote-first" => lastRemote = None
    /\ call' = [call EXCEPT ![c] = [NewCall EXCEPT !.stage = "failed"]]
    /\ UNCHANGED <<plane, cache, flight, holders>>

----------------------------------------------------------------------------
(***************************************************************************)
(* The world.                                                              *)
(***************************************************************************)
Publish(n, text) ==
    /\ publishes < MaxPublish /\ text # published[n]
    /\ published' = [published EXCEPT ![n] = text]
    /\ publishes' = publishes + 1
    /\ UNCHANGED <<up, precedence, cache, flight, holders, call>>

Outage ==
    /\ up' = ~up
    /\ UNCHANGED <<published, publishes, precedence, cache, flight, holders, call>>

Older(a) == IF a < Oldest THEN a + 1 ELSE a

\* Time passes for every text on its way and in the cache.  An entry a
\* tick past its time to live is dropped: the code keeps it, and overwrites
\* it before it reads it again.
Tick ==
    /\ \A n \in Nodes : flight[n].stage # "idle" => flight[n].age < MaxFlight
    /\ flight' = [n \in Nodes |->
         CASE flight[n].stage = "idle"       -> flight[n]
           [] flight[n].stage = "validating" -> [flight[n] EXCEPT !.age = @ + 1]
           [] OTHER -> [flight[n] EXCEPT !.age = @ + 1, !.served = Older(@)]]
    /\ cache' = [n \in Nodes |->
         IF cache[n].text = None \/ cache[n].age >= TTL THEN Absent
         ELSE [cache[n] EXCEPT !.age = Older(@), !.served = Older(@)]]
    /\ UNCHANGED <<plane, holders, call>>

\* The next call of the same caller.
Again(c) ==
    /\ call[c].stage \in {"ended", "failed"}
    /\ call' = [call EXCEPT ![c] = NewCall]
    /\ UNCHANGED <<plane, cache, flight, holders>>

Next ==
    \/ \E c \in Calls :
        \/ Ask(c) \/ AskBase(c) \/ UseInTool(c) \/ RefuseTool(c)
        \/ UseInGuard(c) \/ UseLocalFirst(c) \/ UseLastSnapshot(c)
        \/ UseLocalFallback(c) \/ NoPolicy(c) \/ Again(c)
    \/ \E n \in Nodes : Serve(n) \/ Arrive(n) \/ Break(n)
    \/ \E n \in Nodes, text \in Texts : Publish(n, text)
    \/ Outage \/ Tick

\* Requests settle and continuations run; neither people, nor the plane's
\* outages, nor further calls are owed.
Continues(c) ==
    \/ AskBase(c) \/ UseInTool(c) \/ RefuseTool(c) \/ UseInGuard(c)
    \/ UseLastSnapshot(c) \/ UseLocalFallback(c) \/ NoPolicy(c)

Settles(n) == Serve(n) \/ Arrive(n) \/ Break(n)

Fairness == /\ \A c \in Calls : WF_vars(Continues(c))
            /\ \A n \in Nodes : WF_vars(Settles(n))

Spec == Init /\ [][Next]_vars /\ Fairness

----------------------------------------------------------------------------
(***************************************************************************)
(* What is checked.                                                        *)
(***************************************************************************)
\* Every variable holds a value of its kind.
TypeOK ==
    /\ published \in [Nodes -> Texts] /\ publishes \in 0..MaxPublish
    /\ up \in BOOLEAN
    /\ cache \in [Nodes -> {Absent} \cup [text : Texts, age : Ages, served : Ages]]
    /\ flight \in [Nodes -> [stage : {"idle", "validating", "served"},
                             text : Texts \cup {None}, age : 0..MaxFlight, served : Ages]]
    /\ {lastRemote, current, agentGuard} \subseteq Texts \cup {None}
    /\ \A c \in Calls : /\ call[c].stage \in Stages /\ call[c].source \in Sources
                        /\ call[c].node \in Nodes \cup {None} /\ call[c].old \in Ages
                        /\ call[c].stage = "answered" => call[c].text \in Texts

\* Nothing a call is given is older, when it asks, than the time to live and
\* the flight of one request together: an entry that keeps being used is not
\* kept by it, and a request that is joined is no older than its flight.
StaleAtMost ==
    \A c \in Calls : call[c].stage = "answered" =>
        call[c].old <= (IF TTL = 0 THEN 0 ELSE TTL - 1) + MaxFlight

\* A tool is judged by one policy throughout: the list of reasons that deny it
\* and the agent guard that scans it come from the text resolved for this call,
\* whatever the calls beside it resolved meanwhile.
OnePolicyPerCall ==
    \A c \in Tools : call[c].stage = "ended" =>
        call[c].judged = call[c].text /\ call[c].scanned = call[c].text

\* A call ends with the policy of its own node, or with the base policy, and no
\* node is left to the empty policy while the base policy it is given is not.
OwnNodeOrBase ==
    \A c \in Calls : (call[c].stage = "ended" /\ call[c].source = "remote") =>
        /\ call[c].node \in {NodeOf[c], Base}
        /\ call[c].judged = Empty => call[c].node = Base

\* Two nodes do not see each other's policy: what is cached or on its way for a
\* node is something the plane held for that node.
KeptApart ==
    publishes = 0 => \A n \in Nodes :
        /\ cache[n].text \in {None, published[n]}
        /\ flight[n].text \in {None, published[n]}

\* A guard that has once read a policy of the plane does not go back to its
\* local one because the plane is away.
NeverBackToLocal ==
    [][\A c \in Guards :
         (lastRemote # None /\ call[c].stage = "refused" /\ precedence = "remote-first")
            => lastRemote' # None /\ call'[c].source # "local-fallback"]_vars

\* Every call that asked for its policy gets it, or is refused.
AnswerArrives ==
    \A c \in Calls : call[c].stage = "waiting" ~> call[c].stage \in {"ended", "failed"}

\* An outage is not remembered: once the plane answers for good, from some time
\* on no call is refused.
Heals ==
    (<>[]up) => <>[][\A c \in Calls : call[c].stage # "refused" => call'[c].stage # "refused"]_vars

\* The policy of a call is one policy, of its node: nothing of other calls,
\* other nodes or an earlier policy gets mixed into it.
PoliciesKept == TypeOK /\ OnePolicyPerCall /\ OwnNodeOrBase /\ KeptApart

\* What becomes of calls in an outage: each is answered, and those after it are
\* answered with a policy.
Recovers == AnswerArrives /\ Heals
=============================================================================
