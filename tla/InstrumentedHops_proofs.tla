------------------------ MODULE InstrumentedHops_proofs ------------------------
(***************************************************************************)
(* The invariants of InstrumentedHops, for any hops, call trees, options   *)
(* and reasons.                                                            *)
(*                                                                         *)
(* Causes: a hop's scope, store and everything written into the store are  *)
(* of one request (TreeInv, StoreInv), and what a hop has read before its  *)
(* await is still in the store after it, or the hop was disturbed          *)
(* (ReadInv).  Errors: of the hops that hold one error at most one has not *)
(* passed it on, and while that one has not marked it nobody has, and no   *)
(* escalation was created for it (ErrorInv).                               *)
(***************************************************************************)
EXTENDS InstrumentedHops, TLAPS

Points == {"idle", "entered", "running", "weighing", "returned", "threw", "refused"}
Causes == Hops \cup {None, Outside}
Errors == [from : Hops \cup {None}, object : BOOLEAN, denied : BOOLEAN,
           reason : Reasons \cup {None}, marked : BOOLEAN, escalated : BOOLEAN]
HopRecords ==
    [at : Points, store : Hops \cup {None}, scope : Hops \cup {None}, run : Hops \cup {None},
     cause : Causes, passed : Causes, disturbed : BOOLEAN, reason : Reasons \cup {None},
     error : Errors, decision : {None, "allow", "deny"}]

TypeInv ==
    /\ setup \in Setups
    /\ hop \in [Hops -> HopRecords]
    /\ runs \in [Hops -> Hops \cup {None}]
    /\ causes \in [Hops -> Causes]
    /\ made \in [Hops -> Nat]

\* Calls under way are awaited by callers that run, in the scope of the caller.
Under(h) == hop[h].at \in {"entered", "running", "weighing"}
TreeInv ==
    \A h \in Hops :
        /\ hop[h].at = "idle" => /\ hop[h].scope = None /\ hop[h].store = None
                                 /\ hop[h].run = None /\ hop[h].cause = None
                                 /\ hop[h].passed = None
        /\ hop[h].at # "idle" => /\ hop[h].scope \in Hops /\ hop[hop[h].scope].at # "idle"
                                 /\ setup.caller[h] # None =>
                                      /\ hop[setup.caller[h]].at # "idle"
                                      /\ hop[setup.caller[h]].scope = hop[h].scope
        /\ Under(h) /\ setup.caller[h] # None => hop[setup.caller[h]].at = "running"
        /\ Under(h) /\ setup.kind[h] # "agent" => hop[h].store \in Hops

StoreInv ==
    \A h \in Hops :
        /\ hop[h].store # None => hop[hop[h].store].scope = hop[h].scope
        /\ runs[h] # None => hop[h].at # "idle" /\ hop[runs[h]].scope = h
        /\ causes[h] # None => hop[h].at # "idle"
        /\ causes[h] \notin {None, Outside} => hop[causes[h]].scope = hop[h].scope

ReadInv ==
    \A h \in Hops : hop[h].at = "entered" /\ ~hop[h].disturbed =>
        CASE setup.kind[h] = "node" -> hop[h].cause = causes[hop[h].store]
          [] setup.kind[h] = "agent" -> hop[h].cause = hop[h].passed
          [] OTHER -> hop[h].passed = causes[hop[h].store]

CauseInv == TypeInv /\ TreeInv /\ StoreInv /\ ReadInv /\ CauseOfSameRequest /\ OneCausePerHop

----------------------------------------------------------------------------
(***************************************************************************)
(* What the actions do, field by field.                                    *)
(***************************************************************************)
\* All of k but whether it was disturbed.
Same(k) == /\ hop'[k].at = hop[k].at /\ hop'[k].store = hop[k].store
           /\ hop'[k].scope = hop[k].scope /\ hop'[k].run = hop[k].run
           /\ hop'[k].cause = hop[k].cause /\ hop'[k].passed = hop[k].passed
           /\ hop'[k].reason = hop[k].reason /\ hop'[k].error = hop[k].error
           /\ hop'[k].decision = hop[k].decision
Others(h) == \A k \in Hops \ {h} : Same(k)
Calm(h) == \A k \in Hops \ {h} : hop'[k].disturbed = hop[k].disturbed
Stirred(h, s) ==
    \A k \in Hops \ {h} : ~hop'[k].disturbed =>
        ~hop[k].disturbed /\ (hop[k].at = "entered" => hop[k].store # s)

LEMMA Setting ==
    ASSUME TypeInv
    PROVE  /\ setup.caller \in [Hops -> Hops \cup {None}] /\ setup.kind \in [Hops -> Kinds]
           /\ setup.given \subseteq {None, Outside} /\ setup.ownRuns \subseteq BOOLEAN
           /\ setup.option \in [Hops -> Options]
    BY SetupAssumption DEF TypeInv

LEMMA NewIs == NewHop \in HopRecords /\ NoError \in Errors
    BY DEF NewHop, NoError, HopRecords, Points, Causes, Errors

LEMMA Disturbs ==
    ASSUME TypeInv, NEW k \in Hops
    PROVE  LET d == [hop[k] EXCEPT !.disturbed = TRUE] IN
           /\ d \in HopRecords /\ d.disturbed
           /\ d.at = hop[k].at /\ d.store = hop[k].store /\ d.scope = hop[k].scope
           /\ d.run = hop[k].run /\ d.cause = hop[k].cause /\ d.passed = hop[k].passed
           /\ d.reason = hop[k].reason /\ d.error = hop[k].error
           /\ d.decision = hop[k].decision
<1>1. hop[k] \in HopRecords
    BY DEF TypeInv
<1> QED BY <1>1 DEF HopRecords

\* The places a call is given: of its caller, or its own.
LEMMA Places ==
    ASSUME TypeInv, TreeInv, NEW h \in Hops, Callable(h)
    PROVE  /\ ScopeOf(h) \in Hops /\ StoreOf(h) \in Hops \cup {None}
           /\ setup.kind[h] # "agent" => StoreOf(h) \in Hops
           /\ \A own \in BOOLEAN : RunOf(h, own) \in {h, runs[ScopeOf(h)]} \ {None}
<1>1. /\ setup.caller[h] \in Hops \cup {None}
      /\ setup.caller[h] # None => /\ hop[setup.caller[h]].at = "running"
                                   /\ hop[setup.caller[h]] \in HopRecords
    BY Setting DEF Callable, TypeInv
<1>2. ScopeOf(h) \in Hops
    BY <1>1 DEF ScopeOf, TreeInv
<1>3. /\ StoreOf(h) \in Hops \cup {None}
      /\ setup.kind[h] # "agent" => StoreOf(h) \in Hops
    BY <1>1 DEF StoreOf, HopRecords
<1>4. \A own \in BOOLEAN : RunOf(h, own) \in {h, runs[ScopeOf(h)]} \ {None}
    BY <1>2, NamesAssumption DEF RunOf, TypeInv
<1> QED BY <1>2, <1>3, <1>4

LEMMA EnterDoes ==
    ASSUME TypeInv, TreeInv, NEW h \in Hops, NEW given \in setup.given,
           NEW own \in setup.ownRuns, Enter(h, given, own)
    PROVE  /\ TypeInv' /\ Others(h) /\ UNCHANGED <<setup, made>>
           /\ hop[h].at = "idle"
           /\ setup.caller[h] # None => hop[setup.caller[h]].at = "running"
           /\ hop'[h].at = "entered" /\ ~hop'[h].disturbed
           /\ hop'[h].store = StoreOf(h) /\ hop'[h].scope = ScopeOf(h)
           /\ hop'[h].run = RunOf(h, own)
           /\ hop'[h].error = NoError /\ hop'[h].decision = None
           /\ runs' = [runs EXCEPT ![ScopeOf(h)] = IF @ = None THEN RunOf(h, own) ELSE @]
           /\ setup.kind[h] = "agent" =>
                 /\ hop'[h].cause = h /\ hop'[h].passed = h /\ causes' = causes
           /\ setup.kind[h] = "node" /\ given = None =>
                 /\ hop'[h].cause = causes[StoreOf(h)] /\ hop'[h].passed = None
                 /\ causes' = causes
           /\ setup.kind[h] = "node" /\ given # None =>
                 /\ hop'[h].cause = given /\ hop'[h].passed = None
                 /\ causes' = [causes EXCEPT ![StoreOf(h)] = given]
           /\ setup.kind[h] = "orchestrator" =>
                 /\ hop'[h].cause = None /\ hop'[h].passed = CauseFor(h, given)
                 /\ causes' = [causes EXCEPT ![StoreOf(h)] = CauseFor(h, given)]
           /\ \A k \in Hops \ {h} : ~hop'[k].disturbed => ~hop[k].disturbed
           /\ Seed(h, given) # None => Stirred(h, StoreOf(h))
<1> DEFINE r == Entered(h, given, own)
           D == Disturbed(h, StoreOf(h), Seed(h, given) # None)
<1>1. /\ Callable(h) /\ given \in {None, Outside} /\ own \in BOOLEAN
      /\ setup.kind[h] \in Kinds /\ setup.caller[h] \in Hops \cup {None}
    BY Setting DEF Enter
<1>2. /\ ScopeOf(h) \in Hops /\ StoreOf(h) \in Hops \cup {None}
      /\ setup.kind[h] # "agent" => StoreOf(h) \in Hops
      /\ RunOf(h, own) \in Hops
    BY <1>1, Places DEF TypeInv
<1>3. /\ CauseFor(h, given) \in Causes
      /\ setup.kind[h] = "orchestrator" => CauseFor(h, given) # None
      /\ setup.kind[h] = "node" => CauseFor(h, given) = given
    BY <1>1, NamesAssumption DEF CauseFor, Causes, Kinds
<1>4. /\ r.at = "entered" /\ ~r.disturbed /\ r.store = StoreOf(h) /\ r.scope = ScopeOf(h)
      /\ r.run = RunOf(h, own) /\ r.error = NoError /\ r.decision = None
      /\ setup.kind[h] = "agent" => r.cause = h /\ r.passed = h
      /\ setup.kind[h] = "node" => /\ r.cause = IF given # None THEN given
                                                ELSE causes[StoreOf(h)]
                                   /\ r.passed = None
      /\ setup.kind[h] = "orchestrator" => /\ r.cause = None
                                           /\ r.passed = CauseFor(h, given)
    BY <1>1 DEF Entered, NewHop, Kinds
<1>5. r \in HopRecords
    <2>1. r.cause \in Causes /\ r.passed \in Causes
        BY <1>1, <1>2, <1>3, <1>4 DEF Kinds, Causes, TypeInv
    <2> QED BY <1>2, <2>1, NewIs DEF Entered, HopRecords, Points
<1> HIDE DEF r
<1>6. /\ hop' = [D EXCEPT ![h] = r] /\ UNCHANGED <<setup, made>>
      /\ causes' = IF Seed(h, given) # None
                   THEN [causes EXCEPT ![StoreOf(h)] = Seed(h, given)] ELSE causes
      /\ runs' = [runs EXCEPT ![ScopeOf(h)] = IF @ = None THEN RunOf(h, own) ELSE @]
    BY DEF Enter, OpenRun, r
<1>7. \A k \in Hops \ {h} : hop'[k] = D[k]
    BY <1>6
<1>8. hop'[h] = r /\ DOMAIN D = Hops
    BY <1>6 DEF Disturbed
<1> HIDE DEF D
<1>9. \A k \in Hops \ {h} :
         /\ D[k] \in HopRecords
         /\ D[k].at = hop[k].at /\ D[k].store = hop[k].store /\ D[k].scope = hop[k].scope
         /\ D[k].run = hop[k].run /\ D[k].cause = hop[k].cause
         /\ D[k].passed = hop[k].passed /\ D[k].reason = hop[k].reason
         /\ D[k].error = hop[k].error /\ D[k].decision = hop[k].decision
         /\ ~D[k].disturbed => /\ ~hop[k].disturbed
                               /\ Seed(h, given) # None /\ hop[k].at = "entered"
                                     => hop[k].store # StoreOf(h)
    <2> TAKE k \in Hops \ {h}
    <2>1. D[k] = IF Seed(h, given) # None /\ hop[k].at = "entered" /\ hop[k].store = StoreOf(h)
                 THEN [hop[k] EXCEPT !.disturbed = TRUE] ELSE hop[k]
        BY DEF D, Disturbed
    <2>2. hop[k] \in HopRecords
        BY DEF TypeInv
    <2> QED BY <2>1, <2>2, Disturbs
<1>10. Others(h) /\ hop' \in [Hops -> HopRecords]
    <2>1. Others(h)
        BY <1>7, <1>9 DEF Others, Same
    <2> QED BY <1>5, <1>6, <1>7, <1>8, <1>9, <2>1
<1>11. /\ \A k \in Hops \ {h} : ~hop'[k].disturbed => ~hop[k].disturbed
       /\ Seed(h, given) # None => Stirred(h, StoreOf(h))
    BY <1>7, <1>9 DEF Stirred
<1>12. /\ setup.kind[h] = "agent" => causes' = causes
       /\ setup.kind[h] = "node" /\ given = None => causes' = causes
       /\ setup.kind[h] = "node" /\ given # None =>
             causes' = [causes EXCEPT ![StoreOf(h)] = given]
       /\ setup.kind[h] = "orchestrator" =>
             causes' = [causes EXCEPT ![StoreOf(h)] = CauseFor(h, given)]
    BY <1>3, <1>6 DEF Seed
<1>13. TypeInv'
    BY <1>1, <1>2, <1>3, <1>6, <1>10, <1>12 DEF TypeInv, Causes, Kinds
<1> QED
    BY <1>1, <1>4, <1>6, <1>8, <1>10, <1>11, <1>12, <1>13 DEF Callable

\* The steps of a hop that has been called, for what concerns causes: it keeps
\* its place.
Stays(h) ==
    /\ hop'[h].store = hop[h].store /\ hop'[h].scope = hop[h].scope
    /\ hop'[h].run = hop[h].run /\ hop'[h].disturbed = hop[h].disturbed
    /\ UNCHANGED <<setup, runs>>

LEMMA RefuseParametersDoes ==
    ASSUME TypeInv, TreeInv, NEW h \in Hops, NEW own \in setup.ownRuns,
           RefuseParameters(h, own)
    PROVE  /\ TypeInv' /\ Others(h) /\ Calm(h) /\ UNCHANGED <<setup, causes, made>>
           /\ hop[h].at = "idle"
           /\ setup.caller[h] # None => hop[setup.caller[h]].at = "running"
           /\ hop'[h].at = "refused" /\ hop'[h].store = None
           /\ hop'[h].scope = ScopeOf(h) /\ hop'[h].run = RunOf(h, own)
           /\ hop'[h].cause = None /\ hop'[h].passed = None
           /\ hop'[h].error = [NoError EXCEPT !.from = h] /\ hop'[h].decision = None
           /\ runs' = [runs EXCEPT ![ScopeOf(h)] = IF @ = None THEN RunOf(h, own) ELSE @]
<1> DEFINE r == [NewHop EXCEPT !.at = "refused", !.scope = ScopeOf(h), !.run = RunOf(h, own),
                               !.error = [NoError EXCEPT !.from = h]]
<1>1. /\ hop' = [hop EXCEPT ![h] = r] /\ Callable(h) /\ own \in BOOLEAN
      /\ UNCHANGED <<setup, causes, made>>
      /\ runs' = [runs EXCEPT ![ScopeOf(h)] = IF @ = None THEN RunOf(h, own) ELSE @]
    BY Setting DEF RefuseParameters, OpenRun
<1>2. ScopeOf(h) \in Hops /\ RunOf(h, own) \in Hops
    BY <1>1, Places DEF TypeInv
<1>3. [NoError EXCEPT !.from = h] \in Errors
    BY DEF NoError, Errors
<1>4. r \in HopRecords
    BY <1>2, <1>3 DEF NewHop, HopRecords, Points, Causes
<1>5. /\ r.at = "refused" /\ r.store = None /\ r.scope = ScopeOf(h) /\ r.run = RunOf(h, own)
      /\ r.cause = None /\ r.passed = None /\ r.error = [NoError EXCEPT !.from = h]
      /\ r.decision = None
    BY DEF NewHop
<1> HIDE DEF r
<1>6. hop'[h] = r /\ Others(h) /\ Calm(h)
    BY <1>1 DEF TypeInv, Others, Same, Calm
<1>7. TypeInv'
    BY <1>1, <1>2, <1>4 DEF TypeInv
<1> QED BY <1>1, <1>5, <1>6, <1>7 DEF Callable

LEMMA RefuseCallDoes ==
    ASSUME TypeInv, NEW h \in Hops, RefuseCall(h)
    PROVE  /\ TypeInv' /\ Others(h) /\ Calm(h) /\ Stays(h) /\ UNCHANGED <<causes, made>>
           /\ hop[h].at = "entered" /\ hop'[h].at = "refused"
           /\ hop'[h].cause = hop[h].cause /\ hop'[h].passed = hop[h].passed
           /\ hop'[h].error = [NoError EXCEPT !.from = h]
           /\ hop'[h].decision = hop[h].decision
<1> DEFINE r == [hop[h] EXCEPT !.at = "refused", !.error = [NoError EXCEPT !.from = h]]
<1>1. hop' = [hop EXCEPT ![h] = r] /\ UNCHANGED <<setup, runs, causes, made>>
      /\ hop[h].at = "entered" /\ hop[h] \in HopRecords
    BY DEF RefuseCall, TypeInv
<1>2. [NoError EXCEPT !.from = h] \in Errors
    BY DEF NoError, Errors
<1>3. r \in HopRecords
    BY <1>1, <1>2 DEF HopRecords, Points
<1>4. /\ r.at = "refused" /\ r.store = hop[h].store /\ r.scope = hop[h].scope
      /\ r.run = hop[h].run /\ r.disturbed = hop[h].disturbed
      /\ r.cause = hop[h].cause /\ r.passed = hop[h].passed
      /\ r.error = [NoError EXCEPT !.from = h] /\ r.decision = hop[h].decision
    BY <1>1 DEF HopRecords
<1> HIDE DEF r
<1>5. hop'[h] = r /\ Others(h) /\ Calm(h)
    BY <1>1 DEF TypeInv, Others, Same, Calm
<1>6. TypeInv'
    BY <1>1, <1>3 DEF TypeInv
<1> QED BY <1>1, <1>4, <1>5, <1>6 DEF Stays

LEMMA ResolveDoes ==
    ASSUME TypeInv, TreeInv, NEW h \in Hops, Resolve(h)
    PROVE  /\ TypeInv' /\ Others(h) /\ Calm(h) /\ Stays(h) /\ UNCHANGED <<causes, made>>
           /\ hop[h].at = "entered" /\ hop'[h].at = "running"
           /\ hop'[h].error = hop[h].error /\ hop'[h].decision = hop[h].decision
           /\ hop'[h].passed = IF setup.kind[h] = "node" THEN causes[hop[h].store]
                               ELSE hop[h].passed
           /\ hop'[h].cause = IF setup.kind[h] = "orchestrator" THEN causes[hop[h].store]
                              ELSE hop[h].cause
<1> DEFINE p == IF setup.kind[h] = "node" THEN causes[hop[h].store] ELSE hop[h].passed
           q == IF setup.kind[h] = "orchestrator" THEN causes[hop[h].store] ELSE hop[h].cause
           r == [hop[h] EXCEPT !.at = "running", !.passed = p, !.cause = q]
<1>1. hop' = [hop EXCEPT ![h] = r] /\ UNCHANGED <<setup, runs, causes, made>>
      /\ hop[h].at = "entered" /\ hop[h] \in HopRecords
    BY DEF Resolve, TypeInv
<1>2. p \in Causes /\ q \in Causes
    BY <1>1 DEF TreeInv, Under, TypeInv, HopRecords
<1> HIDE DEF p, q
<1>3. r \in HopRecords
    BY <1>1, <1>2 DEF HopRecords, Points
<1>4. /\ r.at = "running" /\ r.store = hop[h].store /\ r.scope = hop[h].scope
      /\ r.run = hop[h].run /\ r.disturbed = hop[h].disturbed
      /\ r.cause = q /\ r.passed = p
      /\ r.error = hop[h].error /\ r.decision = hop[h].decision
    BY <1>1 DEF HopRecords
<1> HIDE DEF r
<1>5. hop'[h] = r /\ Others(h) /\ Calm(h)
    BY <1>1 DEF TypeInv, Others, Same, Calm
<1>6. TypeInv'
    BY <1>1, <1>3 DEF TypeInv
<1> QED BY <1>1, <1>4, <1>5, <1>6 DEF Stays, p, q

LEMMA FnReturnsDoes ==
    ASSUME TypeInv, TreeInv, NEW h \in Hops, NEW reason \in Reasons \cup {None},
           NEW ids \in BOOLEAN, FnReturns(h, reason, ids)
    PROVE  /\ TypeInv' /\ Others(h) /\ Stays(h) /\ UNCHANGED made
           /\ Awaited(h) /\ hop[h].at = "running" /\ hop'[h].at = "weighing"
           /\ hop'[h].cause = hop[h].cause /\ hop'[h].passed = hop[h].passed
           /\ hop'[h].error = hop[h].error /\ hop'[h].decision = hop[h].decision
           /\ \A k \in Hops \ {h} : ~hop'[k].disturbed => ~hop[k].disturbed
           /\ \/ causes' = causes
              \/ /\ hop[h].store \in Hops /\ causes' = [causes EXCEPT ![hop[h].store] = h]
                 /\ Stirred(h, hop[h].store)
<1> DEFINE w == ids /\ setup.kind[h] # "agent"
           s == hop[h].store
           D == Disturbed(h, s, w)
           r == [D[h] EXCEPT !.at = "weighing", !.reason = reason]
<1>1. /\ hop' = [D EXCEPT ![h] = r] /\ UNCHANGED <<setup, runs, made>>
      /\ causes' = IF w THEN [causes EXCEPT ![s] = h] ELSE causes
      /\ Awaited(h) /\ hop[h].at = "running"
      /\ hop[h] \in HopRecords /\ s \in Hops \cup {None}
      /\ w => s \in Hops
    <2>1. hop' = [D EXCEPT ![h] = r]
        BY DEF FnReturns, Disturbed
    <2>2. hop[h].at = "running"
        BY DEF FnReturns, Awaited
    <2> QED BY <2>1, <2>2 DEF FnReturns, TypeInv, TreeInv, Under, HopRecords
<1>2. D[h] = hop[h] /\ DOMAIN D = Hops
    BY DEF Disturbed
<1> HIDE DEF D
<1>3. r \in HopRecords
    BY <1>1, <1>2 DEF HopRecords, Points
<1>4. /\ r.at = "weighing" /\ r.store = hop[h].store /\ r.scope = hop[h].scope
      /\ r.run = hop[h].run /\ r.disturbed = hop[h].disturbed
      /\ r.cause = hop[h].cause /\ r.passed = hop[h].passed
      /\ r.error = hop[h].error /\ r.decision = hop[h].decision
    BY <1>1, <1>2 DEF HopRecords
<1> HIDE DEF r, w
<1>5. \A k \in Hops \ {h} :
         /\ D[k] \in HopRecords
         /\ D[k].at = hop[k].at /\ D[k].store = hop[k].store /\ D[k].scope = hop[k].scope
         /\ D[k].run = hop[k].run /\ D[k].cause = hop[k].cause
         /\ D[k].passed = hop[k].passed /\ D[k].reason = hop[k].reason
         /\ D[k].error = hop[k].error /\ D[k].decision = hop[k].decision
         /\ ~D[k].disturbed => /\ ~hop[k].disturbed
                               /\ w /\ hop[k].at = "entered" => hop[k].store # s
    <2> TAKE k \in Hops \ {h}
    <2>1. D[k] = IF w /\ hop[k].at = "entered" /\ hop[k].store = s
                 THEN [hop[k] EXCEPT !.disturbed = TRUE] ELSE hop[k]
        BY DEF D, Disturbed
    <2>2. hop[k] \in HopRecords
        BY DEF TypeInv
    <2> QED BY <2>1, <2>2, Disturbs
<1>6. hop'[h] = r /\ \A k \in Hops \ {h} : hop'[k] = D[k]
    BY <1>1, <1>2
<1>7. Others(h) /\ hop' \in [Hops -> HopRecords]
    <2>1. Others(h)
        BY <1>5, <1>6 DEF Others, Same
    <2> QED BY <1>1, <1>2, <1>3, <1>5, <1>6, <2>1
<1>8. /\ \A k \in Hops \ {h} : ~hop'[k].disturbed => ~hop[k].disturbed
      /\ w => Stirred(h, s)
    BY <1>5, <1>6 DEF Stirred
<1>9. TypeInv'
    BY <1>1, <1>7 DEF TypeInv, Causes
<1> QED BY <1>1, <1>4, <1>6, <1>7, <1>8, <1>9 DEF Stays

LEMMA FnThrowsDoes ==
    ASSUME TypeInv, NEW h \in Hops, NEW e \in Throwable(h), FnThrows(h, e)
    PROVE  /\ TypeInv' /\ Others(h) /\ Calm(h) /\ Stays(h) /\ UNCHANGED <<causes, made>>
           /\ Awaited(h) /\ hop[h].at = "running" /\ e \in Errors
           /\ hop'[h].at = IF e.marked THEN "threw" ELSE "weighing"
           /\ hop'[h].decision = IF e.marked THEN "allow" ELSE None
           /\ hop'[h].cause = hop[h].cause /\ hop'[h].passed = hop[h].passed
           /\ hop'[h].error = e
<1> DEFINE at == IF e.marked THEN "threw" ELSE "weighing"
           dec == IF e.marked THEN "allow" ELSE None
           r == [hop[h] EXCEPT !.at = at, !.error = e, !.reason = e.reason, !.decision = dec]
<1>1. hop' = [hop EXCEPT ![h] = r] /\ UNCHANGED <<setup, runs, causes, made>>
      /\ Awaited(h) /\ hop[h].at = "running" /\ hop[h] \in HopRecords
    BY DEF FnThrows, DealtWith, Awaited, TypeInv
<1>2. e \in Errors
    <2>1. \A k \in Hops : hop[k].error \in Errors
        BY DEF TypeInv, HopRecords
    <2> QED BY <2>1 DEF Throwable, Children, Errors
<1>3. at \in {"threw", "weighing"} /\ dec \in {"allow", None}
    OBVIOUS
<1> HIDE DEF at, dec
<1>4. r \in HopRecords
    BY <1>1, <1>2, <1>3 DEF HopRecords, Points, Errors
<1>5. /\ r.at = at /\ r.store = hop[h].store /\ r.scope = hop[h].scope
      /\ r.run = hop[h].run /\ r.disturbed = hop[h].disturbed
      /\ r.cause = hop[h].cause /\ r.passed = hop[h].passed
      /\ r.error = e /\ r.decision = dec
    BY <1>1 DEF HopRecords
<1> HIDE DEF r
<1>6. hop'[h] = r /\ Others(h) /\ Calm(h)
    BY <1>1 DEF TypeInv, Others, Same, Calm
<1>7. TypeInv'
    BY <1>1, <1>4 DEF TypeInv
<1> QED BY <1>1, <1>2, <1>5, <1>6, <1>7 DEF Stays, at, dec

LEMMA MarkIs ==
    ASSUME TypeInv, NEW h \in Hops, NEW reached \in BOOLEAN, NEW id \in BOOLEAN
    PROVE  LET e == Mark(h, reached, id)
               old == hop[h].error
               marks == /\ setup.option[h].enabled /\ hop[h].reason # None
                        /\ Denies(h, reached) /\ old.object
           IN  /\ e \in Errors /\ e.object = old.object
               /\ ~marks => e = old
               /\ marks => /\ e.denied /\ e.marked /\ e.escalated = (old.escalated \/ id)
                           /\ e.from = IF old.from = None THEN h ELSE old.from
<1>1. hop[h] \in HopRecords /\ hop[h].error \in Errors /\ hop[h].reason \in Reasons \cup {None}
    BY DEF TypeInv, HopRecords
<1> DEFINE old == hop[h].error
           marks == /\ setup.option[h].enabled /\ hop[h].reason # None
                    /\ Denies(h, reached) /\ old.object
<1>2. CASE marks
    <2>1. Mark(h, reached, id) =
            [old EXCEPT !.from = IF @ = None THEN h ELSE @, !.denied = TRUE,
                        !.reason = hop[h].reason, !.marked = TRUE, !.escalated = @ \/ id]
        BY <1>2 DEF Mark
    <2>2. (old.escalated \/ id) \in BOOLEAN
        OBVIOUS
    <2> QED BY <1>1, <1>2, <2>1, <2>2 DEF Errors
<1>3. CASE ~marks
    BY <1>1, <1>3 DEF Mark
<1> QED BY <1>2, <1>3

LEMMA WeighDoes ==
    ASSUME TypeInv, NEW h \in Hops, NEW reached \in BOOLEAN, NEW created \in BOOLEAN,
           Weigh(h, reached, created)
    PROVE  LET id == created /\ Escalates(h, reached)
               e == Mark(h, reached, id)
           IN  /\ TypeInv' /\ Others(h) /\ Calm(h) /\ Stays(h) /\ UNCHANGED causes
               /\ hop[h].at = "weighing"
               /\ hop'[h].at = (IF e = NoError THEN "returned" ELSE "threw")
               /\ hop'[h].error = e
               /\ hop'[h].decision = (IF Denies(h, reached) THEN "deny" ELSE "allow")
               /\ hop'[h].cause = hop[h].cause /\ hop'[h].passed = hop[h].passed
               /\ made' = IF id THEN [made EXCEPT ![IF e.from = None THEN h ELSE e.from] = @ + 1]
                          ELSE made
<1> DEFINE id == created /\ Escalates(h, reached)
           e == Mark(h, reached, id)
           origin == IF e.from = None THEN h ELSE e.from
           at == IF e = NoError THEN "returned" ELSE "threw"
           dec == IF Denies(h, reached) THEN "deny" ELSE "allow"
           r == [hop[h] EXCEPT !.at = at, !.error = e, !.decision = dec]
<1>1. hop' = [hop EXCEPT ![h] = r] /\ UNCHANGED <<setup, runs, causes>>
      /\ hop[h].at = "weighing" /\ hop[h] \in HopRecords
      /\ made' = IF id THEN [made EXCEPT ![origin] = @ + 1] ELSE made
    BY DEF Weigh, TypeInv
<1>2. e \in Errors
    <2>1. id \in BOOLEAN
        OBVIOUS
    <2> HIDE DEF id
    <2> QED BY <2>1, MarkIs
<1>3. at \in {"threw", "returned"} /\ dec \in {"allow", "deny"} /\ origin \in Hops
    BY <1>2 DEF Errors
<1> HIDE DEF e, at, dec, id, origin
<1>4. r \in HopRecords
    BY <1>1, <1>2, <1>3 DEF HopRecords, Points
<1>5. /\ r.at = at /\ r.store = hop[h].store /\ r.scope = hop[h].scope
      /\ r.run = hop[h].run /\ r.disturbed = hop[h].disturbed
      /\ r.cause = hop[h].cause /\ r.passed = hop[h].passed
      /\ r.error = e /\ r.decision = dec
    BY <1>1 DEF HopRecords
<1> HIDE DEF r
<1>6. hop'[h] = r /\ Others(h) /\ Calm(h)
    BY <1>1 DEF TypeInv, Others, Same, Calm
<1>7. TypeInv'
    BY <1>1, <1>3, <1>4 DEF TypeInv
<1> QED BY <1>1, <1>5, <1>6, <1>7 DEF Stays, at, dec, e, id, origin

----------------------------------------------------------------------------
(***************************************************************************)
(* Causes.                                                                 *)
(***************************************************************************)
\* A hop comes in, called or refused.
Comes(h) ==
    /\ Others(h) /\ UNCHANGED setup
    /\ hop[h].at = "idle" /\ hop'[h].at \in {"entered", "refused"}
    /\ setup.caller[h] # None => hop[setup.caller[h]].at = "running"
    /\ hop'[h].scope = ScopeOf(h) /\ hop'[h].store \in {None, StoreOf(h)}
    /\ hop'[h].at = "entered" /\ setup.kind[h] # "agent" => hop'[h].store \in Hops
    /\ hop'[h].run \in {h, runs[ScopeOf(h)]} \ {None}
    /\ runs' = [runs EXCEPT ![ScopeOf(h)] = IF @ = None THEN hop'[h].run ELSE @]
    /\ hop'[h].passed \in {h, None, Outside}
    /\ \/ hop'[h].cause \in {h, None, Outside}
       \/ /\ StoreOf(h) \in Hops /\ hop'[h].store = StoreOf(h)
          /\ hop'[h].cause = causes[StoreOf(h)]
    /\ \/ causes' = causes
       \/ /\ StoreOf(h) \in Hops /\ hop'[h].store = StoreOf(h)
          /\ \E v \in {h, Outside} : causes' = [causes EXCEPT ![StoreOf(h)] = v]

\* What h inherits is of its request.
LEMMA Inherited ==
    ASSUME TypeInv, TreeInv, StoreInv, NEW h \in Hops, Callable(h)
    PROVE  /\ ScopeOf(h) = h \/ hop[ScopeOf(h)].at # "idle"
           /\ StoreOf(h) \in Hops \ {h} => /\ hop[StoreOf(h)].scope = ScopeOf(h)
                                           /\ hop[StoreOf(h)].at # "idle"
           /\ setup.caller[h] = None => ScopeOf(h) = h
           /\ setup.caller[h] # None => ScopeOf(h) = hop[setup.caller[h]].scope
<1>1. CASE setup.caller[h] = None
    BY <1>1, NamesAssumption DEF ScopeOf, StoreOf
<1>2. CASE setup.caller[h] # None
    <2>1. /\ setup.caller[h] \in Hops /\ hop[setup.caller[h]].at = "running"
          /\ hop[setup.caller[h]].store \in Hops \cup {None}
        BY <1>2, Setting DEF Callable, TypeInv, HopRecords
    <2>2. ScopeOf(h) = hop[setup.caller[h]].scope /\ ScopeOf(h) \in Hops
        BY <1>2, <2>1 DEF ScopeOf, TreeInv
    <2>3. StoreOf(h) \in {h, None, hop[setup.caller[h]].store}
        BY <1>2 DEF StoreOf
    <2>4. StoreOf(h) \in Hops \ {h} => /\ hop[StoreOf(h)].scope = ScopeOf(h)
                                       /\ hop[StoreOf(h)].at # "idle"
        BY <2>1, <2>2, <2>3, NamesAssumption DEF StoreInv, TreeInv
    <2> QED BY <1>2, <2>1, <2>2, <2>4 DEF TreeInv
<1> QED BY <1>1, <1>2

LEMMA ComesKeeps ==
    ASSUME TypeInv, TypeInv', TreeInv, StoreInv, CauseOfSameRequest, NEW h \in Hops,
           Callable(h), Comes(h)
    PROVE  TreeInv' /\ StoreInv' /\ CauseOfSameRequest'
<1>1. /\ ScopeOf(h) \in Hops /\ StoreOf(h) \in Hops \cup {None}
      /\ ScopeOf(h) = h \/ hop[ScopeOf(h)].at # "idle"
      /\ StoreOf(h) \in Hops \ {h} => /\ hop[StoreOf(h)].scope = ScopeOf(h)
                                      /\ hop[StoreOf(h)].at # "idle"
      /\ setup.caller[h] \in Hops \cup {None}
      /\ setup.caller[h] # None => ScopeOf(h) = hop[setup.caller[h]].scope
      /\ None \notin Hops
    BY Places, Inherited, Setting, NamesAssumption
<1>2. hop[h].scope = None /\ hop'[h].scope \in Hops
    BY <1>1 DEF Comes, TreeInv
<1>3. \A k \in Hops : hop[k].scope \in Hops => k # h /\ hop'[k].scope = hop[k].scope
    BY <1>1, <1>2 DEF Comes, Others, Same
<1>4. TreeInv'
    <2> SUFFICES ASSUME NEW k \in Hops
                 PROVE  /\ hop'[k].at = "idle" => /\ hop'[k].scope = None /\ hop'[k].store = None
                                                  /\ hop'[k].run = None /\ hop'[k].cause = None
                                                  /\ hop'[k].passed = None
                        /\ hop'[k].at # "idle" =>
                             /\ hop'[k].scope \in Hops /\ hop'[hop'[k].scope].at # "idle"
                             /\ setup'.caller[k] # None =>
                                  /\ hop'[setup'.caller[k]].at # "idle"
                                  /\ hop'[setup'.caller[k]].scope = hop'[k].scope
                        /\ Under(k)' /\ setup'.caller[k] # None =>
                             hop'[setup'.caller[k]].at = "running"
                        /\ Under(k)' /\ setup'.kind[k] # "agent" => hop'[k].store \in Hops
        BY DEF TreeInv
    <2>1. setup' = setup /\ setup.caller[k] \in Hops \cup {None}
        BY Setting DEF Comes
    <2>2. CASE k = h
        BY <1>1, <1>2, <1>3, <2>1, <2>2 DEF Comes, Others, Same, Under, TreeInv
    <2>3. CASE k # h
        BY <1>3, <2>1, <2>3 DEF Comes, Others, Same, Under, TreeInv
    <2> QED BY <2>2, <2>3
<1>5. \A k \in Hops : hop[k].at # "idle" => hop'[k].at # "idle" /\ hop[k].scope \in Hops
    BY DEF Comes, Others, Same, TreeInv
<1>6. hop'[h].store # None => hop'[hop'[h].store].scope = hop'[h].scope
    BY <1>1, <1>2, <1>3 DEF Comes
<1>7. StoreInv'
    <2> SUFFICES ASSUME NEW k \in Hops
                 PROVE  /\ hop'[k].store # None => hop'[hop'[k].store].scope = hop'[k].scope
                        /\ runs'[k] # None => hop'[k].at # "idle" /\ hop'[runs'[k]].scope = k
                        /\ causes'[k] # None => hop'[k].at # "idle"
                        /\ causes'[k] \notin {None, Outside} =>
                              hop'[causes'[k]].scope = hop'[k].scope
        BY DEF StoreInv
    <2>1. hop'[k].store # None => hop'[hop'[k].store].scope = hop'[k].scope
        <3>1. CASE k = h
            BY <3>1, <1>6
        <3>2. CASE k # h
            <4>1. hop'[k].store = hop[k].store /\ hop'[k].scope = hop[k].scope
                  /\ hop[k].store \in Hops \cup {None}
                BY <3>2 DEF Comes, Others, Same, TypeInv, HopRecords
            <4> QED BY <4>1, <1>3 DEF StoreInv, TreeInv
        <3> QED BY <3>1, <3>2
    <2>2. runs'[k] # None => hop'[k].at # "idle" /\ hop'[runs'[k]].scope = k
        <3>1. CASE runs'[k] = runs[k]
            <4>1. runs[k] # None => /\ hop[k].at # "idle" /\ hop[runs[k]].scope \in Hops
                                    /\ runs[k] \in Hops /\ hop[runs[k]].scope = k
                BY DEF StoreInv, TypeInv
            <4> QED BY <3>1, <4>1, <1>3, <1>5
        <3>2. CASE runs'[k] # runs[k]
            <4>1. k = ScopeOf(h) /\ runs[k] = None /\ runs'[k] = hop'[h].run
                BY <3>2, <1>1 DEF Comes, TypeInv
            <4>2. hop'[h].run = h /\ hop'[h].scope = k
                BY <4>1 DEF Comes
            <4> QED BY <1>1, <1>5, <4>1, <4>2 DEF Comes
        <3> QED BY <3>1, <3>2
    <2>3. CASE causes'[k] = causes[k]
        <3>1. causes[k] # None => hop[k].at # "idle"
            BY DEF StoreInv
        <3>2. causes[k] \notin {None, Outside} =>
                 causes[k] \in Hops /\ hop[causes[k]].scope = hop[k].scope
            BY DEF StoreInv, TypeInv, Causes
        <3> QED BY <2>1, <2>2, <2>3, <3>1, <3>2, <1>3, <1>5
    <2>4. CASE causes'[k] # causes[k]
        <3>1. k = StoreOf(h) /\ causes'[k] \in {h, Outside} /\ hop'[h].store = k
            BY <2>4 DEF Comes, TypeInv
        <3>2. hop'[k].at # "idle"
            BY <3>1, <1>1, <1>5 DEF Comes
        <3> QED BY <2>1, <2>2, <3>1, <3>2, <1>6, NamesAssumption
    <2> QED BY <2>3, <2>4
<1>8. CauseOfSameRequest'
    <2> SUFFICES ASSUME NEW k \in Hops,
                        NEW x \in {hop'[k].cause, hop'[k].passed, hop'[k].run} \ {None, Outside}
                 PROVE  hop'[x].scope = hop'[k].scope
        BY DEF CauseOfSameRequest
    <2>1. CASE k # h
        <3>1. /\ hop'[k].cause = hop[k].cause /\ hop'[k].passed = hop[k].passed
              /\ hop'[k].run = hop[k].run /\ hop'[k].scope = hop[k].scope
            BY <2>1 DEF Comes, Others, Same
        <3>2. hop[x].scope = hop[k].scope /\ hop[k].at # "idle"
            BY <3>1 DEF CauseOfSameRequest, TreeInv
        <3>3. x \in Hops
            BY <3>1 DEF TypeInv, HopRecords, Causes
        <3> QED BY <3>1, <3>2, <3>3, <1>3, <1>5
    <2>2. CASE k = h /\ x = h
        BY <2>2
    <2>3. CASE k = h /\ x = hop'[h].run /\ x # h
        <3>1. x = runs[ScopeOf(h)] /\ x \in Hops
            BY <2>3, <1>1 DEF Comes, TypeInv
        <3>2. hop[x].scope = ScopeOf(h)
            BY <1>1, <3>1 DEF StoreInv
        <3> QED BY <2>3, <3>1, <3>2, <1>1, <1>3 DEF Comes
    <2>4. CASE k = h /\ x = hop'[h].cause /\ x # h
        <3>1. /\ StoreOf(h) \in Hops /\ hop'[h].store = StoreOf(h) /\ x = causes[StoreOf(h)]
            BY <2>4 DEF Comes
        <3>2. x \in Hops /\ hop[x].scope = hop[StoreOf(h)].scope /\ hop[StoreOf(h)].at # "idle"
            BY <3>1 DEF StoreInv, TypeInv, Causes
        <3>3. hop[StoreOf(h)].scope = ScopeOf(h)
            BY <1>1, <3>1, <3>2 DEF Comes
        <3> QED BY <2>4, <3>2, <3>3, <1>1, <1>3 DEF Comes
    <2> QED BY <2>1, <2>2, <2>3, <2>4 DEF Comes
<1> QED BY <1>4, <1>7, <1>8

\* A hop that has come in goes on.
Goes(h) ==
    /\ Others(h) /\ Stays(h) /\ Under(h)
    /\ hop'[h].at \in {"running", "weighing", "returned", "threw", "refused"}
    /\ hop[h].at = "running" => Awaited(h)
    /\ hop'[h].at = "running" => hop[h].at = "entered"
    /\ \/ hop'[h].cause = hop[h].cause
       \/ hop[h].store \in Hops /\ hop'[h].cause = causes[hop[h].store]
    /\ \/ hop'[h].passed = hop[h].passed
       \/ hop[h].store \in Hops /\ hop'[h].passed = causes[hop[h].store]
    /\ \/ causes' = causes
       \/ hop[h].store \in Hops /\ causes' = [causes EXCEPT ![hop[h].store] = h]

LEMMA GoesKeeps ==
    ASSUME TypeInv, TypeInv', TreeInv, StoreInv, CauseOfSameRequest, NEW h \in Hops, Goes(h)
    PROVE  TreeInv' /\ StoreInv' /\ CauseOfSameRequest'
<1>1. /\ UNCHANGED <<setup, runs>> /\ hop[h].at # "idle" /\ hop'[h].at # "idle"
      /\ \A k \in Hops : /\ hop'[k].scope = hop[k].scope /\ hop'[k].store = hop[k].store
                         /\ hop'[k].run = hop[k].run
                         /\ hop'[k].at = "idle" <=> hop[k].at = "idle"
                         /\ k # h => /\ hop'[k].at = hop[k].at /\ hop'[k].cause = hop[k].cause
                                     /\ hop'[k].passed = hop[k].passed
    BY DEF Goes, Stays, Others, Same, Under
<1>2. \A k \in Hops : setup.caller[k] \in Hops \cup {None}
    BY Setting
<1>3. TreeInv'
    <2>1. \A k \in Hops : Under(k)' /\ setup.caller[k] # None =>
             hop'[setup.caller[k]].at = "running"
        <3> SUFFICES ASSUME NEW k \in Hops, Under(k)', setup.caller[k] # None
                     PROVE  hop'[setup.caller[k]].at = "running"
            OBVIOUS
        <3>1. Under(k) /\ hop[setup.caller[k]].at = "running"
            BY <1>1 DEF Under, TreeInv, Goes
        <3>2. CASE setup.caller[k] # h
            BY <1>1, <1>2, <3>1, <3>2
        <3>3. CASE setup.caller[k] = h
            BY <3>1, <3>3 DEF Goes, Awaited, Children, Under, Ended
        <3> QED BY <3>2, <3>3
    <2>2. \A k \in Hops : Under(k)' => Under(k)
        BY <1>1 DEF Under, Goes
    <2> QED BY <1>1, <1>2, <2>1, <2>2 DEF TreeInv, Goes, Under
<1>4. hop[h].store # None => hop[hop[h].store].scope = hop[h].scope
    BY DEF StoreInv
<1>5. StoreInv'
    <2>1. \A k \in Hops : causes'[k] # causes[k] =>
             k = hop[h].store /\ k # None /\ causes'[k] = h /\ hop[k].scope = hop[h].scope
        BY <1>4, NamesAssumption DEF Goes, TypeInv
    <2>2. \A k \in Hops : hop[k].store \in Hops \cup {None} /\ causes[k] \in Causes
                          /\ runs[k] \in Hops \cup {None}
        BY DEF TypeInv, HopRecords
    <2>3. hop[h].store # None => hop[hop[h].store].at # "idle"
        BY <1>1, <1>4, <2>2, NamesAssumption DEF TreeInv
    <2> SUFFICES ASSUME NEW k \in Hops
                 PROVE  /\ hop'[k].store # None => hop'[hop'[k].store].scope = hop'[k].scope
                        /\ runs'[k] # None => hop'[k].at # "idle" /\ hop'[runs'[k]].scope = k
                        /\ causes'[k] # None => hop'[k].at # "idle"
                        /\ causes'[k] \notin {None, Outside} =>
                              hop'[causes'[k]].scope = hop'[k].scope
        BY DEF StoreInv
    <2>4. CASE causes'[k] = causes[k]
        BY <1>1, <2>2, <2>4 DEF StoreInv, Causes
    <2>5. CASE causes'[k] # causes[k]
        BY <1>1, <2>1, <2>2, <2>3, <2>5 DEF StoreInv
    <2> QED BY <2>4, <2>5
<1>6. CauseOfSameRequest'
    <2> SUFFICES ASSUME NEW k \in Hops,
                        NEW x \in {hop'[k].cause, hop'[k].passed, hop'[k].run} \ {None, Outside}
                 PROVE  hop'[x].scope = hop'[k].scope
        BY DEF CauseOfSameRequest
    <2>1. hop'[k] \in HopRecords
        BY DEF TypeInv
    <2>2. x \in Hops
        BY <2>1 DEF HopRecords, Causes
    <2>3. CASE x \in {hop[k].cause, hop[k].passed, hop[k].run}
        BY <1>1, <2>2, <2>3 DEF CauseOfSameRequest
    <2>4. CASE k = h /\ hop[h].store \in Hops /\ x = causes[hop[h].store]
        <3>1. hop[x].scope = hop[hop[h].store].scope
            BY <2>4 DEF StoreInv
        <3> QED BY <1>1, <1>4, <2>2, <2>4, <3>1, NamesAssumption
    <2> QED BY <1>1, <2>3, <2>4 DEF Goes
<1> QED BY <1>3, <1>5, <1>6

\* What the others have read is disturbed, or still there.
LEMMA ReadKeeps ==
    ASSUME ReadInv, OneCausePerHop, TypeInv, TreeInv, NEW h \in Hops, NEW k \in Hops \ {h},
           Others(h), UNCHANGED setup, ~hop'[k].disturbed => ~hop[k].disturbed,
           \/ causes' = causes
           \/ \E s \in Hops, v \in Causes : /\ causes' = [causes EXCEPT ![s] = v]
                                            /\ Stirred(h, s)
    PROVE  /\ hop'[k].at = "entered" /\ ~hop'[k].disturbed =>
                CASE setup'.kind[k] = "node" -> hop'[k].cause = causes'[hop'[k].store]
                  [] setup'.kind[k] = "agent" -> hop'[k].cause = hop'[k].passed
                  [] OTHER -> hop'[k].passed = causes'[hop'[k].store]
           /\ hop'[k].at = "running" /\ ~hop'[k].disturbed => hop'[k].cause = hop'[k].passed
<1>1. Same(k)
    BY DEF Others
<1>2. hop'[k].at = "running" /\ ~hop'[k].disturbed => hop'[k].cause = hop'[k].passed
    BY <1>1 DEF Same, OneCausePerHop
<1>3. ASSUME hop'[k].at = "entered", ~hop'[k].disturbed
      PROVE  /\ hop[k].at = "entered" /\ ~hop[k].disturbed
             /\ setup.kind[k] # "agent" => causes'[hop[k].store] = causes[hop[k].store]
    <2>1. hop[k].at = "entered" /\ ~hop[k].disturbed
        BY <1>1, <1>3 DEF Same
    <2>2. setup.kind[k] # "agent" => hop[k].store \in Hops
        BY <2>1 DEF TreeInv, Under
    <2> QED BY <1>3, <2>1, <2>2 DEF Stirred, TypeInv
<1>4. setup.kind[k] \in Kinds
    BY Setting
<1> QED BY <1>1, <1>2, <1>3, <1>4 DEF Same, ReadInv, Kinds

LEMMA CauseStart == Init => CauseInv
<1> SUFFICES ASSUME Init PROVE CauseInv
    OBVIOUS
<1>1. \A h \in Hops : hop[h] = NewHop /\ runs[h] = None /\ causes[h] = None
    BY DEF Init
<1>2. TypeInv
    BY NewIs DEF Init, TypeInv, Causes
<1>3. TreeInv /\ StoreInv /\ ReadInv
    BY <1>1 DEF TreeInv, StoreInv, ReadInv, NewHop, Under
<1>4. CauseOfSameRequest /\ OneCausePerHop
    BY <1>1 DEF CauseOfSameRequest, OneCausePerHop, NewHop
<1> QED BY <1>2, <1>3, <1>4 DEF CauseInv

\* Each clause of ReadInv and OneCausePerHop, for the hop that moves.
OwnRead(h) ==
    /\ hop[h].at = "entered" /\ ~hop[h].disturbed =>
          CASE setup.kind[h] = "node" -> hop[h].cause = causes[hop[h].store]
            [] setup.kind[h] = "agent" -> hop[h].cause = hop[h].passed
            [] OTHER -> hop[h].passed = causes[hop[h].store]
    /\ hop[h].at = "running" /\ ~hop[h].disturbed => hop[h].cause = hop[h].passed

LEMMA CauseStep == CauseInv /\ [Next]_vars => CauseInv'
<1> SUFFICES ASSUME CauseInv, [Next]_vars PROVE CauseInv'
    OBVIOUS
<1> USE DEF CauseInv
<1>1. ASSUME NEW h \in Hops, TypeInv', TreeInv', StoreInv', CauseOfSameRequest', OwnRead(h)',
             Others(h), UNCHANGED setup,
             \A k \in Hops \ {h} : ~hop'[k].disturbed => ~hop[k].disturbed,
             \/ causes' = causes
             \/ \E s \in Hops, v \in Causes : /\ causes' = [causes EXCEPT ![s] = v]
                                              /\ Stirred(h, s)
      PROVE  CauseInv'
    <2>1. \A k \in Hops : OwnRead(k)'
        BY <1>1, ReadKeeps DEF OwnRead
    <2> QED BY <1>1, <2>1 DEF OwnRead, ReadInv, OneCausePerHop
<1>2. ASSUME NEW h \in Hops, NEW given \in setup.given, NEW own \in setup.ownRuns,
             Enter(h, given, own)
      PROVE  CauseInv'
    <2> DEFINE seed == Seed(h, given)
    <2>0. /\ TypeInv' /\ Others(h) /\ UNCHANGED setup /\ hop[h].at = "idle"
          /\ setup.caller[h] # None => hop[setup.caller[h]].at = "running"
          /\ hop'[h].at = "entered" /\ ~hop'[h].disturbed
          /\ hop'[h].store = StoreOf(h) /\ hop'[h].scope = ScopeOf(h)
          /\ hop'[h].run = RunOf(h, own)
          /\ runs' = [runs EXCEPT ![ScopeOf(h)] = IF @ = None THEN RunOf(h, own) ELSE @]
          /\ setup.kind[h] = "agent" =>
                /\ hop'[h].cause = h /\ hop'[h].passed = h /\ causes' = causes
          /\ setup.kind[h] = "node" /\ given = None =>
                /\ hop'[h].cause = causes[StoreOf(h)] /\ hop'[h].passed = None
                /\ causes' = causes
          /\ setup.kind[h] = "node" /\ given # None =>
                /\ hop'[h].cause = given /\ hop'[h].passed = None
                /\ causes' = [causes EXCEPT ![StoreOf(h)] = given]
          /\ setup.kind[h] = "orchestrator" =>
                /\ hop'[h].cause = None /\ hop'[h].passed = CauseFor(h, given)
                /\ causes' = [causes EXCEPT ![StoreOf(h)] = CauseFor(h, given)]
          /\ seed # None => Stirred(h, StoreOf(h))
        BY <1>2, EnterDoes
    <2>1. /\ Callable(h) /\ given \in {None, Outside} /\ own \in BOOLEAN
          /\ setup.kind[h] \in Kinds
        BY <1>2, Setting DEF Enter
    <2>2. /\ StoreOf(h) \in Hops \cup {None}
          /\ setup.kind[h] # "agent" => StoreOf(h) \in Hops
          /\ RunOf(h, own) \in {h, runs[ScopeOf(h)]} \ {None}
        BY <2>1, Places
    <2>3. setup.kind[h] = "orchestrator" => CauseFor(h, given) \in {h, Outside}
        BY <2>1 DEF CauseFor
    <2>4. Comes(h)
        <3>1. /\ hop'[h].passed \in {h, None, Outside}
              /\ \/ hop'[h].cause \in {h, None, Outside}
                 \/ /\ StoreOf(h) \in Hops /\ hop'[h].store = StoreOf(h)
                    /\ hop'[h].cause = causes[StoreOf(h)]
              /\ \/ causes' = causes
                 \/ /\ StoreOf(h) \in Hops /\ hop'[h].store = StoreOf(h)
                    /\ \E v \in {h, Outside} : causes' = [causes EXCEPT ![StoreOf(h)] = v]
            <4>1. CASE setup.kind[h] = "agent"
                BY <2>0, <4>1
            <4>2. CASE setup.kind[h] = "node"
                BY <2>0, <2>1, <2>2, <4>2
            <4>3. CASE setup.kind[h] = "orchestrator"
                BY <2>0, <2>2, <2>3, <4>3
            <4> QED BY <2>1, <4>1, <4>2, <4>3 DEF Kinds
        <3> QED BY <2>0, <2>2, <3>1 DEF Comes
    <2>5. TypeInv' /\ TreeInv' /\ StoreInv' /\ CauseOfSameRequest'
        BY <1>2, <2>1, <2>4, EnterDoes, ComesKeeps
    <2>6. OwnRead(h)'
        <3>1. setup.kind[h] = "node" => hop'[h].cause = causes'[hop'[h].store]
            BY <2>0, <2>2 DEF TypeInv
        <3>2. setup.kind[h] = "orchestrator" => hop'[h].passed = causes'[hop'[h].store]
            BY <2>0, <2>2 DEF TypeInv
        <3> QED BY <2>0, <2>1, <3>1, <3>2 DEF OwnRead, Kinds
    <2>7. \/ causes' = causes
          \/ \E s \in Hops, v \in Causes : /\ causes' = [causes EXCEPT ![s] = v]
                                           /\ Stirred(h, s)
        <3>1. CASE setup.kind[h] = "agent" \/ (setup.kind[h] = "node" /\ given = None)
            BY <2>0, <3>1
        <3>2. CASE setup.kind[h] = "node" /\ given # None
            <4>1. Seed(h, given) = given
                BY <3>2 DEF Seed, CauseFor
            <4>2. given \in Causes /\ StoreOf(h) \in Hops
                BY <2>1, <2>2, <3>2 DEF Causes
            <4> QED BY <2>0, <3>2, <4>1, <4>2
        <3>3. CASE setup.kind[h] = "orchestrator"
            <4>1. Seed(h, given) = CauseFor(h, given) /\ CauseFor(h, given) # None
                BY <2>3, <3>3, NamesAssumption DEF Seed
            <4>2. CauseFor(h, given) \in Causes /\ StoreOf(h) \in Hops
                BY <2>2, <2>3, <3>3 DEF Causes
            <4> QED BY <2>0, <3>3, <4>1, <4>2
        <3> QED BY <2>1, <3>1, <3>2, <3>3 DEF Kinds
    <2> QED BY <1>1, <1>2, <2>5, <2>6, <2>7, EnterDoes
<1>3. ASSUME NEW h \in Hops, NEW own \in setup.ownRuns, RefuseParameters(h, own)
      PROVE  CauseInv'
    <2>1. Callable(h) /\ own \in BOOLEAN
        BY <1>3, Setting DEF RefuseParameters
    <2>2. Comes(h)
        <3>1. RunOf(h, own) \in {h, runs[ScopeOf(h)]} \ {None}
            BY <2>1, Places
        <3>2. /\ Others(h) /\ UNCHANGED <<setup, causes>> /\ hop[h].at = "idle"
              /\ setup.caller[h] # None => hop[setup.caller[h]].at = "running"
              /\ hop'[h].at = "refused" /\ hop'[h].store = None
              /\ hop'[h].scope = ScopeOf(h) /\ hop'[h].run = RunOf(h, own)
              /\ hop'[h].cause = None /\ hop'[h].passed = None
              /\ runs' = [runs EXCEPT ![ScopeOf(h)] = IF @ = None THEN RunOf(h, own) ELSE @]
            BY <1>3, RefuseParametersDoes
        <3> QED BY <3>1, <3>2 DEF Comes
    <2>3. TypeInv' /\ TreeInv' /\ StoreInv' /\ CauseOfSameRequest'
        BY <1>3, <2>1, <2>2, RefuseParametersDoes, ComesKeeps
    <2>4. OwnRead(h)'
        BY <1>3, RefuseParametersDoes DEF OwnRead
    <2> QED BY <1>1, <1>3, <2>3, <2>4, RefuseParametersDoes DEF Calm
<1>4. ASSUME NEW h \in Hops, RefuseCall(h) PROVE CauseInv'
    <2>1. Goes(h)
        BY <1>4, RefuseCallDoes DEF Goes, Under
    <2>2. TypeInv' /\ TreeInv' /\ StoreInv' /\ CauseOfSameRequest'
        BY <1>4, <2>1, RefuseCallDoes, GoesKeeps
    <2>3. OwnRead(h)'
        BY <1>4, RefuseCallDoes DEF OwnRead
    <2> QED BY <1>1, <1>4, <2>2, <2>3, RefuseCallDoes DEF Calm, Stays
<1>5. ASSUME NEW h \in Hops, Resolve(h) PROVE CauseInv'
    <2>1. setup.kind[h] # "agent" => hop[h].store \in Hops
        BY <1>5, ResolveDoes DEF TreeInv, Under
    <2>2. Goes(h)
        BY <1>5, <2>1, ResolveDoes DEF Goes, Under
    <2>3. TypeInv' /\ TreeInv' /\ StoreInv' /\ CauseOfSameRequest'
        BY <1>5, <2>2, ResolveDoes, GoesKeeps
    <2>4. OwnRead(h)'
        <3>1. hop[h].at = "entered" /\ setup.kind[h] \in Kinds
            BY <1>5, ResolveDoes, Setting
        <3> QED BY <1>5, <3>1, ResolveDoes DEF OwnRead, ReadInv, Kinds, Stays
    <2> QED BY <1>1, <1>5, <2>3, <2>4, ResolveDoes DEF Calm, Stays
<1>6. ASSUME NEW h \in Hops, NEW reason \in Reasons \cup {None}, NEW ids \in BOOLEAN,
             FnReturns(h, reason, ids)
      PROVE  CauseInv'
    <2>1. Goes(h)
        BY <1>6, FnReturnsDoes DEF Goes, Under
    <2>2. TypeInv' /\ TreeInv' /\ StoreInv' /\ CauseOfSameRequest'
        BY <1>6, <2>1, FnReturnsDoes, GoesKeeps
    <2>3. OwnRead(h)'
        BY <1>6, FnReturnsDoes DEF OwnRead
    <2>4. h \in Causes
        BY DEF Causes
    <2> QED BY <1>1, <1>6, <2>2, <2>3, <2>4, FnReturnsDoes DEF Stays
<1>7. ASSUME NEW h \in Hops, NEW e \in Throwable(h), FnThrows(h, e) PROVE CauseInv'
    <2>1. Goes(h)
        BY <1>7, FnThrowsDoes DEF Goes, Under
    <2>2. TypeInv' /\ TreeInv' /\ StoreInv' /\ CauseOfSameRequest'
        BY <1>7, <2>1, FnThrowsDoes, GoesKeeps
    <2>3. OwnRead(h)'
        BY <1>7, FnThrowsDoes DEF OwnRead
    <2> QED BY <1>1, <1>7, <2>2, <2>3, FnThrowsDoes DEF Calm, Stays
<1>8. ASSUME NEW h \in Hops, NEW reached \in BOOLEAN, NEW created \in BOOLEAN,
             Weigh(h, reached, created)
      PROVE  CauseInv'
    <2>1. Goes(h)
        BY <1>8, WeighDoes DEF Goes, Under
    <2>2. TypeInv' /\ TreeInv' /\ StoreInv' /\ CauseOfSameRequest'
        BY <1>8, <2>1, WeighDoes, GoesKeeps
    <2>3. OwnRead(h)'
        BY <1>8, WeighDoes DEF OwnRead
    <2> QED BY <1>1, <1>8, <2>2, <2>3, WeighDoes DEF Calm, Stays
<1>9. CASE UNCHANGED vars
    BY <1>9 DEF vars, TypeInv, TreeInv, Under, StoreInv, ReadInv, CauseOfSameRequest,
                OneCausePerHop
<1> QED BY <1>2, <1>3, <1>4, <1>5, <1>6, <1>7, <1>8, <1>9 DEF Next

LEMMA CauseInvariance == Spec => []CauseInv
    BY CauseStart, CauseStep, PTL DEF Spec

\* CausesKept: the causes and runs a hop records and passes on are of its own
\* request, and the same on both sides of its await unless it was disturbed,
\* for any tree of calls and any number of requests.
THEOREM CausesAreKept == Spec => []CausesKept
<1>1. CauseInv => CausesKept
    BY DEF CauseInv, CausesKept
<1> QED BY <1>1, CauseInvariance, PTL

----------------------------------------------------------------------------
(***************************************************************************)
(* Errors.                                                                 *)
(***************************************************************************)
Err(h) == hop[h].error

LifeInv ==
    \A h \in Hops :
        /\ hop[h].at \in {"idle", "entered", "running"} =>
              Err(h) = NoError /\ hop[h].decision = None
        /\ hop[h].at = "weighing" => ~Err(h).marked /\ hop[h].decision = None
        /\ hop[h].at = "refused" => /\ Err(h).from # None /\ ~Err(h).marked
                                    /\ hop[h].decision = None
        /\ hop[h].at = "threw" => Err(h).from # None /\ hop[h].decision # None
        /\ hop[h].at = "returned" => Err(h) = NoError /\ hop[h].decision # None

\* What one error says in the hop that threw it and in those that hold it.
ErrorInv ==
    \A h \in Hops :
        /\ Err(h).from = None => Err(h) = NoError
        /\ Err(h).from # None => /\ Err(Err(h).from).from = Err(h).from
                                 /\ Err(Err(h).from).object = Err(h).object
        /\ Err(h).marked => Err(h).denied /\ Err(h).object
        /\ Err(h).escalated => Err(h).marked
        /\ made[h] > 0 => Err(h).from = h
        /\ made[h] > 1 => ~Err(h).object
        /\ Err(h).marked /\ made[Err(h).from] > 0 => Err(h).escalated

\* The error of h is in its caller's hands as well.
Passed(h) == setup.caller[h] # None /\ Err(setup.caller[h]).from = Err(h).from

HolderInv ==
    /\ \A j, k \in Hops :
          Err(j).from # None /\ Err(j).from = Err(k).from /\ ~Passed(j) /\ ~Passed(k) => j = k
    /\ \A h \in Hops :
          Err(h).from # None /\ ~Passed(h) /\ ~Err(h).marked /\ Err(h).object =>
              /\ made[Err(h).from] = 0
              /\ \A j \in Hops : Err(j).from = Err(h).from => ~Err(j).marked

LEMMA ErrIs ==
    ASSUME TypeInv, NEW h \in Hops
    PROVE  /\ Err(h) \in Errors /\ made[h] \in Nat
           /\ setup.caller[h] \in Hops \cup {None} /\ None \notin Hops
    BY Setting, NamesAssumption DEF TypeInv, HopRecords, Err

LEMMA NoErrorIs ==
    NoError.from = None /\ ~NoError.marked /\ ~NoError.escalated /\ NoError.object
    BY DEF NoError

\* No error moves.
LEMMA UnmovedKeeps ==
    ASSUME ErrorInv, HolderInv, UNCHANGED <<setup, made>>, TypeInv,
           \A k \in Hops : Err(k)' = Err(k)
    PROVE  ErrorInv' /\ HolderInv'
<1>1. \A k \in Hops : /\ Err(k).from \in Hops \cup {None}
                      /\ setup.caller[k] \in Hops \cup {None} /\ setup' = setup /\ made' = made
    BY ErrIs DEF Errors
<1>2. ErrorInv'
    BY <1>1 DEF ErrorInv
<1>3. \A k \in Hops : Passed(k)' = Passed(k)
    BY <1>1 DEF Passed
<1>4. HolderInv'
    BY <1>1, <1>3 DEF HolderInv
<1> QED BY <1>2, <1>4

\* An error is thrown for the first time.
LEMMA NewKeeps ==
    ASSUME TypeInv, TypeInv', ErrorInv, HolderInv, NEW h \in Hops, UNCHANGED <<setup, made>>,
           \A k \in Hops \ {h} : Err(k)' = Err(k), Err(h) = NoError, setup.caller[h] # h,
           Err(h)'.from = h, ~Err(h)'.marked, ~Err(h)'.escalated
    PROVE  ErrorInv' /\ HolderInv'
<1>1. \A k \in Hops : /\ Err(k).from \in Hops \cup {None}
                      /\ setup.caller[k] \in Hops \cup {None} /\ setup' = setup /\ made' = made
                      /\ made[k] \in Nat /\ None \notin Hops
    BY ErrIs DEF Errors
<1>2. made[h] = 0 /\ \A k \in Hops : Err(k).from # h
    BY <1>1, NoErrorIs DEF ErrorInv
<1>3. ErrorInv'
    BY <1>1, <1>2, NoErrorIs DEF ErrorInv
<1>4. \A k \in Hops \ {h} : Err(k).from # None => Passed(k)' = Passed(k)
    BY <1>1, <1>2, NoErrorIs DEF Passed
<1>5. \A k \in Hops \ {h} : Err(k)'.from # h
    BY <1>2
<1>6. HolderInv'
    BY <1>1, <1>2, <1>4, <1>5 DEF HolderInv
<1> QED BY <1>3, <1>6

\* The error of k, which h called, becomes the error of h.
LEMMA PassKeeps ==
    ASSUME TypeInv, TypeInv', ErrorInv, HolderInv, NEW h \in Hops, NEW k \in Hops,
           UNCHANGED <<setup, made>>, setup.caller[k] = h, Err(k).from # None,
           \A j \in Hops \ {h} : Err(j)' = Err(j), Err(h) = NoError, Err(h)' = Err(k),
           setup.caller[h] = None \/ (setup.caller[h] # h /\ Err(setup.caller[h]) = NoError)
    PROVE  ErrorInv' /\ HolderInv'
<1> DEFINE o == Err(k).from
<1>1. \A j \in Hops : /\ Err(j).from \in Hops \cup {None}
                      /\ setup.caller[j] \in Hops \cup {None} /\ setup' = setup /\ made' = made
                      /\ made[j] \in Nat /\ None \notin Hops
    BY ErrIs DEF Errors
<1>2. k # h /\ o \in Hops \ {h} /\ ~Passed(k) /\ made[h] = 0
    BY <1>1, NoErrorIs DEF ErrorInv, Passed
<1>3. ErrorInv'
    BY <1>1, <1>2, NoErrorIs DEF ErrorInv
<1>4. ~Passed(h)' /\ Passed(k)'
    BY <1>1, <1>2, NoErrorIs DEF Passed
<1>5. \A j \in Hops \ {h} : /\ Err(j).from = o => Passed(j)'
                            /\ Err(j).from \notin {None, o} => Passed(j)' = Passed(j)
    <2> TAKE j \in Hops \ {h}
    <2>1. ASSUME Err(j).from = o, j # k PROVE Passed(j)'
        <3>1. Passed(j)
            BY <1>2, <2>1 DEF HolderInv
        <3>2. setup.caller[j] # h
            BY <1>2, <3>1, <2>1, NoErrorIs DEF Passed
        <3> QED BY <1>1, <2>1, <3>1, <3>2 DEF Passed
    <2>2. ASSUME Err(j).from \notin {None, o} PROVE Passed(j)' = Passed(j)
        BY <1>1, <2>2, NoErrorIs DEF Passed
    <2> QED BY <1>4, <2>1, <2>2
<1>6. HolderInv'
    <2>1. \A i, j \in Hops : Err(i)'.from # None /\ Err(i)'.from = Err(j)'.from
                             /\ ~Passed(i)' /\ ~Passed(j)' => i = j
        BY <1>4, <1>5 DEF HolderInv
    <2>2. \A i \in Hops \ {h} :
             Err(i)'.from # None /\ ~Passed(i)' /\ ~Err(i)'.marked /\ Err(i)'.object =>
                 /\ made'[Err(i)'.from] = 0
                 /\ \A j \in Hops : Err(j)'.from = Err(i)'.from => ~Err(j)'.marked
        BY <1>1, <1>5 DEF HolderInv
    <2>3. ~Err(h)'.marked /\ Err(h)'.object =>
                 /\ made'[o] = 0
                 /\ \A j \in Hops : Err(j)'.from = o => ~Err(j)'.marked
        BY <1>1, <1>2 DEF HolderInv
    <2> QED BY <2>1, <2>2, <2>3 DEF HolderInv
<1> QED BY <1>3, <1>6

\* An outcome is marked as denied, with an escalation or without.
LEMMA MarkKeeps ==
    ASSUME TypeInv, TypeInv', ErrorInv, HolderInv, NEW h \in Hops, NEW o \in Hops, UNCHANGED setup,
           \A k \in Hops \ {h} : Err(k)' = Err(k),
           ~Err(h).marked, Err(h).object,
           Err(h).from = o \/ (Err(h).from = None /\ o = h),
           setup.caller[h] = None \/ (setup.caller[h] # h /\ Err(setup.caller[h]) = NoError),
           Err(h)'.from = o, Err(h)'.object, Err(h)'.denied, Err(h)'.marked,
           \/ ~Err(h)'.escalated /\ made' = made
           \/ Err(h)'.escalated /\ made' = [made EXCEPT ![o] = @ + 1]
    PROVE  ErrorInv' /\ HolderInv'
<1>1. \A k \in Hops : /\ Err(k).from \in Hops \cup {None}
                      /\ setup.caller[k] \in Hops \cup {None} /\ setup' = setup
                      /\ made[k] \in Nat /\ None \notin Hops
    BY ErrIs DEF Errors
<1>2. made[o] = 0 /\ \A k \in Hops : Err(k).from = o => ~Err(k).marked
    <2>1. CASE Err(h).from = o
        <3>1. ~Passed(h)
            BY <1>1, <2>1, NoErrorIs DEF Passed
        <3> QED BY <1>1, <2>1, <3>1 DEF HolderInv
    <2>2. CASE Err(h).from = None /\ o = h
        BY <1>1, <2>2 DEF ErrorInv
    <2> QED BY <2>1, <2>2
<1>3. Err(o).from \in {None, o} /\ Err(o)'.from = o /\ Err(o)'.object
      /\ \A k \in Hops : Err(k)'.from = o => Err(k)'.object
    BY <1>1 DEF ErrorInv
<1>4. /\ made'[o] \in {0, 1}
      /\ made'[o] = 1 <=> Err(h)'.escalated
      /\ \A k \in Hops \ {o} : made'[k] = made[k]
    BY <1>1, <1>2 DEF TypeInv
<1>5. \A k \in Hops \ {h} : Err(k)'.from = o => ~Err(k)'.marked
    BY <1>2
<1>6. ErrorInv'
    <2> SUFFICES ASSUME NEW k \in Hops
                 PROVE  /\ Err(k)'.from = None => Err(k)' = NoError
                        /\ Err(k)'.from # None =>
                             /\ hop'[Err(k)'.from].error.from = Err(k)'.from
                             /\ hop'[Err(k)'.from].error.object = Err(k)'.object
                        /\ Err(k)'.marked => Err(k)'.denied /\ Err(k)'.object
                        /\ Err(k)'.escalated => Err(k)'.marked
                        /\ made'[k] > 0 => Err(k)'.from = k
                        /\ made'[k] > 1 => ~Err(k)'.object
                        /\ Err(k)'.marked /\ made'[Err(k)'.from] > 0 => Err(k)'.escalated
        BY DEF ErrorInv, Err
    <2>0. \A j \in Hops : /\ hop'[j].error = Err(j)'
                          /\ Err(j)'.object \in BOOLEAN /\ Err(j).object \in BOOLEAN
                          /\ Err(j)'.from \in Hops \cup {None}
        BY DEF Err, TypeInv, HopRecords, Errors
    <2>1. made'[k] > 0 => Err(k)'.from = k
        BY <1>1, <1>3, <1>4 DEF ErrorInv
    <2>2. made'[k] > 1 => ~Err(k)'.object
        BY <1>1, <1>4 DEF ErrorInv
    <2>3. CASE k = h
        BY <1>1, <1>3, <1>4, <2>0, <2>1, <2>2, <2>3
    <2>4. CASE k # h /\ Err(k).from = o
        BY <1>1, <1>3, <1>4, <1>5, <2>0, <2>1, <2>2, <2>4 DEF ErrorInv
    <2>5. CASE k # h /\ Err(k).from # o
        <3>1. Err(k).from # None => Err(k).from # h
            BY <1>1, <2>5 DEF ErrorInv
        <3>2. /\ Err(k)' = Err(k) /\ Err(k).from \in Hops \cup {None}
              /\ Err(k).from # None => /\ hop'[Err(k).from].error = Err(Err(k).from)
                                       /\ made'[Err(k).from] = made[Err(k).from]
            BY <1>1, <1>4, <2>0, <2>5, <3>1
        <3>3. Err(k).marked => Err(k).from # None
            BY <1>1, NoErrorIs DEF ErrorInv
        <3> QED BY <2>1, <2>2, <3>2, <3>3 DEF ErrorInv
    <2> QED BY <2>3, <2>4, <2>5
<1>7. \A k \in Hops \ {h} : Err(k).from # None => Passed(k)' = Passed(k)
    BY <1>1 DEF Passed, ErrorInv
<1>8. Err(h).from = o => Passed(h)' = Passed(h)
    BY <1>1 DEF Passed
<1>9. Err(h).from = None => \A k \in Hops : Err(k).from # o
    BY <1>1 DEF ErrorInv
<1>10. HolderInv'
    <2>1. \A i, j \in Hops : Err(i)'.from # None /\ Err(i)'.from = Err(j)'.from
                             /\ ~Passed(i)' /\ ~Passed(j)' => i = j
        BY <1>7, <1>8, <1>9 DEF HolderInv
    <2>2. \A i \in Hops :
             Err(i)'.from # None /\ ~Passed(i)' /\ ~Err(i)'.marked /\ Err(i)'.object =>
                 /\ made'[Err(i)'.from] = 0
                 /\ \A j \in Hops : Err(j)'.from = Err(i)'.from => ~Err(j)'.marked
        <3> SUFFICES ASSUME NEW i \in Hops, Err(i)'.from # None, ~Passed(i)', ~Err(i)'.marked,
                            Err(i)'.object
                     PROVE  /\ made'[Err(i)'.from] = 0
                            /\ \A j \in Hops : Err(j)'.from = Err(i)'.from => ~Err(j)'.marked
            OBVIOUS
        <3>1. i # h /\ ~Passed(i)
            BY <1>7
        <3>2. /\ made[Err(i).from] = 0
              /\ \A j \in Hops : Err(j).from = Err(i).from => ~Err(j).marked
            BY <3>1 DEF HolderInv
        <3>3. Err(i).from # o
            <4>1. CASE Err(h).from = None
                BY <1>9, <4>1
            <4>2. CASE Err(h).from = o /\ Err(i).from = o
                <5>1. ~Passed(h)
                    BY <1>1, <4>2, NoErrorIs DEF Passed
                <5> QED BY <3>1, <4>2, <5>1 DEF HolderInv
            <4> QED BY <4>1, <4>2
        <3> QED BY <1>1, <1>4, <3>1, <3>2, <3>3
    <2> QED BY <2>1, <2>2 DEF HolderInv
<1> QED BY <1>6, <1>10

\* A string is not marked, however often it is put before a human.
LEMMA StringKeeps ==
    ASSUME TypeInv, ErrorInv, HolderInv, NEW h \in Hops, UNCHANGED setup,
           \A k \in Hops : Err(k)' = Err(k), ~Err(h).object, Err(h).from # None,
           made' = [made EXCEPT ![Err(h).from] = @ + 1]
    PROVE  ErrorInv' /\ HolderInv'
<1> DEFINE o == Err(h).from
<1>1. \A k \in Hops : /\ Err(k).from \in Hops \cup {None}
                      /\ setup.caller[k] \in Hops \cup {None} /\ setup' = setup
                      /\ made[k] \in Nat
    BY ErrIs DEF Errors
<1>2. o \in Hops /\ \A k \in Hops \ {o} : made'[k] = made[k]
    BY <1>1 DEF TypeInv
<1>3. /\ Err(o).from = o /\ ~Err(o).object
      /\ \A k \in Hops : Err(k).from = o => ~Err(k).object /\ ~Err(k).marked
    BY <1>1, <1>2 DEF ErrorInv
<1>4. ErrorInv'
    BY <1>1, <1>2, <1>3 DEF ErrorInv
<1>5. \A k \in Hops : Passed(k)' = Passed(k)
    BY <1>1 DEF Passed
<1>6. HolderInv'
    BY <1>1, <1>2, <1>3, <1>5 DEF HolderInv
<1> QED BY <1>4, <1>6

\* Records stay, so that only the hop that moves may owe one.
LEMMA RecordsKeep ==
    ASSUME DeniedIsRecorded, NEW h \in Hops, Others(h), hop[h].decision # "deny",
           hop'[h].at = "threw" /\ Err(h)'.denied =>
              \E k \in Hops : /\ hop'[k].decision = "deny" /\ hop'[k].scope = hop'[h].scope
                              /\ Err(k)'.from = Err(h)'.from
    PROVE  DeniedIsRecorded'
<1> SUFFICES ASSUME NEW j \in Hops, hop'[j].at = "threw", Err(j)'.denied
             PROVE  \E k \in Hops : /\ hop'[k].decision = "deny" /\ hop'[k].scope = hop'[j].scope
                                    /\ Err(k)'.from = Err(j)'.from
    BY DEF DeniedIsRecorded, Err
<1>1. CASE j = h
    BY <1>1
<1>2. CASE j # h
    <2>1. hop[j].at = "threw" /\ Err(j).denied /\ hop'[j].scope = hop[j].scope
          /\ Err(j)' = Err(j)
        BY <1>2 DEF Others, Same, Err
    <2>2. PICK k \in Hops : /\ hop[k].decision = "deny" /\ hop[k].scope = hop[j].scope
                            /\ Err(k).from = Err(j).from
        BY <2>1 DEF DeniedIsRecorded, Err
    <2>3. k # h
        BY <2>2
    <2> QED BY <2>1, <2>2, <2>3 DEF Others, Same, Err
<1> QED BY <1>1, <1>2

\* The other hops live as they did.
LEMMA LivesKeep ==
    ASSUME LifeInv, NEW h \in Hops, Others(h),
           /\ hop'[h].at \in {"idle", "entered", "running"} =>
                 Err(h)' = NoError /\ hop'[h].decision = None
           /\ hop'[h].at = "weighing" => ~Err(h)'.marked /\ hop'[h].decision = None
           /\ hop'[h].at = "refused" => /\ Err(h)'.from # None /\ ~Err(h)'.marked
                                        /\ hop'[h].decision = None
           /\ hop'[h].at = "threw" => Err(h)'.from # None /\ hop'[h].decision # None
           /\ hop'[h].at = "returned" => Err(h)' = NoError /\ hop'[h].decision # None
    PROVE  LifeInv' /\ \A k \in Hops \ {h} : Err(k)' = Err(k)
<1>1. \A k \in Hops \ {h} : /\ hop'[k].at = hop[k].at /\ hop'[k].decision = hop[k].decision
                            /\ Err(k)' = Err(k)
    BY DEF Others, Same, Err
<1> QED BY <1>1 DEF LifeInv

AllInv == CauseInv /\ LifeInv /\ ErrorInv /\ HolderInv /\ DeniedIsRecorded

LEMMA AllStart == Init => AllInv
<1> SUFFICES ASSUME Init PROVE AllInv
    OBVIOUS
<1>1. \A h \in Hops : hop[h] = NewHop /\ made[h] = 0
    BY DEF Init
<1>2. \A h \in Hops : /\ Err(h) = NoError /\ hop[h].at = "idle" /\ hop[h].decision = None
                      /\ made[h] = 0
    BY <1>1 DEF Err, NewHop
<1>3. LifeInv
    BY <1>2 DEF LifeInv
<1>4. ErrorInv /\ HolderInv
    BY <1>2, NoErrorIs DEF ErrorInv, HolderInv
<1>5. DeniedIsRecorded
    BY <1>2 DEF DeniedIsRecorded
<1> QED BY <1>3, <1>4, <1>5, CauseStart DEF AllInv

LEMMA AllStep == AllInv /\ [Next]_vars => AllInv'
<1> SUFFICES ASSUME AllInv, [Next]_vars PROVE AllInv'
    OBVIOUS
<1>0. CauseInv' /\ TypeInv' /\ TypeInv /\ TreeInv
    BY CauseStep DEF AllInv, CauseInv
<1>a. \A h \in Hops : /\ hop[h] \in HopRecords /\ setup.caller[h] \in Hops \cup {None}
                      /\ None \notin Hops /\ None \notin {"allow", "deny"}
    BY <1>0, Setting, NamesAssumption DEF TypeInv
<1> USE DEF AllInv
<1>1. ASSUME NEW h \in Hops, Others(h), UNCHANGED <<setup, made>>, Err(h) = NoError,
             hop[h].decision = None, hop'[h].decision = None,
             hop'[h].at \in {"entered", "running", "weighing"}, Err(h)' = NoError
      PROVE  AllInv'
    <2>1. LifeInv' /\ \A k \in Hops \ {h} : Err(k)' = Err(k)
        BY <1>1, LivesKeep, NoErrorIs
    <2>2. ErrorInv' /\ HolderInv'
        BY <1>0, <1>1, <2>1, UnmovedKeeps
    <2>3. DeniedIsRecorded'
        BY <1>1, <1>a, RecordsKeep
    <2> QED BY <1>0, <2>1, <2>2, <2>3
<1>2. ASSUME NEW h \in Hops, Others(h), UNCHANGED <<setup, made>>, Err(h) = NoError,
             hop[h].decision = None, hop'[h].decision = None, setup.caller[h] # h,
             hop'[h].at \in {"refused", "weighing"}, Err(h)'.from = h, ~Err(h)'.marked,
             ~Err(h)'.escalated
      PROVE  AllInv'
    <2>1. LifeInv' /\ \A k \in Hops \ {h} : Err(k)' = Err(k)
        BY <1>1, <1>2, <1>a, LivesKeep
    <2>2. ErrorInv' /\ HolderInv'
        BY <1>0, <1>2, <2>1, NewKeeps
    <2>3. DeniedIsRecorded'
        BY <1>2, <1>a, RecordsKeep
    <2> QED BY <1>0, <2>1, <2>2, <2>3
<1>3. ASSUME NEW h \in Hops, NEW given \in setup.given, NEW own \in setup.ownRuns,
             Enter(h, given, own)
      PROVE  AllInv'
    <2>1. hop[h].at = "idle" /\ hop'[h].error = NoError /\ hop'[h].decision = None
          /\ hop'[h].at = "entered" /\ Others(h) /\ UNCHANGED <<setup, made>>
        BY <1>0, <1>3, EnterDoes
    <2> QED BY <1>1, <2>1 DEF LifeInv, Err
<1>4. ASSUME NEW h \in Hops, NEW own \in setup.ownRuns, RefuseParameters(h, own) PROVE AllInv'
    <2>1. /\ hop[h].at = "idle" /\ hop'[h].error = [NoError EXCEPT !.from = h]
          /\ hop'[h].decision = None /\ hop'[h].at = "refused"
          /\ Others(h) /\ UNCHANGED <<setup, made>>
          /\ setup.caller[h] # None => hop[setup.caller[h]].at = "running"
        BY <1>0, <1>4, RefuseParametersDoes
    <2>2. setup.caller[h] # h
        BY <1>a, <2>1
    <2>3. Err(h)'.from = h /\ ~Err(h)'.marked /\ ~Err(h)'.escalated
        BY <2>1 DEF NoError, Err
    <2> QED BY <1>2, <2>1, <2>2, <2>3 DEF LifeInv
<1>5. ASSUME NEW h \in Hops, RefuseCall(h) PROVE AllInv'
    <2>1. /\ hop[h].at = "entered" /\ hop'[h].error = [NoError EXCEPT !.from = h]
          /\ hop'[h].decision = hop[h].decision /\ hop'[h].at = "refused"
          /\ Others(h) /\ UNCHANGED <<setup, made>>
        BY <1>0, <1>5, RefuseCallDoes DEF Stays
    <2>2. setup.caller[h] # h
        BY <1>0, <1>a, <2>1 DEF TreeInv, Under
    <2>3. Err(h)'.from = h /\ ~Err(h)'.marked /\ ~Err(h)'.escalated
        BY <2>1 DEF NoError, Err
    <2> QED BY <1>2, <2>1, <2>2, <2>3 DEF LifeInv
<1>6. ASSUME NEW h \in Hops, Resolve(h) PROVE AllInv'
    <2>1. /\ hop[h].at = "entered" /\ hop'[h].error = hop[h].error
          /\ hop'[h].decision = hop[h].decision /\ hop'[h].at = "running"
          /\ Others(h) /\ UNCHANGED <<setup, made>>
        BY <1>0, <1>6, ResolveDoes DEF Stays
    <2> QED BY <1>1, <2>1 DEF LifeInv, Err
<1>7. ASSUME NEW h \in Hops, NEW reason \in Reasons \cup {None}, NEW ids \in BOOLEAN,
             FnReturns(h, reason, ids)
      PROVE  AllInv'
    <2>1. /\ hop[h].at = "running" /\ hop'[h].error = hop[h].error
          /\ hop'[h].decision = hop[h].decision /\ hop'[h].at = "weighing"
          /\ Others(h) /\ UNCHANGED <<setup, made>>
        BY <1>0, <1>7, FnReturnsDoes DEF Stays
    <2> QED BY <1>1, <2>1 DEF LifeInv, Err
<1>8. ASSUME NEW h \in Hops, NEW e \in Throwable(h), FnThrows(h, e) PROVE AllInv'
    <2>1. /\ Awaited(h) /\ hop[h].at = "running" /\ Others(h) /\ UNCHANGED <<setup, made>>
          /\ hop'[h].at = (IF e.marked THEN "threw" ELSE "weighing") /\ Err(h)' = e
          /\ hop'[h].decision = (IF e.marked THEN "allow" ELSE None)
          /\ hop'[h].scope = hop[h].scope
        BY <1>0, <1>8, FnThrowsDoes DEF Err, Stays
    <2>2. Err(h) = NoError /\ hop[h].decision = None /\ setup.caller[h] # h
        BY <2>1 DEF LifeInv, Awaited, Children, Ended
    <2>3. CASE e \in [from : {h}, object : BOOLEAN, denied : BOOLEAN, reason : Reasons \cup {None},
                      marked : {FALSE}, escalated : {FALSE}]
        BY <1>2, <2>1, <2>2, <2>3
    <2>4. ASSUME NEW k \in Children(h), hop[k].at \in {"threw", "refused"}, e = Err(k)
          PROVE  AllInv'
        <3>1. /\ k \in Hops /\ setup.caller[k] = h /\ Err(k).from # None
              /\ e.marked => hop[k].at = "threw" /\ e.denied
            BY <2>4 DEF Children, LifeInv, ErrorInv
        <3>2. LifeInv' /\ \A j \in Hops \ {h} : Err(j)' = Err(j)
            BY <1>a, <2>1, <2>4, <3>1, LivesKeep
        <3>3. setup.caller[h] = None \/ (setup.caller[h] # h /\ Err(setup.caller[h]) = NoError)
            BY <1>0, <1>a, <2>1, <2>2 DEF TreeInv, Under, LifeInv
        <3>4. ErrorInv' /\ HolderInv'
            BY <1>0, <2>1, <2>2, <2>4, <3>1, <3>2, <3>3, PassKeeps
        <3>5. e.marked => \E w \in Hops : /\ hop'[w].decision = "deny"
                                          /\ hop'[w].scope = hop'[h].scope
                                          /\ Err(w)'.from = Err(h)'.from
            <4> HAVE e.marked
            <4>1. PICK w \in Hops : /\ hop[w].decision = "deny" /\ hop[w].scope = hop[k].scope
                                    /\ Err(w).from = Err(k).from
                BY <2>4, <3>1 DEF DeniedIsRecorded, Err
            <4>2. w # h /\ hop[k].scope = hop[h].scope
                BY <1>0, <1>a, <2>2, <2>4, <3>1, <4>1 DEF TreeInv
            <4> QED BY <2>1, <2>4, <4>1, <4>2 DEF Others, Same, Err
        <3>6. DeniedIsRecorded'
            BY <1>a, <2>1, <2>2, <3>5, RecordsKeep
        <3> QED BY <1>0, <3>2, <3>4, <3>6
    <2> QED BY <2>3, <2>4 DEF Throwable, Err
<1>9. ASSUME NEW h \in Hops, NEW reached \in BOOLEAN, NEW created \in BOOLEAN,
             Weigh(h, reached, created)
      PROVE  AllInv'
    <2> DEFINE id == created /\ Escalates(h, reached)
               e == Mark(h, reached, id)
               origin == IF e.from = None THEN h ELSE e.from
               marks == /\ setup.option[h].enabled /\ hop[h].reason # None
                        /\ Denies(h, reached) /\ Err(h).object
    <2>1. /\ Others(h) /\ UNCHANGED setup /\ hop[h].at = "weighing"
          /\ hop'[h].at = (IF e = NoError THEN "returned" ELSE "threw") /\ Err(h)' = e
          /\ hop'[h].decision = (IF Denies(h, reached) THEN "deny" ELSE "allow")
          /\ hop'[h].scope = hop[h].scope
          /\ made' = IF id THEN [made EXCEPT ![origin] = @ + 1] ELSE made
        BY <1>0, <1>9, WeighDoes DEF Err, Stays
    <2>2. /\ e \in Errors /\ e.object = Err(h).object
          /\ ~marks => e = Err(h)
          /\ marks => /\ e.denied /\ e.marked /\ e.escalated = (Err(h).escalated \/ id)
                      /\ e.from = IF Err(h).from = None THEN h ELSE Err(h).from
        <3>1. id \in BOOLEAN
            OBVIOUS
        <3> HIDE DEF id
        <3> QED BY <1>0, <3>1, MarkIs DEF Err
    <2>3. id => /\ setup.option[h].enabled /\ hop[h].reason # None /\ Denies(h, reached)
        BY NamesAssumption DEF Escalates, Lists, Reasons
    <2>4. Err(h).denied => Denies(h, reached)
        BY DEF Denies, Err
    <2>5. /\ ~Err(h).marked /\ hop[h].decision = None /\ ~Err(h).escalated
          /\ Err(h).from = None => Err(h) = NoError
        BY <2>1 DEF LifeInv, ErrorInv
    <2>6. setup.caller[h] = None \/ (setup.caller[h] # h /\ Err(setup.caller[h]) = NoError)
        BY <1>0, <1>a, <2>1 DEF TreeInv, Under, LifeInv
    <2>7. Err(h) \in Errors /\ Err(h).from \in Hops \cup {None} /\ made \in [Hops -> Nat]
        BY <1>0 DEF TypeInv, HopRecords, Errors, Err
    <2> HIDE DEF id, e, origin, marks
    <2>8. e.denied => Denies(h, reached)
        BY <2>2, <2>4 DEF marks
    <2>9. e = NoError \/ e.from # None
        BY <1>a, <2>2, <2>5, <2>7
    <2>10. LifeInv' /\ \A k \in Hops \ {h} : Err(k)' = Err(k)
        BY <1>a, <2>1, <2>9, LivesKeep
    <2>11. DeniedIsRecorded'
        BY <1>a, <2>1, <2>5, <2>8, RecordsKeep
    <2>12. ErrorInv' /\ HolderInv'
        <3>1. CASE marks
            <4>1. /\ origin \in Hops /\ e.from = origin
                  /\ Err(h).from = origin \/ (Err(h).from = None /\ origin = h)
                BY <1>a, <2>2, <2>7, <3>1 DEF origin
            <4>2. Err(h).object /\ e.object /\ e.denied /\ e.marked
                BY <2>2, <3>1 DEF marks
            <4>3. \/ ~e.escalated /\ made' = made
                  \/ e.escalated /\ made' = [made EXCEPT ![origin] = @ + 1]
                BY <2>1, <2>2, <2>5, <3>1
            <4> QED BY <1>0, <2>1, <2>5, <2>6, <2>10, <4>1, <4>2, <4>3, MarkKeeps
        <3>2. CASE ~marks /\ ~id
            BY <1>0, <2>1, <2>2, <2>10, <3>2, UnmovedKeeps
        <3>3. CASE ~marks /\ id
            <4>1. ~Err(h).object /\ e = Err(h) /\ Err(h).from # None
                BY <2>2, <2>3, <2>5, <3>3, NoErrorIs DEF marks
            <4>2. made' = [made EXCEPT ![Err(h).from] = @ + 1]
                BY <2>1, <3>3, <4>1 DEF origin
            <4>3. \A k \in Hops : Err(k)' = Err(k)
                BY <2>1, <2>10, <4>1
            <4> QED BY <1>0, <2>1, <4>1, <4>2, <4>3, StringKeeps
        <3> QED BY <3>1, <3>2, <3>3
    <2> QED BY <1>0, <2>10, <2>11, <2>12
<1>10. CASE UNCHANGED vars
    BY <1>0, <1>10 DEF vars, LifeInv, ErrorInv, HolderInv, Passed, DeniedIsRecorded, Err
<1> QED BY <1>3, <1>4, <1>5, <1>6, <1>7, <1>8, <1>9, <1>10 DEF Next

\* DealtWithOnce: what goes wrong once is put before a human once, named in the
\* error to everyone above, and recorded as denied, for any tree of calls and
\* whatever each hop enforces.
THEOREM DenialsAreDealtWithOnce == Spec => []DealtWithOnce
<1>1. AllInv => DealtWithOnce
    <2> SUFFICES ASSUME AllInv PROVE DealtWithOnce
        OBVIOUS
    <2> USE DEF AllInv
    <2>1. TypeInv /\ LifeInv /\ ErrorInv /\ None \notin {"allow", "deny"}
        BY NamesAssumption DEF CauseInv
    <2>2. TypeOK
        <3> SUFFICES ASSUME NEW h \in Hops
                     PROVE  /\ hop[h].at \in {"idle", "entered", "running", "weighing"} \/ Ended(h)
                            /\ hop[h].at \in {"returned", "threw"}
                                  <=> hop[h].decision \in {"allow", "deny"}
                            /\ {hop[h].store, hop[h].scope, hop[h].run} \subseteq Hops \cup {None}
                            /\ {hop[h].cause, hop[h].passed, causes[h]}
                                  \subseteq Hops \cup {None, Outside}
                            /\ hop[h].reason \in Reasons \cup {None}
                            /\ hop[h].error.marked => hop[h].error.denied /\ hop[h].error.object
                            /\ hop[h].error.escalated => hop[h].error.marked
            BY <2>1 DEF TypeOK, TypeInv
        <3>1. hop[h] \in HopRecords /\ causes[h] \in Causes
            BY <2>1 DEF TypeInv
        <3> QED BY <2>1, <3>1 DEF LifeInv, ErrorInv, Err, HopRecords, Points, Causes, Ended
    <2>3. OneEscalation
        <3> SUFFICES ASSUME NEW h \in Hops, made[h] > 1
                     PROVE  \E e \in Strings : e.from = h
            BY DEF OneEscalation
        <3>1. ~Err(h).object /\ Err(h).from = h
            BY <2>1 DEF ErrorInv, TypeInv
        <3> QED BY <3>1 DEF Strings, Err
    <2>4. EscalationIsNamed
        BY <2>1 DEF EscalationIsNamed, ErrorInv, Err
    <2> QED BY <2>2, <2>3, <2>4 DEF DealtWithOnce
<1> QED BY <1>1, AllStart, AllStep, PTL DEF Spec
=============================================================================
