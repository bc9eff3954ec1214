----------------------- MODULE PolicyResolution_proofs -----------------------
(***************************************************************************)
(* Proofs about PolicyResolution, for any calls, nodes, policies and times *)
(* to live.                                                                *)
(*                                                                         *)
(* Three parts carry the invariants.  TravelInv: a text on its way is no   *)
(* older than its request, a cached one no older than its entry and one    *)
(* request together.  CallInv: a call that is not over asks for its own    *)
(* node or for the base.  GuardInv: the agent guard is built from the      *)
(* policy in force.                                                        *)
(***************************************************************************)
EXTENDS PolicyResolution, TLAPS

Held == Texts \cup {None, "local"}
CallRecords ==
    [stage : Stages, node : Nodes \cup {None}, text : Texts \cup {None}, old : Ages,
     source : Sources, judged : Held, scanned : Held]

FlightRecords ==
    [stage : {"idle", "validating", "served"}, text : Texts \cup {None},
     age : 0..MaxFlight, served : Ages]
EntryRecords == {Absent} \cup [text : Texts, age : Ages, served : Ages]

TypeInv ==
    /\ published \in [Nodes -> Texts] /\ publishes \in 0..MaxPublish
    /\ up \in BOOLEAN
    /\ cache \in [Nodes -> EntryRecords]
    /\ flight \in [Nodes -> FlightRecords]
    /\ lastRemote \in Texts \cup {None}
    /\ current \in Texts \cup {None}
    /\ agentGuard \in Texts \cup {None}
    /\ call \in [Calls -> CallRecords]

TravelInv ==
    \A n \in Nodes :
        /\ flight[n].stage = "served" => flight[n].text \in Texts
        /\ flight[n].served <= flight[n].age
        /\ cache[n].served <= cache[n].age + MaxFlight

Open(c) == call[c].stage \in {"waiting", "answered", "refused"}

CallInv ==
    \A c \in Calls :
        /\ Open(c) => call[c].node \in {NodeOf[c], Base} /\ call[c].source = None
        /\ call[c].stage = "waiting" => call[c].old <= MaxFlight
        /\ call[c].stage = "answered" => call[c].text \in Texts

GuardInv == agentGuard = None \/ agentGuard = current

IInv ==
    /\ TypeInv /\ TravelInv /\ CallInv /\ GuardInv
    /\ StaleAtMost /\ OnePolicyPerCall /\ OwnNodeOrBase /\ KeptApart

----------------------------------------------------------------------------
(***************************************************************************)
(* The constants, and what the manager answers.                            *)
(***************************************************************************)
LEMMA Bounds ==
    /\ TTL \in Nat /\ MaxFlight \in Nat /\ MaxPublish \in Nat
    /\ Oldest \in Nat /\ Ages = 0..Oldest /\ MaxFlight <= Oldest
    /\ 0 \in Ages /\ Ages \subseteq Nat /\ 0..MaxFlight \subseteq Nat
    BY BoundsAssumption DEF Oldest, Ages

LEMMA Flying ==
    ASSUME NEW n \in Nodes, TypeInv, TravelInv
    PROVE  /\ flight[n] \in FlightRecords
           /\ flight[n].age \in Nat /\ flight[n].age <= MaxFlight
           /\ flight[n].served \in Ages /\ flight[n].served \in Nat
           /\ flight[n].served <= flight[n].age
           /\ flight[n].stage = "served" => flight[n].text \in Texts
<1>1. flight[n] \in FlightRecords
    BY DEF TypeInv
<1> QED
    BY <1>1, Bounds DEF FlightRecords, TravelInv

LEMMA Quiet ==
    /\ Idle \in FlightRecords /\ Absent \in EntryRecords
    /\ Idle.served <= Idle.age /\ Idle.text = None
    /\ Absent.served <= Absent.age + MaxFlight /\ Absent.text = None
    BY Bounds DEF Idle, Absent, FlightRecords, EntryRecords

LEMMA Recorded ==
    ASSUME NEW c \in Calls, TypeInv
    PROVE  call[c] \in CallRecords
    BY DEF TypeInv

\* A call that asks the manager, the first time or again for the base policy,
\* leaves everything as it should be.
LEMMA AskKeeps ==
    ASSUME IInv, NEW c \in Calls, NEW n \in {NodeOf[c], Base}, NEW old,
           AskManager(c, n, old), UNCHANGED <<plane, cache, holders>>
    PROVE  IInv'
<1>0. n \in Nodes
    BY NodesAssumption
<1>1. CASE Fresh(n)
  <2> DEFINE r == [NewCall EXCEPT !.stage = "answered", !.node = n,
                                  !.text = cache[CacheKey(n)].text,
                                  !.old = cache[CacheKey(n)].served]
  <2>1. /\ call' = [call EXCEPT ![c] = r] /\ UNCHANGED flight
        BY <1>1 DEF AskManager
  <2>2. /\ cache[n] \in [text : Texts, age : Ages, served : Ages]
        /\ cache[n].age < TTL /\ cache[n].served <= cache[n].age + MaxFlight
        BY <1>0, <1>1 DEF Fresh, CacheKey, IInv, TypeInv, TravelInv, Absent, EntryRecords
  <2>3. /\ r.stage = "answered" /\ r.node = n /\ r.source = None
        /\ r.text = cache[n].text /\ r.old = cache[n].served
        BY DEF CacheKey, NewCall
  <2>4. r \in CallRecords
        BY <1>0, <2>2 DEF CacheKey, NewCall, CallRecords, Stages, Sources, Held
  <2> HIDE DEF r
  <2>5. r.old <= (IF TTL = 0 THEN 0 ELSE TTL - 1) + MaxFlight
        BY <2>2, <2>3, Bounds
  <2>6. r.stage = "answered" /\ r.node = n /\ r.source = None /\ r.text \in Texts
        BY <2>2, <2>3
  <2>7. \A d \in Calls : call'[d] = IF d = c THEN r ELSE call[d]
        BY <2>1 DEF IInv, TypeInv
  <2>8. TypeInv'
        BY <2>1, <2>4 DEF IInv, TypeInv, plane, holders
  <2>9. TravelInv' /\ GuardInv' /\ KeptApart'
        BY <2>1 DEF IInv, TravelInv, GuardInv, KeptApart, plane, holders
  <2>10. CallInv'
        BY <2>6, <2>7 DEF IInv, CallInv, Open
  <2>11. StaleAtMost' /\ OnePolicyPerCall' /\ OwnNodeOrBase'
        BY <2>5, <2>6, <2>7 DEF IInv, StaleAtMost, OnePolicyPerCall, OwnNodeOrBase, Calls
  <2> QED BY <2>8, <2>9, <2>10, <2>11 DEF IInv
<1>2. CASE ~Fresh(n)
  <2> DEFINE r == [NewCall EXCEPT !.stage = "waiting", !.node = n, !.old = flight[n].served]
  <2>1. /\ call' = [call EXCEPT ![c] = r]
        /\ flight' = IF flight[n].stage = "idle"
                     THEN [flight EXCEPT ![n].stage = "validating"] ELSE flight
        BY <1>2 DEF AskManager
  <2>2. /\ r.stage = "waiting" /\ r.node = n /\ r.source = None
        /\ r.old = flight[n].served
        BY DEF NewCall
  <2>3. flight[n].served \in Ages /\ flight[n].served <= MaxFlight
        BY <1>0, Flying, Bounds DEF IInv
  <2>4. r \in CallRecords
        BY <1>0, <2>3 DEF NewCall, CallRecords, Stages, Sources, Held
  <2>5. r.stage = "waiting" /\ r.node = n /\ r.source = None /\ r.old <= MaxFlight
        BY <2>2, <2>3
  <2> HIDE DEF r
  <2>6. \A d \in Calls : call'[d] = IF d = c THEN r ELSE call[d]
        BY <2>1 DEF IInv, TypeInv
  <2>7. flight' \in [Nodes -> FlightRecords]
        BY <2>1 DEF IInv, TypeInv, FlightRecords
  <2>8. \A m \in Nodes : /\ flight'[m].text = flight[m].text
                         /\ flight'[m].age = flight[m].age
                         /\ flight'[m].served = flight[m].served
                         /\ flight'[m].stage = "served" => flight[m].stage = "served"
        BY <2>1 DEF IInv, TypeInv, FlightRecords
  <2>9. TypeInv'
        BY <2>1, <2>4, <2>7 DEF IInv, TypeInv, plane, holders
  <2>10. TravelInv' /\ GuardInv' /\ KeptApart'
        BY <2>8 DEF IInv, TravelInv, GuardInv, KeptApart, plane, holders
  <2>11. CallInv'
        BY <2>5, <2>6 DEF IInv, CallInv, Open
  <2>12. StaleAtMost' /\ OnePolicyPerCall' /\ OwnNodeOrBase'
        BY <2>5, <2>6 DEF IInv, StaleAtMost, OnePolicyPerCall, OwnNodeOrBase, Calls
  <2> QED BY <2>9, <2>10, <2>11, <2>12 DEF IInv
<1> QED BY <1>1, <1>2

\* So does a call that is over, if it is over with one policy, of its node.
LEMMA OverKeeps ==
    ASSUME IInv, NEW c \in Calls, NEW r \in CallRecords, call' = [call EXCEPT ![c] = r],
           UNCHANGED <<plane, cache, flight>>,
           {lastRemote', current', agentGuard'} \subseteq Texts \cup {None}, GuardInv',
           r.stage \in {"new", "ended", "failed"},
           r.stage = "ended" =>
              /\ c \in Tools => r.judged = r.text /\ r.scanned = r.text
              /\ r.source = "remote" => /\ r.node \in {NodeOf[c], Base}
                                        /\ r.judged = Empty => r.node = Base
    PROVE  IInv'
<1>1. TypeInv' /\ TravelInv' /\ KeptApart'
  BY DEF IInv, TypeInv, TravelInv, KeptApart, plane
<1>2. \A d \in Calls : call'[d] = IF d = c THEN r ELSE call[d]
  BY DEF IInv, TypeInv
<1>3. CallInv'
  BY <1>2 DEF IInv, CallInv, Open
<1>4. StaleAtMost' /\ OnePolicyPerCall' /\ OwnNodeOrBase'
  BY <1>2 DEF IInv, StaleAtMost, OnePolicyPerCall, OwnNodeOrBase, Calls
<1> QED
  BY <1>1, <1>3, <1>4 DEF IInv

\* Who waited is answered, or fails, with the request.
LEMMA WaitersKeep ==
    ASSUME IInv, NEW n \in Nodes, NEW stage \in {"answered", "refused"},
           NEW text \in Texts \cup {None}, stage = "answered" => text \in Texts,
           NEW F, \A c \in Calls :
              c \in Waiters(n) => /\ F[c] \in CallRecords /\ F[c].stage = stage
                                  /\ F[c].node = call[c].node /\ F[c].source = None
                                  /\ stage = "answered" => F[c].text \in Texts
                                  /\ F[c].old <= call[c].old,
           call' = [c \in Calls |-> IF c \in Waiters(n) THEN F[c] ELSE call[c]]
    PROVE  /\ call' \in [Calls -> CallRecords]
           /\ CallInv' /\ StaleAtMost' /\ OnePolicyPerCall' /\ OwnNodeOrBase'
<1>1. \A d \in Calls : call[d] \in CallRecords
  BY DEF IInv, TypeInv
<1>2. \A d \in Calls : d \in Waiters(n) => call[d].stage = "waiting"
  BY DEF Waiters
<1>3. call' \in [Calls -> CallRecords]
  BY <1>1
<1>4. CallInv'
  BY <1>2 DEF IInv, CallInv, Open
<1>5. \A d \in Calls : d \in Waiters(n) => F[d].old <= MaxFlight
  BY <1>1, <1>2, Bounds DEF IInv, CallInv, CallRecords
<1>6. StaleAtMost'
  <2> SUFFICES ASSUME NEW d \in Calls, call'[d].stage = "answered"
               PROVE  call'[d].old <= (IF TTL = 0 THEN 0 ELSE TTL - 1) + MaxFlight
    BY DEF StaleAtMost
  <2>1. CASE d \in Waiters(n)
    BY <1>5, <2>1, Bounds DEF CallRecords
  <2>2. CASE d \notin Waiters(n)
    BY <2>2 DEF IInv, StaleAtMost
  <2> QED BY <2>1, <2>2
<1>7. OnePolicyPerCall' /\ OwnNodeOrBase'
  BY DEF IInv, OnePolicyPerCall, OwnNodeOrBase, Calls
<1> QED BY <1>3, <1>4, <1>6, <1>7

----------------------------------------------------------------------------
LEMMA Start == Init => IInv
<1> SUFFICES ASSUME Init PROVE IInv
  OBVIOUS
<1>1. TypeInv
  BY FirstAssumption, Bounds, Quiet
     DEF Init, TypeInv, NewCall, CallRecords, Stages, Sources, Held
<1>2. TravelInv
  BY Bounds DEF Init, TravelInv, Absent, Idle
<1>3. CallInv /\ GuardInv
  BY DEF Init, CallInv, Open, NewCall, GuardInv
<1>4. StaleAtMost /\ OnePolicyPerCall /\ OwnNodeOrBase
  BY DEF Init, NewCall, StaleAtMost, OnePolicyPerCall, OwnNodeOrBase, Calls
<1>5. KeptApart
  BY DEF Init, KeptApart, Absent, Idle
<1> QED
  BY <1>1, <1>2, <1>3, <1>4, <1>5 DEF IInv

LEMMA Step == IInv /\ [Next]_vars => IInv'
<1> SUFFICES ASSUME IInv, [Next]_vars PROVE IInv'
  OBVIOUS
<1>0. NewCall \in CallRecords
  BY Bounds DEF NewCall, CallRecords, Stages, Sources, Held
<1>1. ASSUME NEW c \in Calls, Ask(c) PROVE IInv'
  BY <1>1, AskKeeps DEF Ask
<1>2. ASSUME NEW c \in Calls, AskBase(c) PROVE IInv'
  BY <1>2, AskKeeps DEF AskBase
<1>3. ASSUME NEW c \in Calls, UseInTool(c) PROVE IInv'
  <2> DEFINE r == [call[c] EXCEPT !.stage = "ended", !.source = "remote", !.old = 0,
                                  !.judged = current', !.scanned = agentGuard']
  <2>1. /\ call' = [call EXCEPT ![c] = r] /\ UNCHANGED <<plane, cache, flight, lastRemote>>
        /\ current' = call[c].text
        /\ agentGuard' = IF agentGuard = None \/ current # call[c].text
                         THEN call[c].text ELSE agentGuard
    BY <1>3 DEF UseInTool, OnPolicyResolved, IInv, TypeInv
  <2>2. /\ call[c] \in CallRecords /\ call[c].text \in Texts
        /\ call[c].node \in {NodeOf[c], Base}
        /\ call[c].text = Empty => call[c].node = Base
    BY <1>3 DEF UseInTool, Resolved, FallsToBase, IInv, TypeInv, CallInv, Open
  <2>3. current' = call[c].text /\ agentGuard' = call[c].text
    BY <2>1 DEF IInv, GuardInv
  <2>4. /\ r.stage = "ended" /\ r.node = call[c].node /\ r.text = call[c].text
        /\ r.judged = call[c].text /\ r.scanned = call[c].text
    BY <2>2, <2>3 DEF CallRecords
  <2>5. r \in CallRecords
    BY <2>2, <2>3, Bounds DEF CallRecords, Stages, Sources, Held
  <2> HIDE DEF r
  <2>6. GuardInv' /\ {lastRemote', current', agentGuard'} \subseteq Texts \cup {None}
    BY <2>1, <2>2, <2>3 DEF GuardInv, IInv, TypeInv
  <2> QED BY <2>1, <2>2, <2>4, <2>5, <2>6, OverKeeps
<1>4. ASSUME NEW c \in Calls, UseInGuard(c) PROVE IInv'
  <2> DEFINE r == [call[c] EXCEPT !.stage = "ended", !.source = "remote", !.old = 0,
                                  !.judged = call[c].text, !.scanned = call[c].text]
  <2>1. /\ call' = [call EXCEPT ![c] = r]
        /\ UNCHANGED <<plane, cache, flight, current, agentGuard>>
        /\ lastRemote' = call[c].text /\ c \notin Tools
    BY <1>4, CallsDiffer DEF UseInGuard, EndGuard, IInv, TypeInv
  <2>2. /\ call[c] \in CallRecords /\ call[c].text \in Texts
        /\ call[c].node \in {NodeOf[c], Base}
        /\ call[c].text = Empty => call[c].node = Base
    BY <1>4 DEF UseInGuard, Resolved, FallsToBase, IInv, TypeInv, CallInv, Open
  <2>3. r.stage = "ended" /\ r.node = call[c].node /\ r.judged = call[c].text
    BY <2>2 DEF CallRecords
  <2>4. r \in CallRecords
    BY <2>2, Bounds DEF CallRecords, Stages, Sources, Held
  <2> HIDE DEF r
  <2>5. GuardInv' /\ {lastRemote', current', agentGuard'} \subseteq Texts \cup {None}
    BY <2>1, <2>2 DEF GuardInv, IInv, TypeInv
  <2> QED BY <2>1, <2>2, <2>3, <2>4, <2>5, OverKeeps
<1>5. ASSUME NEW c \in Calls, UseLocalFirst(c) \/ UseLastSnapshot(c) \/ UseLocalFallback(c)
      PROVE  IInv'
  <2>1. PICK source \in {"local", "remote-cache", "local-fallback"},
             text \in Texts \cup {"local"} : EndGuard(c, source, text)
    BY <1>5 DEF UseLocalFirst, UseLastSnapshot, UseLocalFallback, IInv, TypeInv
  <2> DEFINE r == [call[c] EXCEPT !.stage = "ended", !.source = source, !.old = 0,
                                  !.judged = text, !.scanned = text]
  <2>2. /\ call' = [call EXCEPT ![c] = r] /\ UNCHANGED <<plane, cache, flight, holders>>
        /\ c \notin Tools
    BY <1>5, <2>1, CallsDiffer
       DEF EndGuard, UseLocalFirst, UseLastSnapshot, UseLocalFallback, IInv, TypeInv
  <2>3. r.stage = "ended" /\ r.source # "remote"
    BY Recorded DEF CallRecords, IInv
  <2>4. r \in CallRecords
    BY Recorded, Bounds DEF CallRecords, Stages, Sources, Held, IInv
  <2> HIDE DEF r
  <2>5. GuardInv' /\ {lastRemote', current', agentGuard'} \subseteq Texts \cup {None}
    BY <2>2 DEF GuardInv, IInv, TypeInv, holders
  <2> QED BY <2>2, <2>3, <2>4, <2>5, OverKeeps
<1>6. ASSUME NEW c \in Calls, RefuseTool(c) \/ NoPolicy(c) \/ Again(c) PROVE IInv'
  <2>1. PICK stage \in {"new", "failed"} :
             /\ call' = [call EXCEPT ![c] = [NewCall EXCEPT !.stage = stage]]
             /\ UNCHANGED <<plane, cache, flight, holders>>
    <3>1. NewCall = [NewCall EXCEPT !.stage = "new"]
      BY DEF NewCall
    <3> QED BY <1>6, <3>1 DEF RefuseTool, NoPolicy, Again
  <2> DEFINE r == [NewCall EXCEPT !.stage = stage]
  <2>2. r \in CallRecords /\ r.stage = stage
    BY <1>0 DEF CallRecords, Stages
  <2> HIDE DEF r
  <2>3. GuardInv' /\ {lastRemote', current', agentGuard'} \subseteq Texts \cup {None}
    BY <2>1 DEF GuardInv, IInv, TypeInv, holders
  <2>4. call' = [call EXCEPT ![c] = r]
    BY <2>1 DEF r
  <2> QED BY <2>1, <2>2, <2>3, <2>4, OverKeeps DEF holders
<1>7. ASSUME NEW n \in Nodes, Serve(n) PROVE IInv'
  <2> DEFINE f == [flight[n] EXCEPT !.stage = "served", !.text = published[n], !.served = 0]
  <2>1. flight' = [flight EXCEPT ![n] = f] /\ UNCHANGED <<plane, cache, holders, call>>
    BY <1>7 DEF Serve, IInv, TypeInv
  <2>2. /\ f \in FlightRecords
        /\ f.text = published[n] /\ f.text \in Texts /\ f.served = 0 /\ f.age \in Nat
    <3>1. published[n] \in Texts
      BY DEF IInv, TypeInv
    <3> QED BY <3>1, Flying, Bounds DEF IInv, FlightRecords
  <2> HIDE DEF f
  <2>3. TypeInv'
    BY <2>1, <2>2 DEF IInv, TypeInv, plane, holders
  <2>4. TravelInv' /\ KeptApart'
    BY <2>1, <2>2 DEF IInv, TypeInv, TravelInv, KeptApart, plane
  <2>5. CallInv' /\ GuardInv' /\ StaleAtMost' /\ OnePolicyPerCall' /\ OwnNodeOrBase'
    BY <2>1 DEF IInv, CallInv, Open, GuardInv, StaleAtMost, OnePolicyPerCall, OwnNodeOrBase,
                plane, holders
  <2> QED BY <2>3, <2>4, <2>5 DEF IInv
<1>8. ASSUME NEW n \in Nodes, Arrive(n) PROVE IInv'
  <2> DEFINE F == [c \in Calls |-> [call[c] EXCEPT !.stage = "answered",
                                                !.text = flight[n].text]]
             entry == [text |-> flight[n].text, age |-> 0, served |-> flight[n].served]
  <2>1. /\ cache' = [cache EXCEPT ![n] = entry] /\ flight' = [flight EXCEPT ![n] = Idle]
        /\ call' = [c \in Calls |-> IF c \in Waiters(n) THEN F[c] ELSE call[c]]
        /\ UNCHANGED <<plane, holders>>
    BY <1>8 DEF Arrive, CacheKey
  <2>2. /\ flight[n].text \in Texts /\ flight[n].served \in Ages
        /\ flight[n].served <= MaxFlight
    <3>1. flight[n].stage = "served" /\ TypeInv /\ TravelInv
      BY <1>8 DEF Arrive, IInv
    <3>2. /\ flight[n].age \in Nat /\ flight[n].age <= MaxFlight
          /\ flight[n].served \in Ages /\ flight[n].served \in Nat
          /\ flight[n].served <= flight[n].age /\ flight[n].text \in Texts
      BY <3>1, Flying
    <3> QED BY <3>2, Bounds
  <2>3. \A c \in Calls : c \in Waiters(n) =>
           /\ F[c] \in CallRecords /\ F[c].stage = "answered"
           /\ F[c].node = call[c].node /\ F[c].source = None
           /\ F[c].text \in Texts /\ F[c].old <= call[c].old
    <3> SUFFICES ASSUME NEW c \in Calls, c \in Waiters(n)
                 PROVE  /\ F[c] \in CallRecords /\ F[c].stage = "answered"
                        /\ F[c].node = call[c].node /\ F[c].source = None
                        /\ F[c].text \in Texts /\ F[c].old <= call[c].old
      OBVIOUS
    <3>1. call[c] \in CallRecords /\ call[c].source = None
      BY Recorded DEF IInv, CallInv, Open, Waiters
    <3>2. F[c] = [call[c] EXCEPT !.stage = "answered", !.text = flight[n].text]
      OBVIOUS
    <3> HIDE DEF F
    <3>3. F[c] \in CallRecords
      BY <2>2, <3>1, <3>2 DEF CallRecords, Stages
    <3>4. /\ F[c].stage = "answered" /\ F[c].node = call[c].node /\ F[c].source = None
          /\ F[c].text = flight[n].text /\ F[c].old = call[c].old
      BY <3>1, <3>2 DEF CallRecords
    <3>5. call[c].old \in Nat
      BY <3>1, Bounds DEF CallRecords
    <3> QED BY <2>2, <3>3, <3>4, <3>5
  <2>4. /\ call' \in [Calls -> CallRecords]
        /\ CallInv' /\ StaleAtMost' /\ OnePolicyPerCall' /\ OwnNodeOrBase'
    <3> HIDE DEF F
    <3> QED BY <2>1, <2>2, <2>3, WaitersKeep
  <2>5. TypeInv'
    <3>1. entry \in EntryRecords
      BY <2>2, Bounds DEF EntryRecords
    <3> HIDE DEF entry
    <3> QED BY <2>1, <2>4, <3>1, Quiet DEF IInv, TypeInv, plane, holders
  <2>6. TravelInv'
    <3>1. entry.served <= entry.age + MaxFlight
      BY <2>2, Bounds
    <3> HIDE DEF entry
    <3>2. ASSUME NEW m \in Nodes
          PROVE  /\ flight'[m] = IF m = n THEN Idle ELSE flight[m]
                 /\ cache'[m] = IF m = n THEN entry ELSE cache[m]
      BY <2>1 DEF IInv, TypeInv
    <3> QED BY <3>1, <3>2, Quiet DEF IInv, TravelInv, Idle
  <2>7. KeptApart' /\ GuardInv'
    BY <2>1 DEF IInv, TypeInv, KeptApart, GuardInv, Idle, plane, holders
  <2> QED BY <2>4, <2>5, <2>6, <2>7 DEF IInv
<1>9. ASSUME NEW n \in Nodes, Break(n) PROVE IInv'
  <2> DEFINE F == [c \in Calls |-> [call[c] EXCEPT !.stage = "refused", !.old = 0]]
  <2>1. /\ flight' = [flight EXCEPT ![n] = Idle]
        /\ call' = [c \in Calls |-> IF c \in Waiters(n) THEN F[c] ELSE call[c]]
        /\ UNCHANGED <<plane, cache, holders>>
    BY <1>9 DEF Break
  <2>2. \A c \in Calls : c \in Waiters(n) =>
           /\ F[c] \in CallRecords /\ F[c].stage = "refused"
           /\ F[c].node = call[c].node /\ F[c].source = None
           /\ F[c].old <= call[c].old
    <3> SUFFICES ASSUME NEW c \in Calls, c \in Waiters(n)
                 PROVE  /\ F[c] \in CallRecords /\ F[c].stage = "refused"
                        /\ F[c].node = call[c].node /\ F[c].source = None
                        /\ F[c].old <= call[c].old
      OBVIOUS
    <3>1. call[c] \in CallRecords /\ call[c].source = None
      BY Recorded DEF IInv, CallInv, Open, Waiters
    <3>2. F[c] = [call[c] EXCEPT !.stage = "refused", !.old = 0]
      OBVIOUS
    <3> HIDE DEF F
    <3>3. F[c] \in CallRecords
      BY <3>1, <3>2, Bounds DEF CallRecords, Stages
    <3>4. /\ F[c].stage = "refused" /\ F[c].node = call[c].node /\ F[c].source = None
          /\ F[c].old = 0
      BY <3>1, <3>2 DEF CallRecords
    <3>5. call[c].old \in Nat
      BY <3>1, Bounds DEF CallRecords
    <3> QED BY <3>3, <3>4, <3>5
  <2>3. /\ call' \in [Calls -> CallRecords]
        /\ CallInv' /\ StaleAtMost' /\ OnePolicyPerCall' /\ OwnNodeOrBase'
    <3> HIDE DEF F
    <3> QED BY <2>1, <2>2, WaitersKeep
  <2>4. TypeInv'
    BY <2>1, <2>3, Quiet DEF IInv, TypeInv, plane, holders
  <2>5. TravelInv'
    <3>1. ASSUME NEW m \in Nodes PROVE flight'[m] = IF m = n THEN Idle ELSE flight[m]
      BY <2>1 DEF IInv, TypeInv
    <3>2. cache' = cache /\ Idle.stage # "served"
      BY <2>1 DEF Idle
    <3> QED BY <3>1, <3>2, Quiet DEF IInv, TravelInv
  <2>6. KeptApart' /\ GuardInv'
    BY <2>1 DEF IInv, TypeInv, KeptApart, GuardInv, Idle, plane, holders
  <2> QED BY <2>3, <2>4, <2>5, <2>6 DEF IInv
<1>10. ASSUME NEW n \in Nodes, NEW text \in Texts, Publish(n, text) PROVE IInv'
  <2>1. /\ published' = [published EXCEPT ![n] = text] /\ publishes' = publishes + 1
        /\ publishes < MaxPublish /\ UNCHANGED <<up, precedence, cache, flight, holders, call>>
    BY <1>10 DEF Publish
  <2>2. TypeInv' /\ KeptApart'
    BY <2>1, Bounds DEF IInv, TypeInv, KeptApart, holders
  <2>3. TravelInv' /\ CallInv' /\ GuardInv'
    BY <2>1 DEF IInv, TravelInv, CallInv, Open, GuardInv, holders
  <2>4. StaleAtMost' /\ OnePolicyPerCall' /\ OwnNodeOrBase'
    BY <2>1 DEF IInv, StaleAtMost, OnePolicyPerCall, OwnNodeOrBase
  <2> QED BY <2>2, <2>3, <2>4 DEF IInv
<1>11. ASSUME Outage \/ UNCHANGED vars PROVE IInv'
  <2>1. UNCHANGED <<published, publishes, cache, flight, holders, call>> /\ up' \in BOOLEAN
    BY <1>11 DEF Outage, vars, holders, IInv, TypeInv
  <2> QED
    BY <2>1 DEF IInv, TypeInv, TravelInv, CallInv, Open, GuardInv, StaleAtMost,
                OnePolicyPerCall, OwnNodeOrBase, KeptApart, holders
<1>12. ASSUME Tick PROVE IInv'
  <2>1. UNCHANGED <<plane, holders, call>>
    BY <1>12 DEF Tick
  <2>2. \A n \in Nodes :
           /\ flight'[n].stage = flight[n].stage /\ flight'[n].text = flight[n].text
           /\ flight'[n] \in FlightRecords
           /\ flight'[n].served <= flight'[n].age
    <3> TAKE n \in Nodes
    <3>1. /\ flight[n] \in FlightRecords
          /\ flight[n].age \in Nat /\ flight[n].served \in Ages
          /\ flight[n].served \in Nat /\ flight[n].served <= flight[n].age
      BY Flying DEF IInv
    <3>2. CASE flight[n].stage = "idle"
      BY <1>12, <3>1, <3>2 DEF Tick
    <3>3. CASE flight[n].stage = "validating"
      <4>1. flight'[n] = [flight[n] EXCEPT !.age = @ + 1] /\ flight[n].age < MaxFlight
        BY <1>12, <3>3 DEF Tick
      <4> QED BY <3>1, <4>1, Bounds DEF FlightRecords
    <3>4. CASE flight[n].stage = "served"
      <4>1. /\ flight'[n] = [flight[n] EXCEPT !.age = @ + 1, !.served = Older(@)]
            /\ flight[n].age < MaxFlight
        BY <1>12, <3>4 DEF Tick
      <4>2. /\ Older(flight[n].served) \in Ages
            /\ Older(flight[n].served) <= flight[n].age + 1
        BY <3>1, Bounds DEF Older
      <4> DEFINE f == [flight[n] EXCEPT !.age = @ + 1, !.served = Older(@)]
      <4>3. flight[n].age + 1 \in 0..MaxFlight
        BY <3>1, <4>1, Bounds
      <4>4. /\ f \in FlightRecords /\ f.stage = flight[n].stage /\ f.text = flight[n].text
            /\ f.served = Older(flight[n].served) /\ f.age = flight[n].age + 1
        BY <3>1, <4>2, <4>3 DEF FlightRecords
      <4> QED BY <4>1, <4>2, <4>4
    <3> QED BY <3>1, <3>2, <3>3, <3>4 DEF FlightRecords
  <2>3. \A n \in Nodes :
           /\ cache'[n] \in EntryRecords
           /\ cache'[n].text \in {None, cache[n].text}
           /\ cache'[n].served <= cache'[n].age + MaxFlight
    <3> TAKE n \in Nodes
    <3>1. CASE cache[n].text = None \/ cache[n].age >= TTL
      <4>1. cache'[n] = Absent
        BY <1>12, <3>1 DEF Tick
      <4> QED BY <4>1, Quiet
    <3>2. CASE ~(cache[n].text = None \/ cache[n].age >= TTL)
      <4>1. cache'[n] = [cache[n] EXCEPT !.age = Older(@), !.served = Older(@)]
        BY <1>12, <3>2 DEF Tick
      <4>2. /\ cache[n] \in [text : Texts, age : Ages, served : Ages]
            /\ cache[n].age < TTL /\ cache[n].served <= cache[n].age + MaxFlight
        <5>1. cache[n] \in [text : Texts, age : Ages, served : Ages]
          BY <3>2 DEF IInv, TypeInv, Absent, EntryRecords
        <5>2. cache[n].age \in Nat /\ cache[n].served <= cache[n].age + MaxFlight
          BY <5>1, Bounds DEF IInv, TravelInv
        <5> QED BY <3>2, <5>1, <5>2, Bounds
      <4>3. /\ Older(cache[n].age) = cache[n].age + 1 /\ Older(cache[n].age) \in Ages
            /\ Older(cache[n].served) <= cache[n].served + 1
            /\ Older(cache[n].served) \in Ages
        BY <4>2, Bounds DEF Older, Oldest
      <4> DEFINE e == [cache[n] EXCEPT !.age = Older(@), !.served = Older(@)]
      <4>4. /\ e \in [text : Texts, age : Ages, served : Ages] /\ e.text = cache[n].text
            /\ e.age = cache[n].age + 1 /\ e.served <= cache[n].served + 1
        BY <4>2, <4>3
      <4>5. e.age \in Nat /\ e.served \in Nat /\ cache[n].age \in Nat /\ cache[n].served \in Nat
        BY <4>2, <4>4, Bounds
      <4> HIDE DEF e
      <4>6. e.served <= e.age + MaxFlight
        BY <4>2, <4>4, <4>5, Bounds
      <4> QED BY <4>1, <4>4, <4>6 DEF e, EntryRecords
    <3> QED BY <3>1, <3>2
  <2>4. flight' = [n \in Nodes |-> flight'[n]] /\ cache' = [n \in Nodes |-> cache'[n]]
    BY <1>12 DEF Tick
  <2>5. TypeInv'
    BY <2>1, <2>2, <2>3, <2>4 DEF IInv, TypeInv, plane, holders
  <2>6. TravelInv' /\ KeptApart'
    BY <2>1, <2>2, <2>3 DEF IInv, TravelInv, KeptApart, plane
  <2>7. CallInv' /\ GuardInv' /\ StaleAtMost' /\ OnePolicyPerCall' /\ OwnNodeOrBase'
    BY <2>1 DEF IInv, CallInv, Open, GuardInv, StaleAtMost, OnePolicyPerCall, OwnNodeOrBase,
                holders
  <2> QED BY <2>5, <2>6, <2>7 DEF IInv
<1> QED
  BY <1>1, <1>2, <1>3, <1>4, <1>5, <1>6, <1>7, <1>8, <1>9, <1>10, <1>11, <1>12 DEF Next

LEMMA Invariance == Spec => []IInv
  BY Start, Step, PTL DEF Spec

----------------------------------------------------------------------------
\* PoliciesKept: whatever calls resolve beside it, a call is judged and scanned
\* by one policy, its own node's or the base one, and nodes do not see each
\* other's policies.
THEOREM PoliciesAreKept == Spec => []PoliciesKept
<1>1. IInv => PoliciesKept
  <2> SUFFICES ASSUME IInv PROVE PoliciesKept
    OBVIOUS
  <2>1. TypeOK
    BY DEF IInv, TypeInv, CallInv, CallRecords, FlightRecords, EntryRecords, TypeOK
  <2> QED BY <2>1 DEF IInv, PoliciesKept
<1> QED
  BY <1>1, Invariance, PTL

\* StaleAtMost: a policy is at most the time to live and one request old when a
\* call that is given it asked, for any times.
THEOREM PoliciesAreFresh == Spec => []StaleAtMost
<1>1. IInv => StaleAtMost
  BY DEF IInv
<1> QED
  BY <1>1, Invariance, PTL

\* NeverBackToLocal: a hybrid guard with a snapshot keeps one, and an outage
\* does not send it to its local policy.
THEOREM SnapshotStays == Spec => NeverBackToLocal
<1> DEFINE Kept == \A c \in Guards :
         (lastRemote # None /\ call[c].stage = "refused" /\ precedence = "remote-first")
            => lastRemote' # None /\ call'[c].source # "local-fallback"
<1>1. IInv /\ IInv' /\ [Next]_vars => [Kept]_vars
  <2> SUFFICES ASSUME IInv, IInv', Next, NEW c \in Guards, lastRemote # None,
                      call[c].stage = "refused", precedence = "remote-first"
               PROVE  lastRemote' # None /\ call'[c].source # "local-fallback"
    BY DEF vars
  <2>1. /\ c \in Calls /\ call[c].source = None /\ None \notin Texts
        /\ call \in [Calls -> CallRecords]
    BY NodesAssumption DEF IInv, CallInv, Open, TypeInv, None, Calls
  <2>2. lastRemote' # None
    <3>1. ASSUME NEW d \in Calls, UseInGuard(d) PROVE lastRemote' # None
      BY <3>1, <2>1 DEF UseInGuard, Resolved, IInv, CallInv
    <3>2. CASE \A d \in Calls : ~UseInGuard(d)
      BY <3>2 DEF Next, Ask, AskBase, UseInTool, RefuseTool, UseLocalFirst, UseLastSnapshot,
                  UseLocalFallback, NoPolicy, Again, Serve, Arrive, Break, Publish, Outage,
                  Tick, holders
    <3> QED BY <3>1, <3>2
  <2>3. call'[c].source # "local-fallback"
    <3>1. ASSUME NEW d \in Calls, AskBase(d) \/ Ask(d) \/ RefuseTool(d) \/ NoPolicy(d) \/ Again(d)
          PROVE  call'[c].source \in {None, call[c].source}
      BY <2>1, <3>1 DEF AskBase, Ask, AskManager, RefuseTool, NoPolicy, Again, NewCall
    <3>2. ASSUME NEW d \in Calls, UseInTool(d) \/ UseInGuard(d) \/ UseLocalFirst(d)
          PROVE  call'[c] = call[c]
      <4>1. d # c
        BY <3>2 DEF UseInTool, UseInGuard, Resolved, UseLocalFirst
      <4> QED BY <2>1, <3>2, <4>1 DEF UseInTool, UseInGuard, UseLocalFirst, EndGuard
    <3>3. ASSUME NEW d \in Calls, UseLastSnapshot(d)
          PROVE  call'[c].source \in {call[c].source, "remote-cache"}
      BY <2>1, <3>3 DEF UseLastSnapshot, EndGuard, CallRecords
    <3>4. ASSUME NEW d \in Calls, UseLocalFallback(d) PROVE FALSE
      BY <3>4 DEF UseLocalFallback
    <3>5. ASSUME NEW n \in Nodes, Arrive(n) \/ Break(n) \/ Serve(n)
          PROVE  call'[c].source = call[c].source
      <4>1. call'[c] \in {call[c], [call[c] EXCEPT !.stage = "refused", !.old = 0],
                          [call[c] EXCEPT !.stage = "answered", !.text = flight[n].text]}
        BY <2>1, <3>5 DEF Arrive, Break, Serve
      <4>2. call[c] \in CallRecords
        BY <2>1
      <4> QED BY <4>1, <4>2 DEF CallRecords
    <3>6. ASSUME NEW n \in Nodes, NEW text \in Texts, Publish(n, text)
          PROVE  call'[c].source = call[c].source
      BY <3>6 DEF Publish
    <3>7. ASSUME Outage \/ Tick PROVE call'[c].source = call[c].source
      BY <3>7 DEF Outage, Tick
    <3> QED BY <2>1, <3>1, <3>2, <3>3, <3>4, <3>5, <3>6, <3>7 DEF Next, None
  <2> QED BY <2>2, <2>3
<1> QED
  BY <1>1, Invariance, PTL DEF Spec, NeverBackToLocal
=============================================================================
