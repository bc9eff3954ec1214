---------------------------- MODULE Audit_proofs ----------------------------
(***************************************************************************)
(* Proofs about AuditUpload, and about AuditLog over it, for any number of *)
(* files, uploads, attempts, lines, appends, flushes and restarts.         *)
(***************************************************************************)
EXTENDS AuditLog, TLAPS

\* The file of an upload that was not called yet is a file.
LEMMA SomeFileIsFile == SomeFile \in Files
  BY AuditUploadAssumption DEF SomeFile

\* An attempt more is still one of the local variables' values.
LEMMA NextAttempt ==
    ASSUME NEW l \in Locals, l.attempt < MaxAttempts
    PROVE  [l EXCEPT !.attempt = @ + 1] \in Locals
<1>1. l.attempt + 1 \in 0 .. MaxAttempts
  BY AuditUploadAssumption DEF Locals
<1> QED
  BY <1>1 DEF Locals

\* An upload that begins leaves every variable in its type.
LEMMA BeginTypes ==
    ASSUME TypeOK, NEW u \in Uploads, Begin(u, target[u]),
           UNCHANGED << fileVars, target, asked, restarts >>,
           key' \in [Uploads -> Uploads]
    PROVE  TypeOK'
<1>1. target[u] \in Files /\ DeltaStart(target[u]) \in 0 .. MaxLines
      /\ size[target[u]] \in 0 .. MaxLines
  BY AuditUploadAssumption DEF TypeOK, DeltaStart
<1>2. CASE End(u, "ok") /\ inFlight' = [inFlight EXCEPT ![target[u]] = NoUpload]
  BY <1>2, AuditUploadAssumption
     DEF TypeOK, To, End, Stages, Locals, NoLocals, fileVars
<1>3. CASE /\ To(u, "send", Delta(target[u]))
           /\ inFlight' = [inFlight EXCEPT ![target[u]] = u]
  <2>1. 1 \in 0 .. MaxAttempts
    BY AuditUploadAssumption
  <2>2. Delta(target[u]) \in Locals
    BY <1>1, <2>1 DEF Locals, Delta
  <2> QED
    BY <1>1, <1>3, <2>2 DEF TypeOK, To, Stages, fileVars
<1> QED
  BY <1>2, <1>3 DEF Begin

\* The key an upload takes is its own or one of the file's other uploads.
LEMMA KeyTypes ==
    ASSUME TypeOK, NEW u \in Uploads, NEW k \in Keys(u), key' = [key EXCEPT ![u] = k]
    PROVE  /\ key' \in [Uploads -> Uploads]
           /\ target[u] \in Nonced => k = u
<1>1. k \in Uploads
  BY DEF Keys, TypeOK
<1>2. target[u] \in Nonced => k = u
  BY DEF Keys
<1> QED
  BY <1>1, <1>2 DEF TypeOK

\* Every step keeps the variables in their types: no attempt past the last and
\* no offset the file does not have.
LEMMA UploadTypeStep == ASSUME TypeOK, [Next]_vars PROVE TypeOK'
<1> USE AuditUploadAssumption
<1> USE DEF TypeOK, Stages, Locals, NoLocals, To, End, Ended, fileVars, callVars
<1>1. ASSUME NEW f \in Files, Grow(f) PROVE TypeOK'
  BY <1>1 DEF Grow
<1>2. ASSUME NEW u \in Uploads, NEW f \in Files, Call(u, f) PROVE TypeOK'
  BY <1>2 DEF Call
<1>3. ASSUME NEW u \in Uploads, ResolveFails(u) PROVE TypeOK'
  BY <1>3 DEF ResolveFails
<1>4. ASSUME NEW u \in Uploads, Enter(u) PROVE TypeOK'
  <2>0. key' \in [Uploads -> Uploads]
    <3>1. PICK k \in Keys(u) : key' = [key EXCEPT ![u] = k]
      BY <1>4 DEF Enter
    <3> QED
      BY <3>1, KeyTypes
  <2>1. CASE Begin(u, target[u])
    BY <1>4, <2>0, <2>1, BeginTypes DEF Enter
  <2>2. CASE /\ To(u, "await", [NoLocals EXCEPT !.awaited = inFlight[target[u]]])
             /\ UNCHANGED inFlight
    <3>1. stage' \in [Uploads -> Stages]
      BY <2>2
    <3>2. local' \in [Uploads -> Locals]
      <4>1. inFlight[target[u]] \in Uploads \cup {NoUpload}
        OBVIOUS
      <4>2. 0 \in 0 .. MaxLines /\ 0 \in 0 .. MaxAttempts
        BY DEF Locals
      <4>3. [awaited |-> inFlight[target[u]], from |-> 0, upto |-> 0, attempt |-> 0] \in Locals
        BY ONLY <4>1, <4>2 DEF Locals
      <4>4. [NoLocals EXCEPT !.awaited = inFlight[target[u]]] \in Locals
        BY <4>3 DEF NoLocals
      <4> QED
        BY <2>2, <4>4
    <3>3. UNCHANGED << fileVars, target, asked, restarts >>
      BY <1>4 DEF Enter
    <3> QED
      BY <2>0, <2>2, <3>1, <3>2, <3>3
  <2> QED
    BY <1>4, <2>1, <2>2 DEF Enter
<1>5. ASSUME NEW u \in Uploads, Resume(u) PROVE TypeOK'
  <2>1. CASE Begin(u, target[u])
    BY <1>5, <2>1, BeginTypes DEF Resume
  <2>2. CASE End(u, "failed") /\ UNCHANGED inFlight
    BY <1>5, <2>2 DEF Resume
  <2> QED
    BY <1>5, <2>1, <2>2 DEF Resume
<1>6. ASSUME NEW u \in Uploads, Deliver(u) PROVE TypeOK'
  <2>1. local[u].from + 1 .. local[u].upto \subseteq 1 .. MaxLines
    BY DEF Locals
  <2> QED
    BY <1>6, <2>1 DEF Deliver
<1>7. ASSUME NEW u \in Uploads, Succeed(u) PROVE TypeOK'
  <2>1. offset' \in [Files -> 0 .. MaxLines] /\ saved' \in [Files -> 0 .. MaxLines]
    BY <1>7 DEF Succeed
  <2>2. stage' \in [Uploads -> Stages] /\ local' \in [Uploads -> Locals]
    BY <1>7 DEF Succeed
  <2>3. inFlight' \in [Files -> Uploads \cup {NoUpload}]
    BY <1>7 DEF Succeed, Release
  <2>4. UNCHANGED << size, stored, callVars, restarts >>
    BY <1>7 DEF Succeed
  <2> QED
    BY <2>1, <2>2, <2>3, <2>4
<1>8. ASSUME NEW u \in Uploads, Retry(u) PROVE TypeOK'
  <2>1. [local[u] EXCEPT !.attempt = @ + 1] \in Locals
    BY <1>8, NextAttempt DEF Retry
  <2> QED
    BY <1>8, <2>1 DEF Retry
<1>9. ASSUME NEW u \in Uploads, GiveUp(u) PROVE TypeOK'
  BY <1>9 DEF GiveUp, Release
<1>10. CASE Restart
  BY <1>10 DEF Restart
<1>11. CASE UNCHANGED vars
  BY <1>11 DEF vars
<1> QED
  BY <1>1, <1>2, <1>3, <1>4, <1>5, <1>6, <1>7, <1>8, <1>9, <1>10, <1>11
     DEF Next, Step

\* Every step keeps the variables in their types: no attempt past the last and
\* no offset the file does not have.
THEOREM UploadTypeCorrect == Spec => []TypeOK
<1>1. Init => TypeOK
  BY AuditUploadAssumption, SomeFileIsFile DEF Init, TypeOK, Stages, Locals, NoLocals
<1>2. TypeOK /\ [Next]_vars => TypeOK'
  BY UploadTypeStep
<1> QED
  BY <1>1, <1>2, PTL DEF Spec

----------------------------------------------------------------------------
\* The inductive invariant.

\* A range begins where the store has everything before it and ends within the
\* file; a running upload covers what its caller asked for.
RangeInv ==
    \A u \in Uploads : target[u] \in Nonced =>
        /\ asked[u] <= size[target[u]]
        /\ stage[u] \in {"send", "sent"} =>
            /\ local[u].upto <= size[target[u]]
            /\ asked[u] <= local[u].upto
            /\ 1 .. local[u].from \subseteq Stored(target[u])
        /\ stage[u] = "sent" => 1 .. local[u].upto \subseteq Stored(target[u])

\* An upload of an audit log has a key of its own, and what is under it is
\* nothing or the range it sends.
KeyInv ==
    /\ \A u \in Uploads :
          target[u] \in Nonced \/ stage[u] \in {"idle", "resolve"} => key[u] = u
    /\ \A u \in Uploads, f \in Nonced : stored[f][u] # {} =>
          /\ f = target[u]
          /\ stage[u] \in {"send", "sent", "ok", "failed"}
          /\ stage[u] \in {"send", "sent"} =>
                stored[f][u] = local[u].from + 1 .. local[u].upto

UploadInv == TypeOK /\ NothingSkipped /\ SuccessMeansStored /\ RangeInv /\ KeyInv

\* An upload that begins is either done already or starts where the store has
\* everything.
LEMMA BeginStep ==
    ASSUME UploadInv, NEW u \in Uploads, Begin(u, target[u]),
           UNCHANGED << fileVars, target, asked, restarts >>,
           key' \in [Uploads -> Uploads], stage[u] \in {"resolve", "await"},
           \A v \in Uploads : v # u \/ target[v] \in Nonced => key'[v] = key[v]
    PROVE  UploadInv'
<1> USE AuditUploadAssumption
<1> DEFINE f == target[u]
<1>0. /\ f \in Files /\ size[f] \in Nat /\ offset[f] \in Nat /\ asked[u] \in Nat
      /\ DeltaStart(f) \in {0, offset[f]}
      /\ f \in Nonced => asked[u] <= size[f] /\ 1 .. offset[f] \subseteq Stored(f)
  BY DEF UploadInv, TypeOK, RangeInv, NothingSkipped, DeltaStart
<1>1. TypeOK'
  BY BeginTypes DEF UploadInv
<1>2. \A g \in Files : Stored(g)' = Stored(g)
  BY DEF Stored, fileVars
<1>3. NothingSkipped'
  BY <1>2 DEF UploadInv, NothingSkipped, fileVars
<1>4. \A g \in Nonced : stored'[g][u] = {}
  BY DEF UploadInv, KeyInv, fileVars
<1>5. ASSUME NEW s \in {"ok", "send"}, stage' = [stage EXCEPT ![u] = s],
             NEW l, local' = [local EXCEPT ![u] = l]
      PROVE  KeyInv'
  BY <1>4, <1>5 DEF UploadInv, TypeOK, KeyInv, fileVars
<1>6. CASE size[f] <= DeltaStart(f) /\ End(u, "ok")
  <2>1. f \in Nonced => 1 .. asked[u] \subseteq Stored(f)
    BY <1>0, <1>6
  <2>2. SuccessMeansStored' /\ RangeInv'
    BY <1>2, <1>6, <2>1 DEF UploadInv, TypeOK, SuccessMeansStored, RangeInv, End, To, fileVars
  <2>3. KeyInv'
    BY <1>5, <1>6 DEF End, To
  <2> QED
    BY <1>1, <1>3, <2>2, <2>3 DEF UploadInv
<1>7. CASE To(u, "send", Delta(f))
  <2>1. f \in Nonced => 1 .. DeltaStart(f) \subseteq Stored(f)
    BY <1>0
  <2>2. SuccessMeansStored' /\ RangeInv'
    BY <1>0, <1>2, <1>7, <2>1
       DEF UploadInv, TypeOK, SuccessMeansStored, RangeInv, To, Delta, fileVars
  <2>3. KeyInv'
    BY <1>5, <1>7 DEF To
  <2> QED
    BY <1>1, <1>3, <2>2, <2>3 DEF UploadInv
<1> QED
  BY <1>6, <1>7 DEF Begin

LEMMA UploadInit == Init => UploadInv
<1>1. Init => NothingSkipped /\ SuccessMeansStored /\ RangeInv /\ KeyInv
  BY SomeFileIsFile, AuditUploadAssumption
     DEF Init, NothingSkipped, SuccessMeansStored, RangeInv, KeyInv
<1> QED
  BY <1>1, SomeFileIsFile, AuditUploadAssumption DEF Init, UploadInv, TypeOK, Stages, Locals, NoLocals

\* What uploads do in any order keeps the invariant.
LEMMA UploadKept == ASSUME UploadInv, [Next]_vars PROVE UploadInv'
<1>t. TypeOK'
  BY UploadTypeStep DEF UploadInv
<1> USE AuditUploadAssumption, <1>t
<1> USE DEF To, End, fileVars, callVars
<1>0. UNCHANGED stored => \A g \in Files : Stored(g)' = Stored(g)
  BY DEF Stored
<1>1. ASSUME NEW f \in Files, Grow(f) PROVE UploadInv'
  <2>1. \A g \in Files : size[g] \in Nat /\ size'[g] \in Nat /\ size[g] <= size'[g]
    BY <1>1 DEF Grow, UploadInv, TypeOK
  <2>2. RangeInv'
    <3> SUFFICES ASSUME NEW u \in Uploads PROVE RangeInv!(u)'
      BY DEF RangeInv
    <3>1. /\ asked[u] \in Nat /\ target[u] \in Files /\ local[u].upto \in Nat
          /\ target[u] \in Nonced => asked[u] <= size[target[u]]
          /\ target[u] \in Nonced /\ stage[u] \in {"send", "sent"} =>
                local[u].upto <= size[target[u]]
      BY DEF UploadInv, TypeOK, Locals, RangeInv
    <3> QED
      BY <1>0, <1>1, <2>1, <3>1 DEF Grow, UploadInv, RangeInv
  <2> QED
    <3>1. NothingSkipped'
      BY <1>0, <1>1 DEF Grow, UploadInv, NothingSkipped
    <3>2. SuccessMeansStored'
      BY <1>0, <1>1 DEF Grow, UploadInv, SuccessMeansStored, TypeOK
    <3>3. KeyInv'
      BY <1>1 DEF Grow, UploadInv, KeyInv
    <3> QED
      BY <2>2, <3>1, <3>2, <3>3 DEF UploadInv
<1>2. ASSUME NEW u \in Uploads, NEW f \in Files, Call(u, f) PROVE UploadInv'
  <2>1. NothingSkipped' /\ SuccessMeansStored' /\ RangeInv'
    BY <1>0, <1>2 DEF Call, UploadInv, TypeOK, NothingSkipped, SuccessMeansStored, RangeInv
  <2>2. KeyInv'
    BY <1>2 DEF Call, UploadInv, TypeOK, KeyInv
  <2> QED
    BY <2>1, <2>2 DEF UploadInv
<1>3. ASSUME NEW u \in Uploads, ResolveFails(u) PROVE UploadInv'
  <2>1. NothingSkipped' /\ SuccessMeansStored' /\ RangeInv'
    BY <1>0, <1>3
       DEF ResolveFails, UploadInv, TypeOK, NothingSkipped, SuccessMeansStored, RangeInv
  <2>2. KeyInv'
    BY <1>3 DEF ResolveFails, UploadInv, TypeOK, KeyInv
  <2> QED
    BY <2>1, <2>2 DEF UploadInv
<1>4. ASSUME NEW u \in Uploads, Enter(u) PROVE UploadInv'
  <2>1. PICK k \in Keys(u) : key' = [key EXCEPT ![u] = k]
    BY <1>4 DEF Enter
  <2>2. key' \in [Uploads -> Uploads] /\ (target[u] \in Nonced => k = u)
    BY <2>1, KeyTypes DEF UploadInv
  <2>3. \A v \in Uploads : v # u \/ target[v] \in Nonced => key'[v] = key[v]
    BY <1>4, <2>1, <2>2 DEF Enter, UploadInv, TypeOK, KeyInv
  <2>4. CASE Begin(u, target[u])
    BY <1>4, <2>2, <2>3, <2>4, BeginStep DEF Enter
  <2>5. CASE To(u, "await", [NoLocals EXCEPT !.awaited = inFlight[target[u]]])
    <3>1. NothingSkipped' /\ SuccessMeansStored' /\ RangeInv'
      BY <1>0, <1>4, <2>5
         DEF Enter, UploadInv, TypeOK, NothingSkipped, SuccessMeansStored, RangeInv
    <3>2. KeyInv'
      BY <1>4, <2>3, <2>5 DEF Enter, UploadInv, TypeOK, KeyInv
    <3> QED
      BY <3>1, <3>2 DEF UploadInv
  <2> QED
    BY <1>4, <2>4, <2>5 DEF Enter
<1>5. ASSUME NEW u \in Uploads, Resume(u) PROVE UploadInv'
  <2>1. CASE Begin(u, target[u])
    BY <1>5, <2>1, BeginStep DEF Resume, UploadInv, TypeOK
  <2>2. CASE End(u, "failed")
    <3>1. NothingSkipped' /\ SuccessMeansStored' /\ RangeInv'
      BY <1>0, <1>5, <2>2
         DEF Resume, UploadInv, TypeOK, NothingSkipped, SuccessMeansStored, RangeInv
    <3>2. KeyInv'
      BY <1>5, <2>2 DEF Resume, UploadInv, TypeOK, KeyInv
    <3> QED
      BY <3>1, <3>2 DEF UploadInv
  <2> QED
    BY <1>5, <2>1, <2>2 DEF Resume
<1>6. ASSUME NEW u \in Uploads, Deliver(u) PROVE UploadInv'
  <2> DEFINE f == target[u]
  <2> DEFINE sent == local[u].from + 1 .. local[u].upto
  <2>1. /\ f \in Files /\ local[u].from \in Nat /\ local[u].upto \in Nat
        /\ key[u] \in Uploads /\ key' = key /\ target' = target
        /\ stored' = [stored EXCEPT ![f][key[u]] = sent]
        /\ stage[u] = "send" /\ stage' = [stage EXCEPT ![u] = "sent"]
        /\ local' = local
    BY <1>6 DEF Deliver, UploadInv, TypeOK, Locals
  <2>2. \A g \in Files, v \in Uploads :
           stored'[g][v] = IF g = f /\ v = key[u] THEN sent ELSE stored[g][v]
    <3>1. stored \in [Files -> [Uploads -> SUBSET (1 .. MaxLines)]]
      BY DEF UploadInv, TypeOK
    <3> HIDE DEF sent, f
    <3> QED
      BY <2>1, <3>1
  <2>3. f \in Nonced => key[u] = u /\ stored[f][u] \subseteq sent
    BY <2>1 DEF UploadInv, KeyInv
  <2>4. \A g \in Nonced : Stored(g) \subseteq Stored(g)'
    <3> SUFFICES ASSUME NEW g \in Nonced, NEW v \in Uploads, NEW x \in stored[g][v]
                 PROVE  \E w \in Uploads : x \in stored'[g][w]
      BY DEF Stored
    <3> HIDE DEF sent, f
    <3>1. CASE g = f /\ v = key[u]
      BY <2>2, <2>3, <3>1
    <3>2. CASE ~(g = f /\ v = key[u])
      BY <2>2, <3>2
    <3> QED
      BY <3>1, <3>2
  <2>5. f \in Nonced => 1 .. local[u].upto \subseteq Stored(f)'
    <3> SUFFICES ASSUME f \in Nonced PROVE 1 .. local[u].upto \subseteq Stored(f)'
      OBVIOUS
    <3>1. 1 .. local[u].from \subseteq Stored(f)'
      <4>1. 1 .. local[u].from \subseteq Stored(f)
        BY <2>1 DEF UploadInv, RangeInv
      <4> QED
        BY <2>1, <2>4, <4>1
    <3>2. sent \subseteq Stored(f)'
      <4>1. stored'[f][key[u]] = sent
        BY <2>1, <2>2
      <4> QED
        BY <2>1, <4>1 DEF Stored
    <3> QED
      BY <2>1, <3>1, <3>2
  <2>6. NothingSkipped'
    BY <1>6, <2>4 DEF Deliver, UploadInv, NothingSkipped
  <2>7. SuccessMeansStored'
    BY <1>6, <2>1, <2>4 DEF Deliver, UploadInv, TypeOK, SuccessMeansStored
  <2>8. RangeInv'
    <3> SUFFICES ASSUME NEW v \in Uploads PROVE RangeInv!(v)'
      BY DEF RangeInv
    <3>1. target'[v] = target[v] /\ UNCHANGED << size, asked >>
      BY <1>6 DEF Deliver
    <3>2. CASE v = u
      BY <2>1, <2>4, <2>5, <3>1, <3>2 DEF UploadInv, RangeInv, TypeOK
    <3>3. CASE v # u
      <4>1. stage'[v] = stage[v]
        BY <2>1, <3>3 DEF UploadInv, TypeOK
      <4> QED
        BY <2>1, <2>4, <3>1, <4>1 DEF UploadInv, RangeInv
    <3> QED
      BY <3>2, <3>3
  <2>9. KeyInv'
    <3>1. target' = target
      BY <1>6 DEF Deliver
    <3>2. \A v \in Uploads : stage'[v] = IF v = u THEN "sent" ELSE stage[v]
      BY <2>1 DEF UploadInv, TypeOK
    <3>3. \A v \in Uploads :
             target[v] \in Nonced \/ stage'[v] \in {"idle", "resolve"} => key[v] = v
      BY <3>2 DEF UploadInv, KeyInv
    <3>4. ASSUME NEW v \in Uploads, NEW g \in Nonced, stored'[g][v] # {}
          PROVE  /\ g = target[v]
                 /\ stage'[v] \in {"send", "sent", "ok", "failed"}
                 /\ stage'[v] \in {"send", "sent"} =>
                       stored'[g][v] = local[v].from + 1 .. local[v].upto
      <4>1. CASE g = f /\ v = key[u]
        BY <2>1, <2>2, <2>3, <3>2, <4>1
      <4>2. CASE ~(g = f /\ v = key[u])
        <5>1. stored'[g][v] = stored[g][v]
          BY <2>2, <4>2
        <5>2. v # u
          BY <2>3, <3>4, <4>2, <5>1 DEF UploadInv, KeyInv
        <5> QED
          BY <3>2, <3>4, <5>1, <5>2 DEF UploadInv, KeyInv
      <4> QED
        BY <4>1, <4>2
    <3> QED
      BY <2>1, <3>1, <3>3, <3>4 DEF KeyInv
  <2> QED
    BY <2>6, <2>7, <2>8, <2>9 DEF UploadInv
<1>7. ASSUME NEW u \in Uploads, Succeed(u) PROVE UploadInv'
  <2>1. target[u] \in Nonced =>
           1 .. local[u].upto \subseteq Stored(target[u]) /\ asked[u] <= local[u].upto
    BY <1>7 DEF Succeed, UploadInv, RangeInv
  <2>2. NothingSkipped'
    BY <1>0, <1>7, <2>1 DEF Succeed, UploadInv, TypeOK, NothingSkipped
  <2>3. target[u] \in Nonced => 1 .. asked[u] \subseteq Stored(target[u])
    BY <2>1 DEF UploadInv, TypeOK, Locals
  <2>4. SuccessMeansStored' /\ RangeInv'
    BY <1>0, <1>7, <2>3 DEF Succeed, UploadInv, TypeOK, SuccessMeansStored, RangeInv
  <2>5. KeyInv'
    BY <1>7 DEF Succeed, UploadInv, TypeOK, KeyInv
  <2> QED
    BY <2>2, <2>4, <2>5 DEF UploadInv
<1>8. ASSUME NEW u \in Uploads, Retry(u) PROVE UploadInv'
  <2>1. /\ local'[u].from = local[u].from /\ local'[u].upto = local[u].upto
        /\ \A v \in Uploads : v # u => local'[v] = local[v] /\ stage'[v] = stage[v]
        /\ stage'[u] = "send"
    BY <1>8 DEF Retry, UploadInv, TypeOK, Locals
  <2>2. NothingSkipped' /\ SuccessMeansStored'
    BY <1>0, <1>8, <2>1
       DEF Retry, UploadInv, TypeOK, NothingSkipped, SuccessMeansStored
  <2>3. RangeInv'
    BY <1>0, <1>8, <2>1 DEF Retry, UploadInv, TypeOK, RangeInv
  <2>4. KeyInv'
    <3>1. UNCHANGED << stored, target, key >> /\ stage[u] \in {"send", "sent"}
      BY <1>8 DEF Retry
    <3>2. \A v \in Uploads : /\ local'[v].from = local[v].from
                            /\ local'[v].upto = local[v].upto
      BY <2>1
    <3>3. \A v \in Uploads : stage'[v] = stage[v] \/ v = u
      BY <2>1
    <3> QED
      BY <2>1, <3>1, <3>2, <3>3 DEF UploadInv, KeyInv
  <2> QED
    BY <2>2, <2>3, <2>4 DEF UploadInv
<1>9. ASSUME NEW u \in Uploads, GiveUp(u) PROVE UploadInv'
  <2>1. NothingSkipped' /\ SuccessMeansStored' /\ RangeInv'
    BY <1>0, <1>9 DEF GiveUp, UploadInv, TypeOK, NothingSkipped, SuccessMeansStored, RangeInv
  <2>2. KeyInv'
    BY <1>9 DEF GiveUp, UploadInv, TypeOK, KeyInv
  <2> QED
    BY <2>1, <2>2 DEF UploadInv
<1>10. CASE Restart
  <2>1. NothingSkipped' /\ SuccessMeansStored' /\ RangeInv'
    BY <1>0, <1>10
       DEF Restart, UploadInv, TypeOK, NothingSkipped, SuccessMeansStored, RangeInv
  <2>2. KeyInv'
    BY <1>10 DEF Restart, UploadInv, TypeOK, KeyInv, Stages
  <2> QED
    BY <2>1, <2>2 DEF UploadInv
<1>11. CASE UNCHANGED vars
  BY <1>0, <1>11 DEF vars, UploadInv, NothingSkipped, SuccessMeansStored, RangeInv, KeyInv
<1> QED
  BY <1>1, <1>2, <1>3, <1>4, <1>5, <1>6, <1>7, <1>8, <1>9, <1>10, <1>11
     DEF Next, Step

LEMMA UploadInvariance == Spec => []UploadInv
<1>1. UploadInv /\ [Next]_vars => UploadInv'
  BY UploadKept
<1> QED
  BY <1>1, UploadInit, PTL DEF Spec

\* Whatever lies before an audit log's offset is in the store, in whatever order concurrent
\* uploads move it (onSuccess after the PUT in uploadDelta).
THEOREM NothingIsSkipped == Spec => []NothingSkipped
<1>1. UploadInv => NothingSkipped
  BY DEF UploadInv
<1> QED
  BY <1>1, UploadInvariance, PTL

\* An upload of an audit log that succeeded stored every line it had on disk, having
\* begun after the one it waited for (uploadDelta awaits, then computes).
THEOREM SuccessIsStored == Spec => []SuccessMeansStored
<1>1. UploadInv => SuccessMeansStored
  BY DEF UploadInv
<1> QED
  BY <1>1, UploadInvariance, PTL

----------------------------------------------------------------------------
\* AuditLog.

\* Whoever has a line has written it.
WrittenInv ==
    \A d \in Dates : \A i \in 1 .. Len(Lines(d)) : append[Lines(d)[i]] \notin {"idle", "signing"}

LogInv == LinesKept /\ WrittenInv

\* A step of the log is one of the uploader, or leaves the uploader alone.
LEMMA LogStepIsUploadStep == ASSUME LogTypeOK, [LogNext]_logVars PROVE [Next]_vars
<1> USE AuditLogAssumption
<1>1. ASSUME NEW a \in Appends, AppendStep(a) PROVE [Next]_vars
  <2>1. CASE StartAppend(a)
    <3>1. CASE date # NoDate /\ Call(a, date)
      <4>1. date \in Files /\ a \in Uploads
        BY <3>1 DEF LogTypeOK, Dates
      <4> QED
        BY <3>1, <4>1 DEF Next
    <3> QED
      BY <2>1, <3>1 DEF StartAppend, KeepStream, Rotate
  <2> QED
    BY <1>1, <2>1 DEF AppendStep, SignFails, Write
<1>2. ASSUME NEW f \in Flushes, StartFlush(f) \/ FlushStep(f) PROVE [Next]_vars
  <2>1. CASE date # NoDate /\ Call(f, date)
    <3>1. date \in Files /\ f \in Uploads
      BY <2>1 DEF LogTypeOK, Dates
    <3> QED
      BY <2>1, <3>1 DEF Next
  <2> QED
    BY <1>2, <2>1 DEF StartFlush, FlushStep, UploadFlush, EndFlush
<1>3. ASSUME NEW u \in Uploads, UploadStep(u) PROVE [Next]_vars
  BY <1>3 DEF UploadStep, Next
<1>4. ASSUME NEW d \in Dates, Drain(d) PROVE [Next]_vars
  BY <1>4 DEF Drain, Next, Dates
<1>5. CASE Break
  BY <1>5 DEF Break
<1>6. CASE RestartLog
  BY <1>6 DEF RestartLog, Next
<1>7. CASE UNCHANGED logVars
  BY <1>7 DEF logVars
<1> QED
  BY <1>1, <1>2, <1>3, <1>4, <1>5, <1>6, <1>7 DEF LogNext

\* A line that reaches the file leaves the log of its day as it was.
LEMMA DrainedLines ==
    ASSUME NEW S, NEW s \in Seq(S), NEW p \in Seq(S), p # << >>
    PROVE  /\ Tail(p) \in Seq(S) /\ Append(s, Head(p)) \in Seq(S)
           /\ Append(s, Head(p)) \o Tail(p) = s \o p
<1>1. Head(p) \in S /\ Tail(p) \in Seq(S) /\ Len(Tail(p)) = Len(p) - 1 /\ Len(p) # 0
  OBVIOUS
<1>2. \A i \in 1 .. Len(p) - 1 : Tail(p)[i] = p[i + 1]
  OBVIOUS
<1>3. Len(Append(s, Head(p)) \o Tail(p)) = Len(s \o p)
  BY <1>1
<1>4. ASSUME NEW i \in 1 .. Len(s \o p)
      PROVE  (Append(s, Head(p)) \o Tail(p))[i] = (s \o p)[i]
  BY <1>1, <1>2
<1>5. Append(s, Head(p)) \o Tail(p) \in Seq(S) /\ s \o p \in Seq(S)
  BY <1>1
<1> QED
  BY <1>1, <1>3, <1>4, <1>5

\* A line that is written comes last in the log of its day.
LEMMA WrittenLine ==
    ASSUME NEW S, NEW s \in Seq(S), NEW p \in Seq(S), NEW a \in S
    PROVE  /\ Append(p, a) \in Seq(S)
           /\ Len(s \o Append(p, a)) = Len(s \o p) + 1
           /\ (s \o Append(p, a))[Len(s \o p) + 1] = a
           /\ \A i \in 1 .. Len(s \o p) : (s \o Append(p, a))[i] = (s \o p)[i]
<1>1. Append(p, a) \in Seq(S) /\ Len(Append(p, a)) = Len(p) + 1 /\ Append(p, a)[Len(p) + 1] = a
  OBVIOUS
<1>2. \A i \in 1 .. Len(p) : Append(p, a)[i] = p[i]
  OBVIOUS
<1>3. Len(s \o p) = Len(s) + Len(p) /\ Len(s) \in Nat /\ Len(p) \in Nat
  OBVIOUS
<1>4. (s \o Append(p, a))[Len(s) + (Len(p) + 1)] = a
  BY <1>1, <1>3
<1>5. ASSUME NEW i \in 1 .. Len(s \o p) PROVE (s \o Append(p, a))[i] = (s \o p)[i]
  BY <1>1, <1>2, <1>3
<1> QED
  BY <1>1, <1>3, <1>4, <1>5

\* What remains of the lines of a stream that is destroyed comes first in the log of its day.
LEMMA KeptLines ==
    ASSUME NEW S, NEW s \in Seq(S), NEW p \in Seq(S), NEW k \in 0 .. Len(p)
    PROVE  /\ Len(s \o SubSeq(p, 1, k)) <= Len(s \o p)
           /\ \A i \in 1 .. Len(s \o SubSeq(p, 1, k)) : (s \o SubSeq(p, 1, k))[i] = (s \o p)[i]
<1>1. /\ Len(SubSeq(p, 1, k)) = k /\ Len(p) \in Nat /\ Len(s) \in Nat
      /\ SubSeq(p, 1, k) \in Seq(S)
      /\ \A i \in 1 .. k : SubSeq(p, 1, k)[i] = p[i]
  OBVIOUS
<1>2. Len(s \o p) = Len(s) + Len(p) /\ Len(s \o SubSeq(p, 1, k)) = Len(s) + k
  BY <1>1
<1>3. ASSUME NEW i \in 1 .. Len(s) + k PROVE (s \o SubSeq(p, 1, k))[i] = (s \o p)[i]
  BY <1>1
<1> QED
  BY <1>1, <1>2, <1>3

\* What each day's log loses it loses at its end.
NoNewLines ==
    \A d \in Dates :
        /\ Len(Lines(d)') <= Len(Lines(d))
        /\ \A i \in 1 .. Len(Lines(d)') : Lines(d)'[i] = Lines(d)[i]

\* Without new lines the invariant needs only that appends which ended stay so.
LEMMA NoNewLinesKept ==
    ASSUME LogInv, LogTypeOK', NoNewLines,
           \A a \in Appends : append[a] \in {"returned", "failed"} => append'[a] = append[a]
    PROVE  LogInv'
<1>1. \A d \in Dates : Lines(d) \in Seq(Appends) /\ Lines(d)' \in Seq(Appends)
  BY DEF LogInv, LinesKept, LogTypeOK, Lines
<1>2. \A d \in Dates : \A i \in 1 .. Len(Lines(d)') :
         i \in 1 .. Len(Lines(d)) /\ Lines(d)'[i] = Lines(d)[i] /\ Lines(d)[i] \in Appends
  BY <1>1 DEF NoNewLines
<1>3. LinesOnce'
  BY <1>2 DEF LogInv, LinesKept, LinesOnce, Dates
<1>4. WrittenInv'
  <2> SUFFICES ASSUME NEW d \in Dates, NEW i \in 1 .. Len(Lines(d)')
               PROVE  append'[Lines(d)'[i]] \notin {"idle", "signing"}
    BY DEF WrittenInv, Dates
  <2>1. append[Lines(d)[i]] \in {"returned", "failed"}
    BY <1>2 DEF LogInv, LinesKept, LogTypeOK, WrittenInv
  <2> QED
    BY <1>2, <2>1
<1> QED
  BY <1>3, <1>4 DEF LogInv, LinesKept

LEMMA LogInitial == LogInit => LogInv
<1> SUFFICES ASSUME LogInit PROVE LogInv
  OBVIOUS
<1>1. LogTypeOK
  <2>1. TypeOK
    BY UploadInit DEF LogInit, UploadInv
  <2>2. \A d \in Dates : size[d] = Len(file[d])
    BY DEF LogInit, Init, Dates
  <2>3. << >> \in Seq(Appends)
    OBVIOUS
  <2>4. pending \in [Dates -> Seq(Appends)] /\ file \in [Dates -> Seq(Appends)]
    BY <2>3 DEF LogInit
  <2>5. breaks \in 0 .. MaxBreaks
    BY AuditLogAssumption DEF LogInit
  <2> QED
    BY <2>1, <2>2, <2>4, <2>5 DEF LogInit, LogTypeOK
<1>2. \A d \in Dates : Lines(d) = << >>
  BY DEF LogInit, Lines
<1> QED
  BY <1>1, <1>2 DEF LogInv, LinesKept, LinesOnce, WrittenInv

\* The appender keeps its variables in their types, and the size of a file is the
\* number of its lines.
LEMMA LogTypeStep == ASSUME LogTypeOK, [LogNext]_logVars PROVE LogTypeOK'
<1>t. TypeOK'
  BY LogStepIsUploadStep, UploadTypeStep DEF LogTypeOK
<1> USE AuditLogAssumption, <1>t DEF LogTypeOK, Dates
<1>0. UNCHANGED << size, file >> => \A d \in Dates : size'[d] = Len(file'[d])
  OBVIOUS
<1>1. ASSUME NEW a \in Appends, StartAppend(a) PROVE LogTypeOK'
  <2>1. pending' \in [Dates -> Seq(Appends)]
    <3>1. CASE pending' = pending
      BY <3>1
    <3>2. CASE /\ date # NoDate
               /\ \E kept \in Destroyed(pending[date]) :
                     pending' = [pending EXCEPT ![date] = kept]
      <4>1. \A k \in 0 .. Len(pending[date]) : SubSeq(pending[date], 1, k) \in Seq(Appends)
        BY <3>2
      <4>2. PICK k \in 0 .. Len(pending[date]) :
                pending' = [pending EXCEPT ![date] = SubSeq(pending[date], 1, k)]
        BY <3>2 DEF Destroyed
      <4> QED
        BY <4>1, <4>2
    <3> QED
      BY <1>1, <3>1, <3>2 DEF StartAppend, KeepStream, Rotate
  <2>2. UNCHANGED size
    BY <1>1 DEF StartAppend, KeepStream, Rotate, Call, vars, fileVars
  <2>3. DateOf[a] \in Dates /\ date' = DateOf[a] /\ broken' \in BOOLEAN
    BY <1>1 DEF StartAppend, KeepStream, Rotate
  <2> QED
    BY <1>0, <1>1, <2>1, <2>2, <2>3 DEF StartAppend
<1>2. ASSUME NEW a \in Appends, SignFails(a) PROVE LogTypeOK'
  BY <1>0, <1>2 DEF SignFails, vars, fileVars
<1>3. ASSUME NEW a \in Appends, Write(a) PROVE LogTypeOK'
  <2>1. pending' \in [Dates -> Seq(Appends)]
    <3>1. date \in Dates => Append(pending[date], a) \in Seq(Appends)
      BY WrittenLine
    <3> QED
      BY <1>3, <3>1 DEF Write
  <2>2. append' \in [Appends -> {"idle", "signing", "returned", "failed"}] /\ agentLog' \subseteq Agents
    BY <1>3 DEF Write
  <2> QED
    BY <1>0, <1>3, <2>1, <2>2 DEF Write, vars, fileVars
<1>4. ASSUME NEW f \in Flushes, StartFlush(f) PROVE LogTypeOK'
  BY <1>0, <1>4 DEF StartFlush, vars, fileVars
<1>5. ASSUME NEW f \in Flushes, UploadFlush(f) PROVE LogTypeOK'
  BY <1>0, <1>5 DEF UploadFlush, Call, vars, fileVars
<1>6. ASSUME NEW f \in Flushes, EndFlush(f) PROVE LogTypeOK'
  BY <1>0, <1>6 DEF EndFlush, Ended, vars, fileVars
<1>7. ASSUME NEW u \in Uploads, UploadStep(u) PROVE LogTypeOK'
  <2>1. UNCHANGED size
    BY <1>7 DEF UploadStep, Step, ResolveFails, Enter, Resume, Deliver, Succeed, Retry, GiveUp, fileVars
  <2> QED
    BY <1>0, <1>7, <2>1 DEF UploadStep, appenderVars
<1>8. ASSUME NEW d \in Dates, Drain(d) PROVE LogTypeOK'
  <2>1. pending[d] \in Seq(Appends) /\ file[d] \in Seq(Appends) /\ pending[d] # << >>
    BY <1>8 DEF Drain
  <2>2. /\ Tail(pending[d]) \in Seq(Appends)
        /\ Append(file[d], Head(pending[d])) \in Seq(Appends)
        /\ Len(Append(file[d], Head(pending[d]))) = Len(file[d]) + 1
    BY <2>1
  <2>3. pending' \in [Dates -> Seq(Appends)] /\ file' \in [Dates -> Seq(Appends)]
    BY <1>8, <2>2 DEF Drain
  <2>4. \A e \in Dates : size'[e] = Len(file'[e])
    BY <1>8, <2>2 DEF Drain, Grow, TypeOK
  <2> QED
    BY <1>8, <2>3, <2>4 DEF Drain
<1>9. CASE Break
  <2>1. breaks' \in 0 .. MaxBreaks
    BY <1>9 DEF Break
  <2> QED
    BY <1>0, <1>9, <2>1 DEF Break, vars, fileVars
<1>10. CASE RestartLog
  <2>1. append' \in [Appends -> {"idle", "signing", "returned", "failed"}]
    BY <1>10 DEF RestartLog
  <2>2. flush' \in [Flushes -> {"idle", "drained", "uploading", "stuck", "ok", "failed"}]
    BY <1>10 DEF RestartLog
  <2>3. pending' \in [Dates -> Seq(Appends)]
    <3>1. << >> \in Seq(Appends)
      OBVIOUS
    <3> QED
      BY <1>10, <3>1 DEF RestartLog
  <2> QED
    BY <1>0, <1>10, <2>1, <2>2, <2>3 DEF RestartLog, Restart
<1>11. CASE UNCHANGED logVars
  BY <1>0, <1>11 DEF logVars, appenderVars, vars, fileVars
<1> QED
  BY <1>1, <1>2, <1>3, <1>4, <1>5, <1>6, <1>7, <1>8, <1>9, <1>10, <1>11
     DEF LogNext, AppendStep, FlushStep

\* Write is the one step that adds a line, and its append has none so far.
LEMMA WriteKept == ASSUME LogInv, LogTypeOK', NEW a \in Appends, Write(a) PROVE LogInv'
<1>0. /\ \A d \in Dates : file[d] \in Seq(Appends) /\ pending[d] \in Seq(Appends)
      /\ \A d \in Dates : Lines(d) \in Seq(Appends)
      /\ append[a] = "signing" /\ file' = file
      /\ append' \in [Appends -> {"idle", "signing", "returned", "failed"}]
      /\ append'[a] \in {"returned", "failed"}
      /\ \A b \in Appends : b # a => append'[b] = append[b]
  BY DEF LogInv, LinesKept, LogTypeOK, Lines, Write
<1>1. CASE pending' = pending
  <2>1. NoNewLines
    BY <1>0, <1>1 DEF NoNewLines, Lines
  <2> QED
    BY <1>0, <2>1, NoNewLinesKept
<1>2. ASSUME NEW today \in Dates, pending' = [pending EXCEPT ![today] = Append(@, a)]
      PROVE  LogInv'
  <2>1. /\ \A d \in Dates : d # today => Lines(d)' = Lines(d)
        /\ Lines(today)' = file[today] \o Append(pending[today], a)
    <3>1. \A d \in Dates : pending'[d] = IF d = today THEN Append(pending[today], a) ELSE pending[d]
      BY <1>2 DEF LogInv, LinesKept, LogTypeOK
    <3> QED
      BY <1>0, <1>2, <3>1 DEF Lines
  <2>2. /\ Len(Lines(today)') = Len(Lines(today)) + 1
        /\ Lines(today)'[Len(Lines(today)) + 1] = a
        /\ \A i \in 1 .. Len(Lines(today)) : Lines(today)'[i] = Lines(today)[i]
    <3>1. /\ Len(file[today] \o Append(pending[today], a)) = Len(file[today] \o pending[today]) + 1
          /\ (file[today] \o Append(pending[today], a))[Len(file[today] \o pending[today]) + 1] = a
          /\ \A i \in 1 .. Len(file[today] \o pending[today]) :
                (file[today] \o Append(pending[today], a))[i] = (file[today] \o pending[today])[i]
      <4>1. file[today] \in Seq(Appends) /\ pending[today] \in Seq(Appends)
        BY <1>0
      <4>2. \A f, p \in Seq(Appends) :
               /\ Len(f \o Append(p, a)) = Len(f \o p) + 1
               /\ (f \o Append(p, a))[Len(f \o p) + 1] = a
               /\ \A i \in 1 .. Len(f \o p) : (f \o Append(p, a))[i] = (f \o p)[i]
        BY WrittenLine
      <4> QED
        BY <4>1, <4>2
    <3> QED
      BY <2>1, <3>1 DEF Lines
  <2>3. \A d \in Dates : \A i \in 1 .. Len(Lines(d)) :
           Lines(d)[i] \in Appends /\ Lines(d)[i] # a
    BY <1>0 DEF LogInv, WrittenInv
  <2>4. ASSUME NEW d \in Dates, NEW i \in 1 .. Len(Lines(d)')
        PROVE  \/ i \in 1 .. Len(Lines(d)) /\ Lines(d)'[i] = Lines(d)[i]
               \/ d = today /\ i = Len(Lines(d)) + 1 /\ Lines(d)'[i] = a
    <3>1. Len(Lines(d)) \in Nat
      BY <1>0
    <3>2. CASE d = today
      BY <2>2, <3>1, <3>2
    <3>3. CASE d # today
      BY <2>1, <3>3
    <3> QED
      BY <3>2, <3>3
  <2>5. LinesOnce'
    <3> SUFFICES ASSUME NEW d \in Dates, NEW e \in Dates, NEW i \in 1 .. Len(Lines(d)'),
                        NEW j \in 1 .. Len(Lines(e)'), Lines(d)'[i] = Lines(e)'[j]
                 PROVE  d = e /\ i = j
      BY DEF LinesOnce, Dates
    <3> QED
      BY <2>3, <2>4 DEF LogInv, LinesKept, LinesOnce
  <2>6. WrittenInv'
    <3> SUFFICES ASSUME NEW d \in Dates, NEW i \in 1 .. Len(Lines(d)')
                 PROVE  append'[Lines(d)'[i]] \notin {"idle", "signing"}
      BY DEF WrittenInv, Dates
    <3> QED
      BY <1>0, <2>3, <2>4 DEF LogInv, WrittenInv
  <2> QED
    BY <2>5, <2>6 DEF LogInv, LinesKept
<1>3. date \in Dates \/ pending' = pending
  BY AuditLogAssumption DEF Write, LogInv, LinesKept, LogTypeOK
<1> QED
  BY <1>1, <1>2, <1>3 DEF Write

\* A line that reaches its file, or is lost on the way, is not a new one.
LEMMA LogStep == ASSUME LogInv, [LogNext]_logVars PROVE LogInv'
<1>t. LogTypeOK /\ LogTypeOK'
  BY LogTypeStep DEF LogInv, LinesKept
<1>0. /\ \A d \in Dates : /\ file[d] \in Seq(Appends) /\ pending[d] \in Seq(Appends)
                          /\ Lines(d) \in Seq(Appends) /\ Len(Lines(d)) \in Nat
      /\ append \in [Appends -> {"idle", "signing", "returned", "failed"}]
  <2>1. \A d \in Dates : file[d] \in Seq(Appends) /\ pending[d] \in Seq(Appends)
    BY <1>t DEF LogTypeOK
  <2>2. \A d \in Dates : Lines(d) \in Seq(Appends)
    BY <2>1 DEF Lines
  <2> QED
    BY <1>t, <2>1, <2>2 DEF LogTypeOK
<1>1. ASSUME UNCHANGED << file, pending, append >> PROVE LogInv'
  <2>1. NoNewLines
    BY <1>0, <1>1 DEF NoNewLines, Lines
  <2> QED
    BY <1>1, <1>t, <2>1, NoNewLinesKept
\* A stream that is left, destroyed or broken keeps a first part of its lines.
<1>2. ASSUME file' = file, NEW d \in Dates, NEW k \in 0 .. Len(pending[d]),
             pending' = [pending EXCEPT ![d] = SubSeq(pending[d], 1, k)]
      PROVE  NoNewLines
  <2>1. file[d] \in Seq(Appends) /\ pending[d] \in Seq(Appends)
    BY <1>0
  <2>2. /\ Len(file[d] \o SubSeq(pending[d], 1, k)) <= Len(file[d] \o pending[d])
        /\ \A i \in 1 .. Len(file[d] \o SubSeq(pending[d], 1, k)) :
              (file[d] \o SubSeq(pending[d], 1, k))[i] = (file[d] \o pending[d])[i]
    <3>1. \A f, p \in Seq(Appends) : \A j \in 0 .. Len(p) :
             /\ Len(f \o SubSeq(p, 1, j)) <= Len(f \o p)
             /\ \A i \in 1 .. Len(f \o SubSeq(p, 1, j)) : (f \o SubSeq(p, 1, j))[i] = (f \o p)[i]
      BY KeptLines
    <3> QED
      BY <2>1, <3>1
  <2>3. /\ Lines(d)' = file[d] \o SubSeq(pending[d], 1, k)
        /\ \A e \in Dates : e # d => Lines(e)' = Lines(e)
    BY <1>2, <1>t DEF Lines, LogTypeOK
  <2>4. NoNewLines!(d)
    BY <2>2, <2>3 DEF Lines
  <2>5. \A e \in Dates : e # d => NoNewLines!(e)
    BY <1>0, <2>3
  <2> QED
    BY <2>4, <2>5 DEF NoNewLines
<1>3. ASSUME NEW a \in Appends, StartAppend(a) PROVE LogInv'
  <2>1. CASE pending' = pending
    BY <1>0, <1>3, <1>t, <2>1, NoNewLinesKept DEF StartAppend, NoNewLines, Lines
  <2>2. ASSUME NEW k \in 0 .. Len(pending[date]), date \in Dates,
               pending' = [pending EXCEPT ![date] = SubSeq(pending[date], 1, k)]
        PROVE  LogInv'
    <3>1. NoNewLines
      BY <1>2, <1>3, <2>2 DEF StartAppend
    <3> QED
      BY <1>0, <1>3, <1>t, <3>1, NoNewLinesKept DEF StartAppend
  <2> QED
    BY <1>3, <1>t, <2>1, <2>2 DEF StartAppend, KeepStream, Rotate, Destroyed, LogTypeOK
<1>4. ASSUME NEW a \in Appends, SignFails(a) PROVE LogInv'
  <2>1. NoNewLines
    BY <1>0, <1>4 DEF SignFails, NoNewLines, Lines
  <2> QED
    BY <1>0, <1>4, <1>t, <2>1, NoNewLinesKept DEF SignFails
<1>5. ASSUME NEW a \in Appends, Write(a) PROVE LogInv'
  BY <1>5, <1>t, WriteKept
<1>6. ASSUME NEW f \in Flushes, StartFlush(f) \/ FlushStep(f) PROVE LogInv'
  BY <1>1, <1>6 DEF StartFlush, FlushStep, UploadFlush, EndFlush
<1>7. ASSUME NEW u \in Uploads, UploadStep(u) PROVE LogInv'
  BY <1>1, <1>7 DEF UploadStep, appenderVars
<1>8. ASSUME NEW d \in Dates, Drain(d) PROVE LogInv'
  <2>1. pending[d] # << >> /\ file[d] \in Seq(Appends) /\ pending[d] \in Seq(Appends)
    BY <1>0, <1>8 DEF Drain
  <2>2. Append(file[d], Head(pending[d])) \o Tail(pending[d]) = file[d] \o pending[d]
    BY <2>1, DrainedLines
  <2>3. \A e \in Dates : Lines(e)' = Lines(e)
    BY <1>8, <1>t, <2>2 DEF Drain, Lines, LogTypeOK
  <2>4. NoNewLines
    BY <1>0, <2>3 DEF NoNewLines
  <2> QED
    BY <1>0, <1>8, <1>t, <2>4, NoNewLinesKept DEF Drain
<1>9. CASE Break
  <2>1. PICK d \in Dates : date = d /\ pending' = [pending EXCEPT ![d] = << >>]
    BY <1>9, <1>t DEF Break, LogTypeOK
  <2>2. SubSeq(pending[d], 1, 0) = << >> /\ 0 \in 0 .. Len(pending[d])
    BY <1>0
  <2>3. NoNewLines
    BY <1>2, <1>9, <2>1, <2>2 DEF Break
  <2> QED
    BY <1>0, <1>9, <1>t, <2>3, NoNewLinesKept DEF Break
<1>10. CASE RestartLog
  <2>1. \A d \in Dates : Lines(d)' = file[d] \o << >> /\ file[d] \o << >> = file[d]
    BY <1>0, <1>10 DEF RestartLog, Lines
  <2>2. NoNewLines
    <3>1. ASSUME NEW d \in Dates
          PROVE  /\ Len(file[d]) <= Len(file[d] \o pending[d])
                 /\ \A i \in 1 .. Len(file[d]) : file[d][i] = (file[d] \o pending[d])[i]
      <4>1. \A f, p \in Seq(Appends) :
               /\ Len(f) <= Len(f \o p)
               /\ \A i \in 1 .. Len(f) : f[i] = (f \o p)[i]
        OBVIOUS
      <4> QED
        BY <1>0, <4>1
    <3> QED
      BY <2>1, <3>1 DEF NoNewLines, Lines
  <2>3. \A a \in Appends : append[a] \in {"returned", "failed"} => append'[a] = append[a]
    BY <1>10 DEF RestartLog
  <2> QED
    BY <1>t, <2>2, <2>3, NoNewLinesKept
<1>11. CASE UNCHANGED logVars
  BY <1>1, <1>11 DEF logVars, appenderVars
<1> QED
  BY <1>3, <1>4, <1>5, <1>6, <1>7, <1>8, <1>9, <1>10, <1>11, AuditLogAssumption
     DEF LogNext, AppendStep

LEMMA LogInvariance == LogSpec => []LogInv
<1>1. LogInv /\ [LogNext]_logVars => LogInv'
  BY LogStep
<1> QED
  BY <1>1, LogInitial, PTL DEF LogSpec

\* An append writes one line at most, into one day's file, although the stream may be
\* rotated, broken or destroyed between the hand-over of the line (write in appender.ts)
\* and its way into the file.
THEOREM LinesAreKept == LogSpec => []LinesKept
<1>1. LogInv => LinesKept
  BY DEF LogInv
<1> QED
  BY <1>1, LogInvariance, PTL

\* Appender and file manager use the uploader as it is specified: every step of the log is one
\* of AuditUpload, or leaves its variables alone.
THEOREM LogUploadsAsSpecified == LogSpec => UploadsAsSpecified
<1>1. LogInit => Init
  BY DEF LogInit
<1>2. LogInv /\ [LogNext]_logVars => [Next]_vars
  BY LogStepIsUploadStep DEF LogInv, LinesKept
<1> QED
  BY <1>1, <1>2, LogInvariance, PTL DEF LogSpec, UploadsAsSpecified

\* So the log skips no line before the offset of a day, and an upload of a day (of a
\* rotation or a flush) that succeeded stored every line the day's file had at its call.
THEOREM LogIsUploaded == LogSpec => [](NothingSkipped /\ SuccessMeansStored)
<1>1. UploadInv /\ [Next]_vars => UploadInv'
  BY UploadKept
<1>2. UploadInv => NothingSkipped /\ SuccessMeansStored
  BY DEF UploadInv
<1> QED
  BY <1>1, <1>2, UploadInit, LogUploadsAsSpecified, PTL DEF UploadsAsSpecified
=============================================================================
