---------------------------- MODULE AuditUpload ----------------------------
(***************************************************************************)
(* Uploader.uploadDelta and UploadStateManager (src/audit/uploader.ts,     *)
(* src/audit/upload-state.ts): log files only grow, and an upload sends    *)
(* the lines behind the file's offset to an object store and then moves    *)
(* the offset.  Uploads of one file are started by rotations, flushes and  *)
(* agent lines, and run concurrently within a process; offsets survive a   *)
(* restart in a state file whose writes and reads may fail.                *)
(*                                                                         *)
(* A file is the number of its lines, an object the set of lines last PUT  *)
(* under its key.  The key of an audit log ends in a nonce; that of a raw  *)
(* or agent log only in the millisecond the upload took it, which another  *)
(* upload of the file may have taken too.                                  *)
(***************************************************************************)
EXTENDS Integers

CONSTANTS
    Files,        \* log files: one per day, raw day or agent reference
    Nonced,       \* audit logs: those whose object keys carry a nonce
    Uploads,      \* calls of uploadAudit, uploadRaw and uploadAgent
    NoUpload,     \* a value that is no upload
    MaxAttempts,  \* Uploader.maxUploadAttempts
    MaxLines,     \* bound: lines of a file
    MaxRestarts   \* bound: restarts of the process

ASSUME AuditUploadAssumption ==
    /\ Files # {}
    /\ Nonced \subseteq Files
    /\ NoUpload \notin Uploads
    /\ MaxAttempts \in Nat \ {0}
    /\ MaxLines \in Nat
    /\ MaxRestarts \in Nat

VARIABLES
    size,      \* lines of each file on disk; a file without lines may not exist
    offset,    \* the offsets in memory
    saved,     \* the offsets in the state file
    stored,    \* the object store: the lines of each file under each key
    stage,     \* where each upload is
    target,    \* the file it uploads, some file until it is called
    asked,     \* how many lines the file had when the upload was called
    key,       \* its key, by the upload that took it first
    local,     \* its local variables: the upload it awaits, the range it sends
               \* (from the offset up to the size when computed) and its attempt
    inFlight,  \* inFlightByFilePath
    restarts   \* restarts so far

fileVars == << size, offset, saved, stored >>
callVars == << target, asked, key >>
vars == << fileVars, stage, callVars, local, inFlight, restarts >>

Stages == {"idle", "resolve", "await", "send", "sent", "ok", "failed"}
Ended == {"ok", "failed"}

Locals == [awaited : Uploads \cup {NoUpload}, from : 0 .. MaxLines,
           upto : 0 .. MaxLines, attempt : 0 .. MaxAttempts]

NoLocals == [awaited |-> NoUpload, from |-> 0, upto |-> 0, attempt |-> 0]

TypeOK ==
    /\ size \in [Files -> 0 .. MaxLines]
    /\ offset \in [Files -> 0 .. MaxLines]
    /\ saved \in [Files -> 0 .. MaxLines]
    /\ stored \in [Files -> [Uploads -> SUBSET (1 .. MaxLines)]]
    /\ stage \in [Uploads -> Stages]
    /\ target \in [Uploads -> Files]
    /\ asked \in [Uploads -> 0 .. MaxLines]
    /\ key \in [Uploads -> Uploads]
    /\ local \in [Uploads -> Locals]
    /\ inFlight \in [Files -> Uploads \cup {NoUpload}]
    /\ restarts \in 0 .. MaxRestarts

SomeFile == CHOOSE f \in Files : TRUE

Init ==
    /\ size = [f \in Files |-> 0]
    /\ offset = [f \in Files |-> 0]
    /\ saved = [f \in Files |-> 0]
    /\ stored = [f \in Files |-> [u \in Uploads |-> {}]]
    /\ stage = [u \in Uploads |-> "idle"]
    /\ target = [u \in Uploads |-> SomeFile]
    /\ asked = [u \in Uploads |-> 0]
    /\ key = [u \in Uploads |-> u]
    /\ local = [u \in Uploads |-> NoLocals]
    /\ inFlight = [f \in Files |-> NoUpload]
    /\ restarts = 0

\* An upload moves on with these local variables; an ended one has none.
To(u, s, l) ==
    /\ stage' = [stage EXCEPT ![u] = s]
    /\ local' = [local EXCEPT ![u] = l]

End(u, s) == To(u, s, NoLocals)

----------------------------------------------------------------------------
\* A line reaches the file.
Grow(f) ==
    /\ size[f] < MaxLines
    /\ size' = [size EXCEPT ![f] = @ + 1]
    /\ UNCHANGED << offset, saved, stored, stage, callVars, local, inFlight, restarts >>

\* uploadAudit, uploadRaw or uploadAgent is called for a file; it first awaits
\* the tenant's hierarchy.
Call(u, f) ==
    /\ stage[u] = "idle"
    /\ To(u, "resolve", NoLocals)
    /\ target' = [target EXCEPT ![u] = f]
    /\ asked' = [asked EXCEPT ![u] = size[f]]
    /\ UNCHANGED << fileVars, key, inFlight, restarts >>

ResolveFails(u) ==
    /\ stage[u] = "resolve"
    /\ End(u, "failed")
    /\ UNCHANGED << fileVars, callVars, inFlight, restarts >>

\* computeDelta: what lies behind the offset; an offset behind the end of the
\* file starts over.
DeltaStart(f) == IF offset[f] > size[f] THEN 0 ELSE offset[f]

Delta(f) == [awaited |-> NoUpload, from |-> DeltaStart(f), upto |-> size[f],
             attempt |-> 1]

\* The synchronous head of the work: without a file or new bytes there is nothing
\* to do, otherwise the range is fixed.  The work is registered over any other;
\* work that is over at once leaves nothing registered.
Begin(u, f) ==
    \/ /\ size[f] <= DeltaStart(f)
       /\ End(u, "ok")
       /\ inFlight' = [inFlight EXCEPT ![f] = NoUpload]
    \/ /\ size[f] > DeltaStart(f)
       /\ To(u, "send", Delta(f))
       /\ inFlight' = [inFlight EXCEPT ![f] = u]

\* buildIngestKey, buildRawKey, buildAgentKey: without a nonce the key may be
\* one that an upload took which has not tried to send anything yet.
Keys(u) ==
    {u} \cup {key[v] : v \in {w \in Uploads : /\ target[u] \notin Nonced
                                             /\ target[w] = target[u]
                                             /\ stage[w] \in {"await", "send"}
                                             /\ local[w].attempt < 2}}

\* The hierarchy is known: take a key, then wait for an upload of the same file,
\* or begin.
Enter(u) ==
    /\ stage[u] = "resolve"
    /\ \E k \in Keys(u) : key' = [key EXCEPT ![u] = k]
    /\ LET existing == inFlight[target[u]]
       IN  \/ /\ existing # NoUpload
              /\ To(u, "await", [NoLocals EXCEPT !.awaited = existing])
              /\ UNCHANGED inFlight
           \/ /\ existing = NoUpload
              /\ Begin(u, target[u])
    /\ UNCHANGED << fileVars, target, asked, restarts >>

\* Mutant: an upload shares the outcome of the one it found.
ResumeJoined(u) ==
    /\ stage[u] = "await" /\ stage[local[u].awaited] \in Ended
    /\ End(u, stage[local[u].awaited])
    /\ UNCHANGED << fileVars, callVars, inFlight, restarts >>

\* The upload it waited for is over: its rejection is passed on, otherwise this
\* one begins, without a second look at inFlight.
Resume(u) ==
    /\ stage[u] = "await"
    /\ \/ /\ stage[local[u].awaited] = "failed"
          /\ End(u, "failed")
          /\ UNCHANGED inFlight
       \/ /\ stage[local[u].awaited] = "ok"
          /\ Begin(u, target[u])
    /\ UNCHANGED << fileVars, callVars, restarts >>

\* The presigned PUT stores the range in place of what the key held.
Deliver(u) ==
    /\ stage[u] = "send"
    /\ stored' = [stored EXCEPT ![target[u]][key[u]] =
                     local[u].from + 1 .. local[u].upto]
    /\ To(u, "sent", local[u])
    /\ UNCHANGED << size, offset, saved, callVars, inFlight, restarts >>

Release(u) ==
    inFlight' = IF inFlight[target[u]] = u
                THEN [inFlight EXCEPT ![target[u]] = NoUpload]
                ELSE inFlight

\* Mutant: the offset moves to the size the file has by now.
SucceedAtSize(u) ==
    /\ stage[u] = "sent"
    /\ offset' = [offset EXCEPT ![target[u]] = size[target[u]]]
    /\ saved' \in {saved, offset'}
    /\ End(u, "ok")
    /\ Release(u)
    /\ UNCHANGED << size, stored, callVars, restarts >>

\* The store answers with success.  onSuccess sets the offset, perhaps back, and
\* writes all offsets to the state file, unless that fails.
Succeed(u) ==
    /\ stage[u] = "sent"
    /\ offset' = [offset EXCEPT ![target[u]] = local[u].upto]
    /\ saved' \in {saved, offset'}
    /\ End(u, "ok")
    /\ Release(u)
    /\ UNCHANGED << size, stored, callVars, restarts >>

\* Mutant: a transient failure does not use up an attempt.
RetryUncounted(u) ==
    /\ stage[u] \in {"send", "sent"}
    /\ local[u].attempt < MaxAttempts
    /\ To(u, "send", local[u])
    /\ UNCHANGED << fileVars, callVars, inFlight, restarts >>

\* The presign request or the PUT fails, perhaps after the object was stored.
\* A transient failure is retried, up to the last attempt.
Retry(u) ==
    /\ stage[u] \in {"send", "sent"}
    /\ local[u].attempt < MaxAttempts
    /\ To(u, "send", [local[u] EXCEPT !.attempt = @ + 1])
    /\ UNCHANGED << fileVars, callVars, inFlight, restarts >>

GiveUp(u) ==
    /\ stage[u] \in {"send", "sent"}
    /\ End(u, "failed")
    /\ Release(u)
    /\ UNCHANGED << fileVars, callVars, restarts >>

\* The process restarts: its uploads are gone, and load() reads the state
\* file or, when that fails, starts from nothing.
Restart ==
    /\ restarts < MaxRestarts
    /\ restarts' = restarts + 1
    /\ offset' \in {saved, [f \in Files |-> 0]}
    /\ stage' = [u \in Uploads |-> IF stage[u] \in {"idle", "ok"} THEN stage[u]
                                                                  ELSE "failed"]
    /\ local' = [u \in Uploads |-> NoLocals]
    /\ inFlight' = [f \in Files |-> NoUpload]
    /\ UNCHANGED << size, saved, stored, callVars >>

Step(u) ==
    \/ ResolveFails(u) \/ Enter(u) \/ Resume(u)
    \/ Deliver(u) \/ Succeed(u) \/ Retry(u) \/ GiveUp(u)

Next ==
    \/ \E f \in Files : Grow(f)
    \/ \E u \in Uploads, f \in Files : Call(u, f)
    \/ \E u \in Uploads : Step(u)
    \/ Restart

\* withTimeout aborts every request, so that each upload's next await settles.
Fairness == \A u \in Uploads : WF_vars(Step(u))

Spec == Init /\ [][Next]_vars /\ Fairness

----------------------------------------------------------------------------
\* Properties.

Stored(f) == UNION {stored[f][u] : u \in Uploads}

\* No line of an audit log is skipped: whatever lies before an offset, in memory
\* or in the state file, is in the store, although concurrent uploads of one file
\* move its offset in any order and restarts bring old offsets back.
NothingSkipped ==
    \A f \in Nonced :
        /\ 1 .. offset[f] \subseteq Stored(f)
        /\ 1 .. saved[f] \subseteq Stored(f)

\* A caller whose upload of an audit log succeeded finds every line in the store
\* that was on disk when it called, also when it had to wait for another upload.
SuccessMeansStored ==
    \A u \in Uploads :
        stage[u] = "ok" /\ target[u] \in Nonced => 1 .. asked[u] \subseteq Stored(target[u])

\* "Manages persisted upload offsets to support incremental (delta) uploads": what
\* lies before the offset of any file, a raw or an agent log too, is in the store.
OffsetsAreStored == \A f \in Files : 1 .. offset[f] \subseteq Stored(f)

\* Every upload ends: uploads do not wait for each other in circles, and
\* transient failures are retried a bounded number of times.
EveryUploadEnds == \A u \in Uploads : stage[u] = "resolve" ~> stage[u] \in Ended
============================================================================
