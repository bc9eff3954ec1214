--------------------------- MODULE ScanGate_proofs ---------------------------
(***************************************************************************)
(* The invariants of ScanGate for any number of calls at a gate, and that  *)
(* a verdict that blocks stays.                                            *)
(*                                                                         *)
(* OneScan and PendingIsScanned are inductive together.  What callers are  *)
(* told also needs to know what entries look like (EntryInv), that outside *)
(* sast a registered scan has its entry in the cache and a running one has *)
(* the pending entry there (OwnerInv), and that a call which scans for     *)
(* itself found nothing that could have told it better (CallInv).          *)
(***************************************************************************)
EXTENDS ScanGate, TLAPS

\* Findings that block come with a failed scan.
EntryInv == cache.high => cache.status = "fail"

\* Only sast's entries are dropped, or replaced by the call's own scan, while a
\* background scan is registered.
OwnerInv ==
    /\ config.gate # "sast" /\ inflight => cache.status # "absent"
    /\ config.gate # "sast" /\ scans > 0 => cache.status = "pending"
    /\ config.gate \in {"file", "sync"} => scans = 0

\* Who scans for itself, or broke, found no verdict.
CallInv ==
    \A c \in Calls :
        /\ call[c].at = "foreground" =>
              /\ config.gate # "dast"
              /\ call[c].found.status \in {"absent", "pending"}
              /\ ~call[c].found.high
        /\ call[c].at # "told" => call[c].told = "none"

IInv == TypeOK /\ OneScan /\ PendingIsScanned /\ EntryInv /\ OwnerInv /\ CallInv
             /\ FoundIsTold /\ BreaksOnlyWithout

LEMMA EntryShapes ==
    /\ Absent \in Entries /\ Pending \in Entries /\ Erred \in Entries
    /\ Verdicts \subseteq Entries
    /\ \A v \in Verdicts \cup {Erred} : v.status \in {"pass", "fail"}
                                     /\ (v.high => v.status = "fail")
    /\ ~Absent.high /\ Absent.status = "absent"
    /\ ~Pending.high /\ Pending.status = "pending"
  BY DEF Absent, Pending, Erred, Verdicts, Verdict, Entries

\* What getCached gives is an entry of the kind the cache holds.
LEMMA CachedIs ==
    ASSUME TypeOK, EntryInv
    PROVE  /\ Cached \in Entries
           /\ Cached = cache \/ (Cached = Absent /\ config.gate = "sast")
           /\ Cached.high => Cached.status = "fail"
  BY EntryShapes DEF TypeOK, EntryInv, Cached

LEMMA Start == Init => IInv
<1> SUFFICES ASSUME Init PROVE IInv
  OBVIOUS
<1>1. TypeOK
  BY EntryShapes DEF Init, TypeOK, CallRecord, IdleCall
<1>2. OneScan /\ PendingIsScanned /\ EntryInv /\ OwnerInv
  BY DEF Init, OneScan, PendingIsScanned, EntryInv, OwnerInv, Absent
<1>3. CallInv /\ FoundIsTold /\ BreaksOnlyWithout
  BY DEF Init, CallInv, FoundIsTold, BreaksOnlyWithout, IdleCall, Absent
<1> QED
  BY <1>1, <1>2, <1>3 DEF IInv

\* A call that is told an entry's verdict, with the entry it found when it came
\* and the other calls as they are or on their own.
Fresh(calls, c) == \A d \in Calls \ {c} :
    /\ calls[d].at = call[d].at /\ calls[d].told = call[d].told
    /\ calls[d].found = call[d].found

\* The three statements about calls survive the steps that change one call: it
\* is told an entry, or broke, or begins to scan.
LEMMA TellKeeps ==
    ASSUME IInv, NEW c \in Calls, NEW entry \in Entries,
           NEW calls \in [Calls -> CallRecord], Fresh(calls, c),
           entry.high => entry.status = "fail",
           Tell(c, entry, calls), UNCHANGED config,
           calls[c].found.high /\ (Sandboxed \/ (config.gate = "file" /\ ~config.onChangeOnly))
              => entry = calls[c].found
    PROVE  /\ call' \in [Calls -> CallRecord] /\ rule' \in BOOLEAN
           /\ CallInv' /\ FoundIsTold' /\ BreaksOnlyWithout'
<1> DEFINE told == call'[c].told
<1>1. /\ rule' \in BOOLEAN
      /\ call' = [calls EXCEPT ![c].at = "told", ![c].told = told]
      /\ told \in {"skipped", "passed", "blocked"}
      /\ Blocks(entry) => told = "blocked"
  BY DEF Tell, CallRecord, IInv, TypeOK, Blocks
<1>2. call' \in [Calls -> CallRecord]
  BY <1>1 DEF CallRecord
<1>3. \A d \in Calls \ {c} : call'[d].at = call[d].at /\ call'[d].told = call[d].told
                          /\ call'[d].found = call[d].found
  BY <1>1 DEF Fresh
<1>4. call'[c].at = "told" /\ call'[c].found = calls[c].found
  BY <1>1 DEF CallRecord
<1>5. CallInv'
  BY <1>3, <1>4 DEF IInv, CallInv
<1>6. Sandboxed' = Sandboxed
  BY DEF Sandboxed
<1>7. FoundIsTold'
  BY <1>1, <1>3, <1>4, <1>6 DEF IInv, FoundIsTold, Blocks
<1>8. BreaksOnlyWithout'
  BY <1>1, <1>3, <1>4, <1>6 DEF IInv, BreaksOnlyWithout
<1> QED
  BY <1>1, <1>2, <1>5, <1>7, <1>8

\* The check broke, where its call found no verdict outside the sandbox.
LEMMA BreakKeeps ==
    ASSUME IInv, NEW c \in Calls,
           NEW calls \in [Calls -> CallRecord], Fresh(calls, c),
           Break(c, calls), UNCHANGED config, ~Sandboxed,
           calls[c].found.status \in {"absent", "pending"}, ~calls[c].found.high
    PROVE  /\ call' \in [Calls -> CallRecord] /\ rule' \in BOOLEAN
           /\ CallInv' /\ FoundIsTold' /\ BreaksOnlyWithout'
<1>1. /\ rule' \in BOOLEAN
      /\ call' = [calls EXCEPT ![c].at = "told", ![c].told = "error"]
  BY DEF Break, IInv, TypeOK
<1>2. call' \in [Calls -> CallRecord]
  BY <1>1 DEF CallRecord
<1>3. \A d \in Calls \ {c} : call'[d].at = call[d].at /\ call'[d].told = call[d].told
                          /\ call'[d].found = call[d].found
  BY <1>1 DEF Fresh
<1>4. call'[c].at = "told" /\ call'[c].found = calls[c].found
  BY <1>1 DEF CallRecord
<1>5. CallInv'
  BY <1>3, <1>4 DEF IInv, CallInv
<1>6. Sandboxed' = Sandboxed
  BY DEF Sandboxed
<1>7. FoundIsTold'
  BY <1>3, <1>4, <1>6 DEF IInv, FoundIsTold
<1>8. BreaksOnlyWithout'
  BY <1>3, <1>4, <1>6 DEF IInv, BreaksOnlyWithout
<1> QED
  BY <1>1, <1>2, <1>5, <1>7, <1>8

\* A call begins a scan of its own, with nothing found.
LEMMA ScansItself ==
    ASSUME IInv, NEW c \in Calls, call[c].at = "idle",
           NEW calls \in [Calls -> CallRecord], Fresh(calls, c),
           calls[c].told = call[c].told,
           UNCHANGED config, config.gate # "dast",
           calls[c].found.status \in {"absent", "pending"}, ~calls[c].found.high,
           NEW share \in BOOLEAN,
           call' = [calls EXCEPT ![c].at = "foreground", ![c].shares = share]
    PROVE  call' \in [Calls -> CallRecord] /\ CallInv' /\ FoundIsTold' /\ BreaksOnlyWithout'
<1>1. call' \in [Calls -> CallRecord]
  BY DEF CallRecord
<1>2. \A d \in Calls \ {c} : call'[d].at = call[d].at /\ call'[d].told = call[d].told
                          /\ call'[d].found = call[d].found
  BY DEF Fresh
<1>3. call'[c].at = "foreground" /\ call'[c].found = calls[c].found /\ call'[c].told = "none"
  BY DEF CallRecord, IInv, CallInv
<1>4. CallInv'
  BY <1>2, <1>3 DEF IInv, CallInv
<1>5. Sandboxed' = Sandboxed
  BY DEF Sandboxed
<1>6. FoundIsTold'
  BY <1>2, <1>3, <1>5 DEF IInv, FoundIsTold
<1>7. BreaksOnlyWithout'
  BY <1>2, <1>3, <1>5 DEF IInv, BreaksOnlyWithout
<1> QED
  BY <1>1, <1>4, <1>6, <1>7

\* Calls on their own are what they were, but for the entry they share.
LEMMA DetachedIs ==
    ASSUME IInv
    PROVE  /\ Detached \in [Calls -> CallRecord]
           /\ \A d \in Calls : /\ Detached[d].at = call[d].at
                              /\ Detached[d].told = call[d].told
                              /\ Detached[d].found = call[d].found
<1>1. ASSUME NEW d \in Calls
      PROVE  LET off == [call[d] EXCEPT !.shares = FALSE]
             IN  /\ off \in CallRecord /\ off.at = call[d].at
                 /\ off.told = call[d].told /\ off.found = call[d].found
  BY DEF IInv, TypeOK, CallRecord
<1>2. \A d \in Calls : Detached[d] = [call[d] EXCEPT !.shares = FALSE]
  BY DEF Detached
<1>3. Detached = [d \in Calls |-> Detached[d]]
  BY DEF Detached
<1> QED
  BY <1>1, <1>2, <1>3

\* The calls as they are, or on their own, when one of them comes.
LEMMA Arrival ==
    ASSUME IInv, NEW c \in Calls, NEW calls \in {call, Detached}
    PROVE  /\ Arrive(c, calls) \in [Calls -> CallRecord]
           /\ Fresh(Arrive(c, calls), c)
           /\ Arrive(c, calls)[c].found = Cached
           /\ Arrive(c, calls)[c].told = call[c].told
<1>1. Cached \in Entries
  BY CachedIs DEF IInv
<1>2. /\ calls \in [Calls -> CallRecord]
      /\ \A d \in Calls : calls[d].at = call[d].at /\ calls[d].told = call[d].told
                        /\ calls[d].found = call[d].found
  BY DetachedIs DEF IInv, TypeOK
<1> QED
  BY <1>1, <1>2 DEF Arrive, CallRecord, Fresh

LEMMA SkipStep == ASSUME IInv, NEW c \in Calls, Skip(c) PROVE IInv'
<1> DEFINE arrived == Arrive(c, call)
<1>1. /\ arrived \in [Calls -> CallRecord] /\ Fresh(arrived, c)
      /\ arrived[c].found = Cached /\ arrived[c].told = call[c].told
  BY Arrival
<1>2. UNCHANGED << config, cache, inflight, scans >>
  BY DEF Skip
<1>3. /\ call' \in [Calls -> CallRecord] /\ rule' \in BOOLEAN
      /\ CallInv' /\ FoundIsTold' /\ BreaksOnlyWithout'
  <2>1. CASE Sandboxed
    <3>1. Tell(c, Cached, arrived)
      BY <2>1 DEF Skip
    <3> QED
      BY <1>1, <1>2, <3>1, CachedIs, TellKeeps DEF IInv
  <2>2. CASE ~Sandboxed
    <3>1. /\ call' = [arrived EXCEPT ![c].at = "told", ![c].told = "skipped"]
          /\ rule' = rule /\ ~ScanNow(FALSE)
      BY <2>2 DEF Skip
    <3>2. config.gate # "file" \/ config.onChangeOnly
      BY <3>1 DEF ScanNow, IInv, TypeOK
    <3>3. \A d \in Calls \ {c} : call'[d].at = call[d].at /\ call'[d].told = call[d].told
                              /\ call'[d].found = call[d].found
      BY <1>1, <3>1 DEF Fresh
    <3>4. call' \in [Calls -> CallRecord] /\ call'[c].at = "told" /\ call'[c].told = "skipped"
      BY <1>1, <3>1 DEF CallRecord
    <3>5. Sandboxed' = Sandboxed
      BY <1>2 DEF Sandboxed
    <3> QED
      BY <1>2, <2>2, <3>1, <3>2, <3>3, <3>4, <3>5
         DEF IInv, TypeOK, CallInv, FoundIsTold, BreaksOnlyWithout
  <2> QED
    BY <2>1, <2>2
<1> QED
  BY <1>2, <1>3 DEF IInv, TypeOK, OneScan, PendingIsScanned, EntryInv, OwnerInv

LEMMA ConsultStep == ASSUME IInv, NEW c \in Calls, Consult(c) PROVE IInv'
<1> DEFINE arrived == Arrive(c, call)
<1>1. /\ arrived \in [Calls -> CallRecord] /\ Fresh(arrived, c)
      /\ arrived[c].found = Cached /\ arrived[c].told = call[c].told
  BY Arrival
<1>2. UNCHANGED << config, cache, inflight, scans >> /\ call[c].at = "idle"
  BY DEF Consult
<1>3. /\ call' \in [Calls -> CallRecord] /\ rule' \in BOOLEAN
      /\ CallInv' /\ FoundIsTold' /\ BreaksOnlyWithout'
  <2>1. CASE Cached.status \in {"pass", "fail"}
    <3>1. Tell(c, Cached, arrived)
      BY <2>1 DEF Consult
    <3> QED
      BY <1>1, <1>2, <3>1, CachedIs, TellKeeps DEF IInv
  <2>2. CASE Cached.status \notin {"pass", "fail"}
    <3>1. /\ config.gate \in {"file", "sync"} /\ rule' = rule
          /\ call' = [arrived EXCEPT ![c].at = "foreground"]
      BY <2>2 DEF Consult
    <3>2. /\ Cached.status \in {"absent", "pending"} /\ ~Cached.high
          /\ arrived[c].shares \in BOOLEAN
      BY <1>1, <2>2, CachedIs DEF IInv, Entries, CallRecord
    <3>3. call' = [arrived EXCEPT ![c].at = "foreground", ![c].shares = arrived[c].shares]
      BY <1>1, <3>1 DEF CallRecord
    <3>4. call' \in [Calls -> CallRecord] /\ CallInv' /\ FoundIsTold' /\ BreaksOnlyWithout'
      BY <1>1, <1>2, <3>1, <3>2, <3>3, ScansItself
    <3> QED
      BY <3>1, <3>4 DEF IInv, TypeOK
  <2> QED
    BY <2>1, <2>2
<1> QED
  BY <1>2, <1>3 DEF IInv, TypeOK, OneScan, PendingIsScanned, EntryInv, OwnerInv

\* A scan is started, in the background, where none is registered and so none
\* runs; where one is registered the call goes by the entry there is.
LEMMA EnsureStep == ASSUME IInv, NEW c \in Calls, Ensure(c) PROVE IInv'
<1> DEFINE begins == ~inflight
           calls(entry) == IF begins \/ entry.status = "absent" THEN Detached ELSE call
           arrived(entry) == Arrive(c, calls(entry))
<1>1. PICK entry \in {Pending, Erred, Cached}, runs \in {0, 1} :
        /\ begins => \/ entry = Pending /\ runs = 1
                     \/ entry = Erred /\ runs = 0
        /\ ~begins => entry = Cached /\ runs = 0
        /\ cache' = entry /\ inflight' = TRUE /\ scans' = scans + runs
        /\ IF entry.status = "pending" /\ config.gate = "sast"
           THEN /\ call' = [arrived(entry) EXCEPT ![c].at = "foreground", ![c].shares = TRUE]
                /\ UNCHANGED rule
           ELSE IF entry.status = "absent" THEN Break(c, arrived(entry))
           ELSE Tell(c, entry, arrived(entry))
  BY DEF Ensure, Register, IInv, TypeOK
<1>2. /\ call[c].at = "idle" /\ config.gate \in {"sast", "dast"}
      /\ Cached.status \in {"absent", "pending"} /\ UNCHANGED config
  BY DEF Ensure, Unknown
<1>3. /\ Cached \in Entries /\ ~Cached.high
      /\ Cached = cache \/ (Cached = Absent /\ config.gate = "sast")
  BY <1>2, CachedIs DEF IInv
<1>4. /\ entry \in Entries /\ (entry.high => entry.status = "fail")
      /\ entry = Pending \/ entry = Erred \/ entry = Cached
  BY <1>1, <1>3, EntryShapes
<1>5. begins => scans = 0
  BY DEF IInv, TypeOK, OneScan
<1>6. calls(entry) \in {call, Detached}
  OBVIOUS
<1>7. /\ arrived(entry) \in [Calls -> CallRecord] /\ Fresh(arrived(entry), c)
      /\ arrived(entry)[c].found = Cached /\ arrived(entry)[c].told = call[c].told
  BY <1>6, Arrival
<1> HIDE DEF arrived, calls
<1>8. /\ call' \in [Calls -> CallRecord] /\ rule' \in BOOLEAN
      /\ CallInv' /\ FoundIsTold' /\ BreaksOnlyWithout'
  <2>1. CASE entry.status = "pending" /\ config.gate = "sast"
    BY <1>1, <1>2, <1>3, <1>7, <2>1, ScansItself DEF IInv, TypeOK
  <2>2. CASE entry.status = "absent"
    <3>1. ~begins /\ entry = Cached
      BY <1>1, <2>2, EntryShapes
    <3>2. config.gate = "sast"
      BY <1>2, <1>3, <2>2, <3>1 DEF IInv, OwnerInv
    <3>3. ~Sandboxed /\ Break(c, arrived(entry))
      BY <1>1, <2>2, <3>2 DEF Sandboxed
    <3> QED
      BY <1>2, <1>3, <1>7, <3>3, BreakKeeps
  <2>3. CASE ~(entry.status = "pending" /\ config.gate = "sast") /\ entry.status # "absent"
    <3>1. Tell(c, entry, arrived(entry))
      BY <1>1, <2>3
    <3> QED
      BY <1>2, <1>3, <1>4, <1>7, <3>1, TellKeeps
  <2> QED
    BY <2>1, <2>2, <2>3
<1>9. OneScan' /\ PendingIsScanned' /\ EntryInv'
  BY <1>1, <1>3, <1>4, <1>5, EntryShapes
     DEF IInv, TypeOK, OneScan, PendingIsScanned, EntryInv
<1>10. OwnerInv'
  BY <1>1, <1>2, <1>3, <1>5, EntryShapes DEF IInv, TypeOK, OwnerInv
<1> QED
  BY <1>1, <1>2, <1>4, <1>8, <1>9, <1>10 DEF IInv, TypeOK

\* The call's own scan is over.
LEMMA ForegroundStep == ASSUME IInv, NEW c \in Calls, Foreground(c) PROVE IInv'
<1>1. /\ call[c].at = "foreground" /\ UNCHANGED << config, inflight, scans >>
      /\ call[c].found.status \in {"absent", "pending"} /\ ~call[c].found.high
      /\ config.gate # "dast" /\ call \in [Calls -> CallRecord] /\ Fresh(call, c)
  BY DEF Foreground, IInv, TypeOK, CallInv, Fresh
<1>2. CASE \E v \in Verdicts \cup {Erred} : Tell(c, v, call) /\ cache' \in {cache, v}
  <2>1. PICK v \in Verdicts \cup {Erred} : Tell(c, v, call) /\ cache' \in {cache, v}
    BY <1>2
  <2>2. v \in Entries /\ (v.high => v.status = "fail") /\ v.status \in {"pass", "fail"}
    BY EntryShapes
  <2>3. /\ call' \in [Calls -> CallRecord] /\ rule' \in BOOLEAN
        /\ CallInv' /\ FoundIsTold' /\ BreaksOnlyWithout'
    BY <1>1, <2>1, <2>2, TellKeeps
  <2>4. OneScan' /\ PendingIsScanned' /\ EntryInv' /\ OwnerInv'
    BY <1>1, <2>1, <2>2
       DEF IInv, TypeOK, OneScan, PendingIsScanned, EntryInv, OwnerInv
  <2> QED
    BY <1>1, <2>1, <2>2, <2>3, <2>4 DEF IInv, TypeOK
<1>3. CASE config.gate # "sync" /\ Break(c, call) /\ UNCHANGED cache
  <2>1. ~Sandboxed
    BY <1>1, <1>3 DEF Sandboxed
  <2>2. /\ call' \in [Calls -> CallRecord] /\ rule' \in BOOLEAN
        /\ CallInv' /\ FoundIsTold' /\ BreaksOnlyWithout'
    BY <1>1, <1>3, <2>1, BreakKeeps
  <2> QED
    BY <1>1, <1>3, <2>2
       DEF IInv, TypeOK, OneScan, PendingIsScanned, EntryInv, OwnerInv
<1> QED
  BY <1>2, <1>3 DEF Foreground

LEMMA ScanEndsStep == ASSUME IInv, ScanEnds PROVE IInv'
<1>1. PICK v \in Verdicts \cup {Erred} : cache' = v
  BY DEF ScanEnds
<1>2. /\ scans = 1 /\ scans' = 0 /\ inflight' = FALSE
      /\ call' = Detached /\ UNCHANGED << config, rule >>
  BY DEF ScanEnds, IInv, TypeOK, OneScan
<1>3. v \in Entries /\ (v.high => v.status = "fail") /\ v.status \in {"pass", "fail"}
  BY EntryShapes
<1>4. CallInv' /\ FoundIsTold' /\ BreaksOnlyWithout'
  BY <1>2, DetachedIs DEF IInv, CallInv, FoundIsTold, BreaksOnlyWithout, Sandboxed
<1>5. OneScan' /\ PendingIsScanned' /\ EntryInv' /\ OwnerInv'
  BY <1>1, <1>2, <1>3 DEF OneScan, PendingIsScanned, EntryInv, OwnerInv
<1>6. TypeOK'
  BY <1>1, <1>2, <1>3, DetachedIs DEF IInv, TypeOK
<1> QED
  BY <1>4, <1>5, <1>6 DEF IInv

LEMMA AgesStep == ASSUME IInv, Ages PROVE IInv'
<1>1. UNCHANGED << config, inflight, scans, call >>
  BY DEF Ages
<1>2. /\ cache' \in Entries /\ cache'.status = cache.status /\ cache'.high = cache.high
      /\ rule' \in BOOLEAN
  BY DEF Ages, IInv, TypeOK, Entries
<1> QED
  BY <1>1, <1>2 DEF IInv, TypeOK, OneScan, PendingIsScanned, EntryInv, OwnerInv, CallInv,
                    FoundIsTold, BreaksOnlyWithout, Sandboxed

LEMMA LeaveStep == ASSUME IInv, NEW c \in Calls, Leave(c) PROVE IInv'
<1>1. UNCHANGED << config, cache, inflight, scans, rule >>
      /\ call' = [call EXCEPT ![c] = IdleCall]
  BY DEF Leave
<1>2. IdleCall \in CallRecord /\ IdleCall.at = "idle" /\ IdleCall.told = "none"
  BY EntryShapes DEF IdleCall, CallRecord
<1>3. call' \in [Calls -> CallRecord]
  BY <1>1, <1>2 DEF IInv, TypeOK
<1>4. call'[c] = IdleCall /\ \A d \in Calls \ {c} : call'[d] = call[d]
  BY <1>1 DEF IInv, TypeOK
<1>5. CallInv' /\ FoundIsTold' /\ BreaksOnlyWithout'
  BY <1>1, <1>2, <1>4 DEF IInv, CallInv, FoundIsTold, BreaksOnlyWithout, Sandboxed
<1> QED
  BY <1>1, <1>3, <1>5 DEF IInv, TypeOK, OneScan, PendingIsScanned, EntryInv, OwnerInv

LEMMA Invariance == Spec => []IInv
<1>1. IInv /\ [Next]_vars => IInv'
  <2> SUFFICES ASSUME IInv, [Next]_vars PROVE IInv'
    OBVIOUS
  <2>1. CASE UNCHANGED vars
    BY <2>1 DEF vars, IInv, TypeOK, OneScan, PendingIsScanned, EntryInv, OwnerInv, CallInv,
                FoundIsTold, BreaksOnlyWithout, Sandboxed
  <2>2. CASE Next
    BY <2>2, SkipStep, ConsultStep, EnsureStep, ForegroundStep, LeaveStep, ScanEndsStep, AgesStep
       DEF Next
  <2> QED
    BY <2>1, <2>2
<1> QED
  BY <1>1, Start, PTL DEF Spec

----------------------------------------------------------------------------
\* ensureScan of sast and dast: one background scan at a time, registered, and
\* every pending entry has one, whatever hooks throw and entries expire.
THEOREM ScansAreAccounted == Spec => []ScansAccounted
<1>1. IInv => ScansAccounted
  BY DEF IInv, ScansAccounted
<1> QED
  BY <1>1, Invariance, PTL

\* runSast, runDast and scanFileIfNeeded tell a call of the verdict that was in
\* the cache when it came, and break only where there was none.
THEOREM VerdictsAreTold == Spec => []VerdictIsTold
<1>1. IInv => VerdictIsTold
  BY DEF IInv, VerdictIsTold
<1> QED
  BY <1>1, Invariance, PTL

\* Outside sast, a cached verdict that blocks is replaced only by a call that was
\* scanning already: no background scan runs beside it.
THEOREM VerdictStays == Spec => VerdictKept
<1>1. IInv /\ [Next]_vars =>
        [config.gate # "sast" /\ cache.high /\ (\A c \in Calls : call[c].at # "foreground")
           => cache'.high]_vars
  <2> SUFFICES ASSUME IInv, Next, config.gate # "sast", cache.high,
                      \A c \in Calls : call[c].at # "foreground"
               PROVE  cache'.high
    BY DEF vars
  <2>1. scans = 0 /\ cache.status = "fail" /\ Cached = cache
    BY DEF IInv, TypeOK, EntryInv, OwnerInv, Cached
  <2>2. ASSUME NEW c \in Calls PROVE ~Ensure(c) /\ ~Foreground(c)
    BY <2>1 DEF Ensure, Unknown, Foreground
  <2>3. ~ScanEnds
    BY <2>1 DEF ScanEnds
  <2>4. Ages => cache'.high
    BY DEF Ages, IInv, TypeOK, Entries
  <2> QED
    BY <2>2, <2>3, <2>4 DEF Next, Skip, Consult, Leave
<1> QED
  BY <1>1, Invariance, PTL DEF VerdictKept, Spec
============================================================================
