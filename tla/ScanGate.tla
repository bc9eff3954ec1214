------------------------------ MODULE ScanGate ------------------------------
(***************************************************************************)
(* The scans a tool call passes: the managers of src/middleware/sast.ts    *)
(* and dast.ts, with their caches and registries of scans in flight, and   *)
(* runSast and runDast of src/middleware/scanPipeline.ts, through which    *)
(* calls come to them.  One tool and one version of its code, at one gate: *)
(* "sast" scans in the background and lets the call that met the scan run  *)
(* another one in the foreground; "file" scans the tool's source file;     *)
(* "dast" scans in the background; "sync" is dast's synchronous mode.      *)
(*                                                                         *)
(* The scanners are external; findings either reach the blocking threshold *)
(* or not.  Uploads of raw findings are left out.                          *)
(***************************************************************************)
EXTENDS Integers

CONSTANTS
    Calls      \* calls that may be at the gate at once

VARIABLES
    config,    \* which gate it is, block_on_change and scan_on_change_only
    cache,     \* the entry the gate keeps
    inflight,  \* whether the registry of scans in flight holds one
    scans,     \* background scans that run
    rule,      \* whether dast's dynamic block of the tool is on
    call       \* what each call is at

vars == << config, cache, inflight, scans, rule, call >>

Sandboxed == config.gate \in {"dast", "sync"}

Absent == [status |-> "absent", high |-> FALSE, fresh |-> FALSE]
Pending == [status |-> "pending", high |-> FALSE, fresh |-> TRUE]

\* What a scanner can say; a scan that throws fails without findings.
Verdict(status, high) == [status |-> status, high |-> high, fresh |-> TRUE]
Erred == Verdict("fail", FALSE)
Verdicts == {Verdict("pass", FALSE), Verdict("fail", FALSE), Verdict("fail", TRUE)}

Entries == [status : {"absent", "pending", "pass", "fail"}, high : BOOLEAN, fresh : BOOLEAN]

\* found: the verdict the cache held when the call came; shares: whether the
\* pending entry the call works on is still the one in the cache.
CallRecord ==
    [at : {"idle", "foreground", "told"}, found : Entries, shares : BOOLEAN,
     told : {"none", "skipped", "passed", "blocked", "error"}]

IdleCall == [at |-> "idle", found |-> Absent, shares |-> FALSE, told |-> "none"]

TypeOK ==
    /\ config \in [gate : {"sast", "file", "dast", "sync"}, blockOnChange : BOOLEAN,
                   onChangeOnly : BOOLEAN]
    /\ cache \in Entries
    /\ inflight \in BOOLEAN
    /\ scans \in Nat
    /\ rule \in BOOLEAN
    /\ call \in [Calls -> CallRecord]

Init ==
    /\ config \in [gate : {"sast", "file", "dast", "sync"}, blockOnChange : BOOLEAN,
                   onChangeOnly : BOOLEAN]
    /\ cache = Absent
    /\ inflight = FALSE
    /\ scans = 0
    /\ rule = FALSE
    /\ call = [c \in Calls |-> IdleCall]

----------------------------------------------------------------------------
\* getCached: only sast's entries grow old, and are dropped when looked at.
Cached == IF config.gate = "sast" /\ ~cache.fresh THEN Absent ELSE cache

\* shouldBlock: sast goes by the status and the findings, dast by the findings.
Blocks(entry) ==
    IF entry.status = "pending" THEN config.blockOnChange
    ELSE entry.high /\ (Sandboxed \/ entry.status = "fail")

\* The entry is replaced: calls that work on the one before are on their own.
Detached == [c \in Calls |-> [call[c] EXCEPT !.shares = FALSE]]

\* Mutant: a scan that failed is tried again.
UnknownUnlessPassed == Cached.status # "pass"

\* ensureScan: there is no verdict.
Unknown == Cached.status \in {"absent", "pending"}

\* A call ends with what an entry says; a sandbox verdict that blocks turns the
\* tool's dynamic rule on, and the rule blocks by itself while it is on.
Tell(c, entry, calls) ==
    LET rules == Sandboxed /\ (rule \/ (Blocks(entry) /\ entry.high))
        told == IF Blocks(entry) \/ rules THEN "blocked"
                ELSE IF entry.status = "absent" THEN "skipped" ELSE "passed"
    IN  /\ call' = [calls EXCEPT ![c].at = "told", ![c].told = told]
        /\ rule' = rules

\* The call's own check threw, which its caller swallows.
Break(c, calls) ==
    /\ call' = [calls EXCEPT ![c].at = "told", ![c].told = "error"]
    /\ UNCHANGED rule

\* Mutant: a source file that was scanned is not looked at again.
ScanNowOnce(changed) == changed \/ (~config.onChangeOnly /\ Cached.status = "absent")

\* A call needs a scan when code changed, or when every call is to be looked at
\* and nothing is known; the entry of a source file is not asked for that.
ScanNow(changed) ==
    changed \/ (~config.onChangeOnly
                /\ (config.gate = "file" \/ Cached.status = "absent"))

Arrive(c, calls) == [calls EXCEPT ![c].found = Cached]

\* Without a need for one sast lets the call through; dast goes by what it has.
Skip(c) ==
    /\ call[c].at = "idle"
    /\ ~ScanNow(FALSE)
    /\ IF Sandboxed THEN Tell(c, Cached, Arrive(c, call))
       ELSE /\ call' = [Arrive(c, call) EXCEPT ![c].at = "told", ![c].told = "skipped"]
            /\ UNCHANGED rule
    /\ UNCHANGED << config, cache, inflight, scans >>

\* The call needs a verdict and there is one, or a scan of the file or in the
\* sandbox that it has to wait for.
Consult(c) ==
    /\ call[c].at = "idle"
    /\ \E changed \in BOOLEAN : ScanNow(changed)
    /\ IF Cached.status \in {"pass", "fail"} THEN Tell(c, Cached, Arrive(c, call))
       ELSE /\ config.gate \in {"file", "sync"}
            /\ call' = [Arrive(c, call) EXCEPT ![c].at = "foreground"]
            /\ UNCHANGED rule
    /\ UNCHANGED << config, cache, inflight, scans >>

\* Mutant: a scan is not entered in the registry.
RegisterNothing(registered, begins) == registered

Register(registered, begins) == registered \/ begins

\* ensureScan without a verdict: a scan is started unless one is registered.  A
\* hook that throws before its first await is over before it is registered, and
\* stays registered.
Ensure(c) ==
    LET begins == ~inflight
        Go(entry, runs) ==
          LET calls == IF begins \/ entry.status = "absent" THEN Detached ELSE call
              arrived == Arrive(c, calls)
          IN  /\ cache' = entry
              /\ inflight' = Register(inflight, begins)
              /\ scans' = scans + runs
              /\ IF entry.status = "pending" /\ config.gate = "sast"
                 THEN /\ call' = [arrived EXCEPT ![c].at = "foreground", ![c].shares = TRUE]
                      /\ UNCHANGED rule
                 ELSE IF entry.status = "absent" THEN Break(c, arrived)
                 ELSE Tell(c, entry, arrived)
    IN  /\ call[c].at = "idle"
        /\ config.gate \in {"sast", "dast"}
        /\ \E changed \in BOOLEAN : ScanNow(changed)
        /\ Unknown
        /\ IF begins THEN Go(Pending, 1) \/ Go(Erred, 0) ELSE Go(Cached, 0)
        /\ UNCHANGED config

\* The call's own scan ends: semgrep's in the foreground of sast, which writes
\* into the entry it holds, that of the file, which errors leave unscanned, or
\* the synchronous one, which nothing keeps from running beside others.
Foreground(c) ==
    /\ call[c].at = "foreground"
    /\ \/ \E v \in Verdicts :
            /\ Tell(c, v, call)
            /\ IF config.gate = "sast" /\ ~call[c].shares THEN UNCHANGED cache
               ELSE cache' = v
       \/ /\ config.gate = "sync"
          /\ Tell(c, Erred, call)
          /\ cache' = Erred
       \/ /\ config.gate # "sync"
          /\ Break(c, call)
          /\ UNCHANGED cache
    /\ UNCHANGED << config, inflight, scans >>

\* Mutant: a scan that throws leaves the entry as it is.
ScanEndsQuietly ==
    /\ scans > 0
    /\ scans' = scans - 1
    /\ inflight' = FALSE
    /\ \/ (\E v \in Verdicts : cache' = v) /\ call' = Detached
       \/ UNCHANGED << cache, call >>
    /\ UNCHANGED << config, rule >>

\* Mutant: the end of a scan is counted where none runs.
ScanEndsAnyway ==
    /\ scans' = scans - 1
    /\ inflight' = FALSE
    /\ call' = Detached
    /\ UNCHANGED << config, cache, rule >>

\* A background scan ends, with a verdict or an error, and its entry replaces
\* whatever is there.
ScanEnds ==
    /\ scans > 0
    /\ scans' = scans - 1
    /\ inflight' = FALSE
    /\ \E v \in Verdicts \cup {Erred} : cache' = v
    /\ call' = Detached
    /\ UNCHANGED << config, rule >>

\* The TTL of the entry, or of the rule, runs out.
Ages ==
    /\ \/ config.gate = "sast" /\ cache' = [cache EXCEPT !.fresh = FALSE] /\ UNCHANGED rule
       \/ rule' = FALSE /\ UNCHANGED cache
    /\ UNCHANGED << config, inflight, scans, call >>

\* A call that was told makes room for another.
Leave(c) ==
    /\ call[c].at = "told"
    /\ call' = [call EXCEPT ![c] = IdleCall]
    /\ UNCHANGED << config, cache, inflight, scans, rule >>

Next ==
    \/ \E c \in Calls : Skip(c) \/ Consult(c) \/ Ensure(c) \/ Foreground(c) \/ Leave(c)
    \/ ScanEnds
    \/ Ages

\* Background scans come to an end.
Spec == Init /\ [][Next]_vars /\ WF_vars(ScanEnds)

----------------------------------------------------------------------------
\* What is checked.

\* One background scan at a time, and it is registered: between the expiry of
\* an entry and the end of its scan nobody starts a second (inflight of
\* ensureScan).
OneScan == scans > 0 => scans = 1 /\ inflight

\* An entry that is pending has its scan under way: it is never the trace of a
\* scan that is over, which everyone would wait behind.
PendingIsScanned == cache.status = "pending" => scans > 0

\* A verdict that blocks, once cached by a gate other than sast's, stays until a
\* call that was already scanning says otherwise: whoever comes with nobody
\* scanning finds it.
VerdictKept ==
    [][config.gate # "sast" /\ cache.high /\ (\A c \in Calls : call[c].at # "foreground")
       => cache'.high]_vars

\* A call that comes to a sandbox gate with a verdict that blocks is blocked.
\* So is one that comes to the source file's, unless only changes are scanned;
\* sast's own gate lets it through.
FoundIsTold ==
    \A c \in Calls :
        /\ call[c].at = "told" /\ call[c].found.high
        /\ Sandboxed \/ (config.gate = "file" /\ ~config.onChangeOnly)
        => call[c].told = "blocked"

\* A check breaks, and lets the call through, only where the call's own scan
\* threw or a scan is registered that has nothing to show any more: never over a
\* verdict that is there.
BreaksOnlyWithout ==
    \A c \in Calls : call[c].told = "error"
                  => ~Sandboxed /\ call[c].found.status \in {"absent", "pending"}

\* A scan that began ends in a verdict, however its scanner ended.
PendingEnds == cache.status = "pending" ~> cache.status # "pending"

\* Scans and cached entries are accounted for by one another, in both
\* directions, and have their types.
ScansAccounted == TypeOK /\ OneScan /\ PendingIsScanned

\* A caller is told what is known: a verdict that is there reaches it, and it is
\* left without one only where there is none.
VerdictIsTold == FoundIsTold /\ BreaksOnlyWithout
============================================================================
