------------------------------ MODULE AuditLog ------------------------------
(***************************************************************************)
(* Sec0Appender and FileManager (src/audit/appender.ts, file-manager.ts)   *)
(* over the uploader of AuditUpload: concurrent appends rotate the stream  *)
(* to the day of their envelope, sign, and write to whatever stream is     *)
(* current by then; a rotation uploads the day it leaves, a flush the      *)
(* current day.                                                            *)
(*                                                                         *)
(* write() only hands a line to the stream: it reaches the file later, and *)
(* never when the stream is destroyed first.  The upload of an agent file  *)
(* and the log of raw payloads, which repeat this code for other files,    *)
(* are left to AuditUpload.                                                *)
(***************************************************************************)
EXTENDS AuditUpload, Sequences

CONSTANTS
    Appends,      \* calls of append
    Agents,       \* those whose envelope names a node and an agent
    Flushes,      \* calls of flush
    DateOf,       \* the day of each envelope
    NoDate,
    MaxBreaks     \* bound: streams that fail

\* The log of a day is the file of that day.
Dates == Files

\* Of the uploader's files there are the audit logs, of its uploads those of rotations,
\* under the name of their append, and those of flushes.
ASSUME AuditLogAssumption ==
    /\ Nonced = Files
    /\ Uploads = Appends \cup Flushes
    /\ Agents \subseteq Appends
    /\ DateOf \in [Appends -> Dates]
    /\ NoDate \notin Dates
    /\ MaxBreaks \in Nat

VARIABLES
    date,      \* the day of the current stream, or NoDate
    pending,   \* lines handed to each day's streams that are not in the file yet
    broken,    \* the current stream has failed
    file,      \* the lines in each day's file
    agentLog,  \* appends with a line in their agent's file
    append,    \* where each append is
    flush,     \* where each flush is
    before,    \* the appends that had returned when a flush was called
    breaks     \* streams that failed so far

appenderVars == << date, pending, broken, file, agentLog, append, flush, before, breaks >>
logVars == << appenderVars, vars >>

LogTypeOK ==
    /\ date \in Dates \cup {NoDate}
    /\ pending \in [Dates -> Seq(Appends)]
    /\ broken \in BOOLEAN
    /\ file \in [Dates -> Seq(Appends)]
    /\ \A d \in Dates : size[d] = Len(file[d])
    /\ agentLog \subseteq Agents
    /\ append \in [Appends -> {"idle", "signing", "returned", "failed"}]
    /\ flush \in [Flushes -> {"idle", "drained", "uploading", "stuck", "ok", "failed"}]
    /\ before \in [Flushes -> SUBSET Appends]
    /\ breaks \in 0 .. MaxBreaks
    /\ TypeOK

LogInit ==
    /\ date = NoDate
    /\ pending = [d \in Dates |-> << >>]
    /\ broken = FALSE
    /\ file = [d \in Dates |-> << >>]
    /\ agentLog = {}
    /\ append = [a \in Appends |-> "idle"]
    /\ flush = [f \in Flushes |-> "idle"]
    /\ before = [f \in Flushes |-> {}]
    /\ breaks = 0
    /\ Init

----------------------------------------------------------------------------
\* Appends.

\* destroy() keeps the writes that are under way and drops the rest.
Destroyed(lines) == {SubSeq(lines, 1, k) : k \in 0 .. Len(lines)}

\* The current stream already is the day's.
KeepStream(d) ==
    /\ date = d
    /\ UNCHANGED << date, pending, broken, vars >>

\* Mutant: the offset of the day that is left is dropped.
RotateForgetting(a, d) ==
    /\ date # d
    /\ date' = d
    /\ broken' = FALSE
    /\ offset' = IF date = NoDate THEN offset ELSE [offset EXCEPT ![date] = 0]
    /\ UNCHANGED << pending, size, saved, stored, stage, target, asked, key, local,
                    inFlight, restarts >>

\* rotateAuditStream: destroy the old stream, open one that appends to the
\* day's file, and upload the day that was left, without waiting for it.
Rotate(a, d) ==
    /\ date # d
    /\ date' = d
    /\ broken' = FALSE
    /\ \/ /\ date = NoDate
          /\ UNCHANGED << pending, vars >>
       \/ /\ date # NoDate
          /\ \E kept \in Destroyed(pending[date]) :
                pending' = [pending EXCEPT ![date] = kept]
          /\ Call(a, date)

StartAppend(a) ==
    /\ append[a] = "idle"
    /\ KeepStream(DateOf[a]) \/ Rotate(a, DateOf[a])
    /\ append' = [append EXCEPT ![a] = "signing"]
    /\ UNCHANGED << file, agentLog, flush, before, breaks >>

SignFails(a) ==
    /\ append[a] = "signing"
    /\ append' = [append EXCEPT ![a] = "failed"]
    /\ UNCHANGED << date, pending, broken, file, agentLog, flush, before, breaks, vars >>

\* Mutant: a line that did not reach the agent's file is written again.
WriteAgain(a) ==
    /\ append[a] = "signing"
    /\ pending' = IF broken THEN pending
                  ELSE [pending EXCEPT ![date] = Append(@, a)]
    /\ \/ /\ append' = [append EXCEPT ![a] = "returned"]
          /\ agentLog' = agentLog \cup ({a} \cap Agents)
       \/ /\ a \in Agents
          /\ UNCHANGED << append, agentLog >>
    /\ UNCHANGED << date, broken, file, flush, before, breaks, vars >>

\* The signature is there: write the line to the current stream (a failed one
\* drops it in silence), then, with an agent, synchronously to the agent's file,
\* which may throw with the line already written.
Write(a) ==
    /\ append[a] = "signing"
    /\ pending' = IF broken THEN pending
                  ELSE [pending EXCEPT ![date] = Append(@, a)]
    /\ \/ /\ append' = [append EXCEPT ![a] = "returned"]
          /\ agentLog' = agentLog \cup ({a} \cap Agents)
       \/ /\ a \in Agents
          /\ append' = [append EXCEPT ![a] = "failed"]
          /\ UNCHANGED agentLog
    /\ UNCHANGED << date, broken, file, flush, before, breaks, vars >>

\* Mutant: a line is taken for written before it is.
DrainEarly(d) ==
    /\ pending[d] # << >>
    /\ pending' = [pending EXCEPT ![d] = Tail(@)]
    /\ Grow(d)
    /\ UNCHANGED << date, broken, file, agentLog, append, flush, before, breaks >>

\* The system writes a pending line to the file.
Drain(d) ==
    /\ pending[d] # << >>
    /\ pending' = [pending EXCEPT ![d] = Tail(@)]
    /\ file' = [file EXCEPT ![d] = Append(@, Head(pending[d]))]
    /\ Grow(d)
    /\ UNCHANGED << date, broken, agentLog, append, flush, before, breaks >>

\* The current stream fails and destroys itself; the error is swallowed.
Break ==
    /\ date # NoDate /\ ~broken
    /\ breaks < MaxBreaks
    /\ breaks' = breaks + 1
    /\ broken' = TRUE
    /\ pending' = [pending EXCEPT ![date] = << >>]
    /\ UNCHANGED << date, file, agentLog, append, flush, before, vars >>

----------------------------------------------------------------------------
\* Flushes.

\* drainAuditStream waits for "drain" only when the stream is not writable: never
\* for a live one, whatever it has pending, and for ever for a failed one.
StartFlush(f) ==
    /\ flush[f] = "idle"
    /\ flush' = [flush EXCEPT ![f] = IF broken THEN "stuck" ELSE "drained"]
    /\ before' = [before EXCEPT ![f] = {a \in Appends : append[a] = "returned"}]
    /\ UNCHANGED << date, pending, broken, file, agentLog, append, breaks, vars >>

\* Mutant: the flush waits until the stream has nothing pending.
UploadDrained(f) ==
    /\ flush[f] = "drained"
    /\ date # NoDate /\ pending[date] = << >>
    /\ flush' = [flush EXCEPT ![f] = "uploading"]
    /\ Call(f, date)
    /\ UNCHANGED << date, pending, broken, file, agentLog, append, before, breaks >>

\* Upload the day that is current by now.
UploadFlush(f) ==
    /\ flush[f] = "drained"
    /\ \/ /\ date = NoDate
          /\ flush' = [flush EXCEPT ![f] = "ok"]
          /\ UNCHANGED vars
       \/ /\ date # NoDate
          /\ flush' = [flush EXCEPT ![f] = "uploading"]
          /\ Call(f, date)
    /\ UNCHANGED << date, pending, broken, file, agentLog, append, before, breaks >>

\* The flush ends as its upload did.
EndFlush(f) ==
    /\ flush[f] = "uploading"
    /\ stage[f] \in Ended
    /\ flush' = [flush EXCEPT ![f] = stage[f]]
    /\ UNCHANGED << date, pending, broken, file, agentLog, append, before, breaks, vars >>

----------------------------------------------------------------------------
\* The process restarts: lines that are not in a file are gone.
RestartLog ==
    /\ Restart
    /\ date' = NoDate
    /\ broken' = FALSE
    /\ pending' = [d \in Dates |-> << >>]
    /\ append' = [a \in Appends |-> IF append[a] = "signing" THEN "failed" ELSE append[a]]
    /\ flush' = [f \in Flushes |-> IF flush[f] \in {"idle", "ok"} THEN flush[f]
                                                                ELSE "failed"]
    /\ UNCHANGED << file, agentLog, before, breaks >>

AppendStep(a) == StartAppend(a) \/ SignFails(a) \/ Write(a)
FlushStep(f) == UploadFlush(f) \/ EndFlush(f)
UploadStep(u) == Step(u) /\ UNCHANGED appenderVars

LogNext ==
    \/ \E a \in Appends : AppendStep(a)
    \/ \E f \in Flushes : StartFlush(f) \/ FlushStep(f)
    \/ \E u \in Appends \cup Flushes : UploadStep(u)
    \/ \E d \in Dates : Drain(d)
    \/ Break \/ RestartLog

\* Promises of a live process settle, and requests are aborted after a timeout.
LogFairness ==
    /\ \A f \in Flushes : WF_logVars(FlushStep(f))
    /\ \A u \in Appends \cup Flushes : WF_logVars(UploadStep(u))

LogSpec == LogInit /\ [][LogNext]_logVars /\ LogFairness

----------------------------------------------------------------------------
\* Properties.

\* The lines of a day, in its file or on their way into it.
Lines(d) == file[d] \o pending[d]

\* An append writes at most one line, to one file, whatever fails after its write
\* and however often the streams are rotated.
LinesOnce ==
    \A d, e \in Dates : \A i \in 1 .. Len(Lines(d)), j \in 1 .. Len(Lines(e)) :
        Lines(d)[i] = Lines(e)[j] => d = e /\ i = j

\* What the appender does to files and uploads is what AuditUpload allows, so
\* that NothingSkipped and SuccessMeansStored hold of the days' files too.
UploadsAsSpecified == Init /\ [][Next]_vars

\* A flush that got past its drain ends, however its upload fares and whichever
\* upload of the day it has to wait for.
FlushEnds == \A f \in Flushes : flush[f] = "drained" ~> flush[f] \in {"ok", "failed"}

\* "flush() - drain buffered writes and trigger pending uploads": when a flush
\* succeeds, the lines of all appends that had returned before are in a file.
FlushDrains ==
    \A f \in Flushes : flush[f] = "ok" =>
        \A a \in before[f] : \E d \in Dates : \E i \in 1 .. Len(file[d]) : file[d][i] = a

\* "Sign and append an audit envelope to the daily log file": a line goes to the
\* file of its envelope's day.
LinesInTheirDay ==
    \A d \in Dates : \A i \in 1 .. Len(file[d]) : DateOf[file[d][i]] = d

\* Lines are in the file as often as they were appended, never more, and what
\* keeps track of them has its type.
LinesKept == LogTypeOK /\ LinesOnce
=============================================================================
