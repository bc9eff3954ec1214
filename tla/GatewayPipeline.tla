-------------------------- MODULE GatewayPipeline --------------------------
(***************************************************************************)
(* gatewayPipeline (src/gateway/middleware/pipeline.ts): what one HTTP     *)
(* call to the gateway goes through, and how calls that carry the SAME     *)
(* tenant, tool and idempotency key meet in Redis.  A call is admitted     *)
(* (authentication, entitlements, boundary security), charged against the  *)
(* tenant's daily quota, deduplicated through one Redis key, forwarded to  *)
(* the upstream tool, recorded as done, and audited.                       *)
(*                                                                         *)
(* The Redis key is SET NX EX "inflight" by the first call, overwritten    *)
(* with "done:<result>" when that call succeeds, and forgotten when its    *)
(* TTL runs out.  Calls run in any number of gateway processes: every step *)
(* between two awaits is one action.  The only limit configured here is    *)
(* the daily one; the per-second limit is in GatewayQuota.                 *)
(***************************************************************************)
EXTENDS Integers, FiniteSets

CONSTANTS
    Requests,      \* calls that carry the same tenant, tool and key
    Writes,        \* those isSideEffecting holds of: only they are deduplicated
    NoRequest,     \* a value that is no request
    Replaying,     \* those served by a gateway whose duplicatePolicy is "replay"
    Daily,         \* the daily quota the entitlement grants
    MaxPolls,      \* polls that fit between a duplicate's arrival and its deadline
    MaxExpiries,   \* bound: how often the key's TTL runs out in one behaviour
    MaxCrashes     \* bound: how many calls die with their process

ASSUME GatewayAssumption ==
    /\ IsFiniteSet(Requests)
    /\ Writes \subseteq Requests
    /\ NoRequest \notin Requests
    /\ Replaying \subseteq Requests
    /\ Daily \in Nat \ {0}
    /\ MaxPolls \in Nat
    /\ MaxExpiries \in Nat
    /\ MaxCrashes \in Nat

VARIABLES
    pc,          \* where each call is
    marker,      \* the dedupe key in Redis
    lease,       \* how many TTLs of the key have run out: names its lifetimes
    claimed,     \* the lifetime in which a call set the key, or NoLease
    charged,     \* the tenant's counter of today's calls in the quota store
    sent,        \* calls whose request went to the upstream server
    executed,    \* calls whose tool ran upstream
    returned,    \* calls that brought an upstream result back
    polls,       \* how often each duplicate polled
    audited,     \* calls with an envelope in the audit log
    reply,       \* what each caller was told, and whose result it was given
    crashes      \* calls lost so far

vars == << pc, marker, lease, claimed, charged, sent, executed, returned,
           polls, audited, reply, crashes >>

NoLease == -1

Absent == [state |-> "absent", by |-> NoRequest]
Inflight(r) == [state |-> "inflight", by |-> r]
Done(r) == [state |-> "done", by |-> r]

NoReply == [kind |-> "none", from |-> NoRequest]
Refusal(kind) == [kind |-> kind, from |-> NoRequest]
Result(kind, r) == [kind |-> kind, from |-> r]

Stages == {"arrived", "limits", "claim", "lookup", "poll", "forward",
           "waiting", "record", "auditOk", "auditError", "ended", "crashed"}

\* Stages of a call that got past the duplicate check and may run the tool.
Forwarding == {"forward", "waiting", "record", "auditOk", "auditError"}

ReplyKinds == {"refused", "limited", "duplicate", "error"}

Replies == {NoReply}
             \cup {Refusal(k) : k \in ReplyKinds}
             \cup {Result(k, r) : k \in {"first", "replay"}, r \in Requests}

TypeOK ==
    /\ pc \in [Requests -> Stages]
    /\ marker \in {Absent} \cup {Inflight(r) : r \in Requests}
                           \cup {Done(r) : r \in Requests}
    /\ lease \in 0 .. MaxExpiries
    /\ claimed \in [Requests -> {NoLease} \cup (0 .. MaxExpiries)]
    /\ charged \in Nat
    /\ sent \subseteq Requests
    /\ executed \subseteq Requests
    /\ returned \subseteq Requests
    /\ polls \in [Requests -> 0 .. MaxPolls]
    /\ audited \subseteq Requests
    /\ reply \in [Requests -> Replies]
    /\ crashes \in 0 .. MaxCrashes

Init ==
    /\ pc = [r \in Requests |-> "arrived"]
    /\ marker = Absent
    /\ lease = 0
    /\ claimed = [r \in Requests |-> NoLease]
    /\ charged = 0
    /\ sent = {}
    /\ executed = {}
    /\ returned = {}
    /\ polls = [r \in Requests |-> 0]
    /\ audited = {}
    /\ reply = [r \in Requests |-> NoReply]
    /\ crashes = 0

----------------------------------------------------------------------------
\* A call moves on, or it ends with an answer.

Move(r, to) == pc' = [pc EXCEPT ![r] = to] /\ UNCHANGED reply

Answer(r, a) ==
    /\ pc' = [pc EXCEPT ![r] = "ended"]
    /\ reply' = [reply EXCEPT ![r] = a]

\* authenticateGatewayRequest, enforceGatewayEntitlements and
\* evaluateGatewaySecurity all pass, or one of them throws.
Admit(r) ==
    /\ pc[r] = "arrived"
    /\ Move(r, "limits") \/ Answer(r, Refusal("refused"))
    /\ UNCHANGED << marker, lease, claimed, charged, sent, executed, returned, polls,
                    audited, crashes >>

\* Mutant: the check reads the count the call found, not the one it made.
ChargeQuotaLate(r) ==
    /\ pc[r] = "limits"
    /\ charged' = charged + 1
    /\ IF charged > Daily THEN Answer(r, Refusal("limited")) ELSE Move(r, "claim")
    /\ UNCHANGED << marker, lease, claimed, sent, executed, returned, polls, audited,
                    crashes >>

\* evaluateLimits: the store counts the call first (incrDaily, an atomic INCR)
\* and the call is turned away when the new count is above the quota.
ChargeQuota(r) ==
    /\ pc[r] = "limits"
    /\ charged' = charged + 1
    /\ IF charged' > Daily THEN Answer(r, Refusal("limited")) ELSE Move(r, "claim")
    /\ UNCHANGED << marker, lease, claimed, sent, executed, returned, polls, audited,
                    crashes >>

\* The quota store fails, before or after it counted the call, and so does the
\* call.
ChargeFails(r) ==
    /\ pc[r] = "limits"
    /\ charged' \in {charged, charged + 1}
    /\ Answer(r, Refusal("error"))
    /\ UNCHANGED << marker, lease, claimed, sent, executed, returned, polls, audited,
                    crashes >>

----------------------------------------------------------------------------
\* The duplicate check.

\* A call that writes nothing skips the check.
SkipDedupe(r) ==
    /\ pc[r] = "claim" /\ r \notin Writes
    /\ Move(r, "forward")
    /\ UNCHANGED << marker, lease, claimed, charged, sent, executed, returned, polls,
                    audited, crashes >>

\* Mutant: SET without NX.
ClaimOverwriting(r) ==
    /\ pc[r] = "claim" /\ r \in Writes
    /\ marker' = Inflight(r)
    /\ claimed' = [claimed EXCEPT ![r] = lease]
    /\ Move(r, "forward")
    /\ UNCHANGED << lease, charged, sent, executed, returned, polls, audited, crashes >>

\* SET key inflight NX EX ttl: Redis takes it when the key is absent.  The
\* answer is OK, and the call goes on, or it is lost on the way back, and
\* .catch(() => null) makes that look like "already set".
Claim(r) ==
    /\ pc[r] = "claim" /\ r \in Writes
    /\ marker = Absent
    /\ marker' = Inflight(r)
    /\ \/ Move(r, "forward") /\ claimed' = [claimed EXCEPT ![r] = lease]
       \/ Move(r, "lookup") /\ UNCHANGED claimed
    /\ UNCHANGED << lease, charged, sent, executed, returned, polls, audited, crashes >>

\* Mutant: an error of Redis lets the call through.
ClaimFailsOpen(r) ==
    /\ pc[r] = "claim" /\ r \in Writes
    /\ Move(r, "forward")
    /\ UNCHANGED << marker, lease, claimed, charged, sent, executed, returned, polls,
                    audited, crashes >>

\* The key was set before, or the SET never reached Redis.
ClaimFails(r) ==
    /\ pc[r] = "claim" /\ r \in Writes
    /\ Move(r, "lookup")
    /\ UNCHANGED << marker, lease, claimed, charged, sent, executed, returned, polls,
                    audited, crashes >>

\* What a duplicate does once it has not found a result.
Turned(r) == Answer(r, Refusal("duplicate"))

\* Mutant: any value under the key is taken for a result.
ReplayedUnchecked(r) ==
    /\ marker # Absent
    /\ Answer(r, Result("replay", marker.by))

\* A duplicate is given the stored result.
Replayed(r) ==
    /\ marker.state = "done"
    /\ Answer(r, Result("replay", marker.by))

\* GET key: a stored result is replayed in both modes.  Anything else, an error
\* of Redis included, sends the call to the polling loop or turns it away.
Lookup(r) ==
    /\ pc[r] = "lookup"
    /\ \/ Replayed(r)
       \/ IF r \in Replaying THEN Move(r, "poll") ELSE Turned(r)
    /\ UNCHANGED << marker, lease, claimed, charged, sent, executed, returned, polls,
                    audited, crashes >>

\* Mutant: the loop counts one round too many.
PollLate(r) ==
    /\ pc[r] = "poll"
    /\ \/ /\ polls[r] <= MaxPolls
          /\ polls' = [polls EXCEPT ![r] = @ + 1]
          /\ Replayed(r) \/ Move(r, "poll")
       \/ /\ polls[r] > MaxPolls
          /\ Turned(r)
          /\ UNCHANGED polls
    /\ UNCHANGED << marker, lease, claimed, charged, sent, executed, returned, audited,
                    crashes >>

\* Mutant: the loop has no deadline.
PollForResult(r) ==
    /\ pc[r] = "poll"
    /\ Replayed(r)
    /\ UNCHANGED << marker, lease, claimed, charged, sent, executed, returned, polls,
                    audited, crashes >>

\* One round of the loop: sleep, GET, return a stored result; past the deadline
\* the call is a duplicate.
Poll(r) ==
    /\ pc[r] = "poll"
    /\ \/ /\ polls[r] < MaxPolls
          /\ polls' = [polls EXCEPT ![r] = @ + 1]
          /\ Replayed(r) \/ Move(r, "poll")
       \/ /\ polls[r] = MaxPolls
          /\ Turned(r)
          /\ UNCHANGED polls
    /\ UNCHANGED << marker, lease, claimed, charged, sent, executed, returned, audited,
                    crashes >>

----------------------------------------------------------------------------
\* The call to the tool.

\* next() sends the request.
Send(r) ==
    /\ pc[r] = "forward"
    /\ sent' = sent \cup {r}
    /\ Move(r, "waiting")
    /\ UNCHANGED << marker, lease, claimed, charged, executed, returned, polls,
                    audited, crashes >>

\* Mutant: a failed call releases the key, so that a retry can be forwarded.
ForwardFailsReleasing(r) ==
    /\ pc[r] \in {"forward", "waiting"}
    /\ Move(r, "auditError")
    /\ marker' = IF r \in Writes THEN Absent ELSE marker
    /\ UNCHANGED << lease, claimed, charged, sent, executed, returned, polls, audited,
                    crashes >>

\* next() throws: no target, a status that is not 2xx, or a connection lost
\* before, while or after the tool ran.  The key is left as it is.
ForwardFails(r) ==
    /\ pc[r] \in {"forward", "waiting"}
    /\ Move(r, "auditError")
    /\ UNCHANGED << marker, lease, claimed, charged, sent, executed, returned, polls,
                    audited, crashes >>

\* next() returns.  A call longer than limits.max_duration_ms may still be
\* denied here, with the tool already run and the key left "inflight".
ForwardReturns(r) ==
    /\ pc[r] = "waiting" /\ r \in executed
    /\ \/ Move(r, "record") /\ returned' = returned \cup {r}
       \/ Move(r, "auditError") /\ UNCHANGED returned
    /\ UNCHANGED << marker, lease, claimed, charged, sent, executed, polls, audited, crashes >>

\* SET key done:<result> EX ttl, with no NX and no check of who holds the key;
\* an error of Redis is swallowed.
RecordDone(r) ==
    /\ pc[r] = "record"
    /\ Move(r, "auditOk")
    /\ \/ r \in Writes /\ marker' = Done(r)
       \/ UNCHANGED marker
    /\ UNCHANGED << lease, claimed, charged, sent, executed, returned, polls, audited,
                    crashes >>

\* Mutant: a failure to append is always dropped.
AuditBestEffort(r) ==
    /\ pc[r] \in {"auditOk", "auditError"}
    /\ audited' \in {audited, audited \cup {r}}
    /\ Answer(r, IF pc[r] = "auditOk" THEN Result("first", r) ELSE Refusal("error"))
    /\ UNCHANGED << marker, lease, claimed, charged, sent, executed, returned, polls,
                    crashes >>

\* The finally block appends the envelope.  A failure to append replaces a
\* successful answer with an error and is dropped behind an earlier error.
Audit(r) ==
    /\ pc[r] \in {"auditOk", "auditError"}
    /\ \/ /\ audited' = audited \cup {r}
          /\ Answer(r, IF pc[r] = "auditOk" THEN Result("first", r)
                                            ELSE Refusal("error"))
       \/ /\ UNCHANGED audited
          /\ Answer(r, Refusal("error"))
    /\ UNCHANGED << marker, lease, claimed, charged, sent, executed, returned, polls,
                    crashes >>

----------------------------------------------------------------------------
\* The environment.

\* The upstream server runs the tool, whether or not anyone still waits for it.
Execute(r) ==
    /\ r \in sent \ executed
    /\ executed' = executed \cup {r}
    /\ UNCHANGED << pc, marker, lease, claimed, charged, sent, returned, polls,
                    audited, reply, crashes >>

\* The key's TTL runs out, whoever is still working under it.
Expire ==
    /\ marker # Absent
    /\ lease < MaxExpiries
    /\ marker' = Absent
    /\ lease' = lease + 1
    /\ UNCHANGED << pc, claimed, charged, sent, executed, returned, polls, audited,
                    reply, crashes >>

\* The process of a call dies.
Crash(r) ==
    /\ pc[r] \notin {"arrived", "ended", "crashed"}
    /\ crashes < MaxCrashes
    /\ crashes' = crashes + 1
    /\ Move(r, "crashed")
    /\ UNCHANGED << marker, lease, claimed, charged, sent, executed, returned, polls,
                    audited >>

Step(r) ==
    \/ Admit(r) \/ ChargeQuota(r) \/ ChargeFails(r)
    \/ SkipDedupe(r) \/ Claim(r) \/ ClaimFails(r) \/ Lookup(r) \/ Poll(r)
    \/ Send(r) \/ ForwardFails(r) \/ ForwardReturns(r)
    \/ RecordDone(r) \/ Audit(r)

Next ==
    \/ \E r \in Requests : Step(r) \/ Execute(r) \/ Crash(r)
    \/ Expire

\* A live process runs each call to its next await, Redis and the upstream
\* server answer or the client library gives up on them.
Fairness == \A r \in Requests : WF_vars(Step(r))

Spec == Init /\ [][Next]_vars /\ Fairness

----------------------------------------------------------------------------
\* Properties.

\* In each lifetime of the Redis key at most one call runs the tool, whatever
\* fails and whoever crashes in between: a failed call leaves its "inflight"
\* marker behind, so a retry cannot run the tool a second time.
OneRunPerLease ==
    \A r, s \in executed \cap Writes : claimed[r] = claimed[s] => r = s

\* A duplicate is only ever given a result that an upstream call of another
\* caller brought back: never its own, never that of a call still in flight,
\* failed or denied for its duration.
ReplayIsGenuine ==
    \A r \in Requests : reply[r].kind = "replay" =>
        /\ reply[r].from \in executed \cap returned \cap Writes
        /\ reply[r].from # r
        /\ r \notin executed

\* While the key never expired, every caller that was told a result was told the
\* same one.
SameAnswer ==
    lease = 0 =>
        \A r, s \in Writes :
            (reply[r].from # NoRequest /\ reply[s].from # NoRequest)
                => reply[r].from = reply[s].from

\* The calls that may still reach the tool, or did.
PastQuota ==
    {r \in Requests : pc[r] \in {"claim", "lookup", "poll"} \cup Forwarding}
        \cup sent

\* The calls let past the quota never outnumber it, although each of them is
\* counted and checked in a step of its own, next to all the others.
QuotaHolds == Cardinality(PastQuota) <= Daily

\* The first caller is told its success only with its envelope in the audit log.
SuccessIsAudited ==
    \A r \in Requests : reply[r].kind = "first" => r \in audited

\* "Duplicate idempotent request": a call that is told so is not the only one of
\* its key that ever asked Redis.
DuplicatesAreDuplicates ==
    \A r \in Requests : reply[r].kind = "duplicate" =>
        \E s \in Writes \ {r} : pc[s] \notin {"arrived", "limits", "claim"}

\* A recorded result is never hidden behind a new "inflight" marker: the key
\* goes back to "inflight" only from absent (SET ... NX).
NoReclaim ==
    [][marker.state = "done" => marker'.state # "inflight"]_marker

\* The gateway keeps the promise of IdempotentCall to the calls that write.
Promise == INSTANCE IdempotentCall WITH
    Calls <- Writes,
    Ungranted <- NoLease,
    Untold <- NoRequest,
    granted <- [r \in Writes |-> claimed[r]],
    ran <- executed \cap Writes,
    told <- [r \in Writes |-> reply[r].from]

KeepsPromise == Promise!Spec

\* Every call that arrives is answered, a duplicate of a call that failed or
\* died included, although its marker stays "inflight" and may never expire.
EveryCallEnds ==
    \A r \in Requests : pc[r] = "limits" ~> pc[r] \in {"ended", "crashed"}

\* What callers are told under one key: genuine results, and while the key lives
\* one result.
AnswersHold == TypeOK /\ ReplayIsGenuine /\ SameAnswer

\* Every call let through is paid for, and every success is on record.
CallsAccounted == QuotaHolds /\ SuccessIsAudited
============================================================================
