--------------------------- MODULE Gateway_proofs ---------------------------
(***************************************************************************)
(* Proofs about the gateway: its pipeline, the admission of a request and  *)
(* the quotas of a tenant.                                                 *)
(***************************************************************************)
EXTENDS GatewayPipeline, GatewayAdmission, GatewayQuota, FiniteSetTheorems,
        WellFoundedInduction, TLAPS

----------------------------------------------------------------------------
(***************************************************************************)
(* Proofs about GatewayPipeline for any number of calls, any quota and any *)
(* bound on polls, expiries and crashes.                                   *)
(***************************************************************************)

\* The kinds of an answer and the states of the key as the proofs need them.
LEMMA Shapes ==
    /\ NoReply \in Replies
    /\ \A k \in ReplyKinds : Refusal(k) \in Replies
    /\ \A k \in {"first", "replay"}, r \in Requests : Result(k, r) \in Replies
<1>1. NoReply \in Replies
  BY DEF Replies
<1>2. \A k \in ReplyKinds : Refusal(k) \in Replies
  BY DEF Replies
<1>3. ASSUME NEW k \in {"first", "replay"}, NEW r \in Requests
      PROVE  Result(k, r) \in Replies
  BY <1>3 DEF Replies
<1> QED
  BY <1>1, <1>2, <1>3

\* A key that holds a result holds the result of some call.
LEMMA DoneMarker ==
    ASSUME TypeOK, marker.state = "done"
    PROVE  marker.by \in Requests /\ marker = Done(marker.by)
<1>1. marker # Absent
  BY DEF Absent
<1>2. \A r \in Requests : marker # Inflight(r)
  BY DEF Inflight
<1>3. PICK r \in Requests : marker = Done(r)
  BY <1>1, <1>2 DEF TypeOK
<1> QED
  BY <1>3 DEF Done

----------------------------------------------------------------------------
\* Type correctness.

\* Every step of every call keeps each variable in its type: no poll past the
\* deadline, no lifetime the model does not name, no answer of another shape.
THEOREM TypeCorrect == Spec => []TypeOK
<1>1. Init => TypeOK
  BY GatewayAssumption, Shapes DEF Init, TypeOK, Stages, NoLease
<1>2. TypeOK /\ [Next]_vars => TypeOK'
  <2> SUFFICES ASSUME TypeOK, [Next]_vars PROVE TypeOK'
    OBVIOUS
  <2> USE GatewayAssumption, Shapes
  <2> USE DEF TypeOK, Move, Answer, Stages, ReplyKinds
  <2>1. ASSUME NEW r \in Requests, Admit(r) PROVE TypeOK'
    BY <2>1 DEF Admit
  <2>2. ASSUME NEW r \in Requests, ChargeQuota(r) \/ ChargeFails(r) PROVE TypeOK'
    BY <2>2 DEF ChargeQuota, ChargeFails
  <2>3. ASSUME NEW r \in Requests, SkipDedupe(r) PROVE TypeOK'
    BY <2>3 DEF SkipDedupe
  <2>4. ASSUME NEW r \in Requests, Claim(r) PROVE TypeOK'
    BY <2>4 DEF Claim
  <2>5. ASSUME NEW r \in Requests, ClaimFails(r) PROVE TypeOK'
    BY <2>5 DEF ClaimFails
  <2>6. ASSUME NEW r \in Requests, Lookup(r) PROVE TypeOK'
    BY <2>6, DoneMarker DEF Lookup, Replayed, Turned
  <2>7. ASSUME NEW r \in Requests, Poll(r) PROVE TypeOK'
    BY <2>7, DoneMarker DEF Poll, Replayed, Turned
  <2>8. ASSUME NEW r \in Requests, Send(r) PROVE TypeOK'
    BY <2>8 DEF Send
  <2>9. ASSUME NEW r \in Requests, ForwardFails(r) PROVE TypeOK'
    BY <2>9 DEF ForwardFails
  <2>10. ASSUME NEW r \in Requests, ForwardReturns(r) PROVE TypeOK'
    BY <2>10 DEF ForwardReturns
  <2>11. ASSUME NEW r \in Requests, RecordDone(r) PROVE TypeOK'
    BY <2>11 DEF RecordDone
  <2>12. ASSUME NEW r \in Requests, Audit(r) PROVE TypeOK'
    BY <2>12 DEF Audit
  <2>13. ASSUME NEW r \in Requests, Execute(r) PROVE TypeOK'
    BY <2>13 DEF Execute
  <2>14. ASSUME NEW r \in Requests, Crash(r) PROVE TypeOK'
    BY <2>14 DEF Crash
  <2>15. CASE Expire
    BY <2>15 DEF Expire
  <2>16. CASE UNCHANGED vars
    BY <2>16 DEF vars
  <2> QED
    BY <2>1, <2>2, <2>3, <2>4, <2>5, <2>6, <2>7, <2>8, <2>9, <2>10, <2>11,
       <2>12, <2>13, <2>14, <2>15, <2>16 DEF Next, Step
<1> QED
  BY <1>1, <1>2, PTL DEF Spec

----------------------------------------------------------------------------
\* The inductive invariant.

\* A lifetime of the key is claimed once, by a call that writes and while the
\* key is set; no call claims a lifetime that has not begun.
LeaseInv ==
    /\ \A r \in Requests : claimed[r] # NoLease => r \in Writes /\ claimed[r] <= lease
    /\ \A r \in Requests : claimed[r] = lease => marker # Absent
    /\ \A r, s \in Requests :
            claimed[r] = claimed[s] /\ claimed[r] # NoLease => r = s

\* Where a call stands tells what it has done.
Unclaimed == {"arrived", "limits", "claim", "lookup", "poll"}

PlaceInv ==
    /\ executed \subseteq sent /\ returned \subseteq executed
    /\ \A r \in Requests :
        /\ pc[r] \in Unclaimed => claimed[r] = NoLease
        /\ pc[r] \in Unclaimed \cup {"forward"} => r \notin sent
        /\ r \in Writes /\ (pc[r] \in Forwarding \/ r \in sent)
               => claimed[r] # NoLease
        /\ pc[r] \in {"record", "auditOk"} => r \in returned
        /\ pc[r] \in {"lookup", "poll"} => r \in Writes
        /\ pc[r] # "ended" => reply[r] = NoReply

\* The key and the answers carry only results that came back.
ResultInv ==
    /\ marker.state = "done" => marker.by \in returned \cap Writes
    /\ \A r \in Requests :
        /\ reply[r].from = NoRequest <=> reply[r].kind \notin {"first", "replay"}
        /\ reply[r].kind = "first" =>
               r \in audited /\ r \in returned /\ reply[r].from = r
        /\ reply[r].kind = "replay" =>
               reply[r].from \in returned \cap Writes /\ r \notin sent

\* Every call past the quota was counted, and none above it.
QuotaInv ==
    /\ Cardinality(PastQuota) <= charged
    /\ Cardinality(PastQuota) <= Daily

\* A lifetime of the key has one holder.
LEMMA LeaseStep ==
    ASSUME TypeOK, PlaceInv, LeaseInv, [Next]_vars
    PROVE  LeaseInv'
<1> USE GatewayAssumption
<1>1. CASE UNCHANGED << marker, lease, claimed >>
  BY <1>1 DEF LeaseInv
<1>2. ASSUME NEW r \in Requests, Claim(r) PROVE LeaseInv'
  <2>1. CASE UNCHANGED claimed
    BY <1>2, <2>1 DEF Claim, LeaseInv, TypeOK, Absent, Inflight
  <2>2. CASE claimed' = [claimed EXCEPT ![r] = lease]
    <3>1. \A s \in Requests : claimed[s] # lease
      BY <1>2 DEF Claim, LeaseInv
    <3>2. marker' # Absent
      BY <1>2 DEF Claim, Absent, Inflight
    <3> QED
      BY <1>2, <2>2, <3>1, <3>2 DEF Claim, LeaseInv, TypeOK, NoLease
  <2> QED
    BY <1>2, <2>1, <2>2 DEF Claim
<1>3. ASSUME NEW r \in Requests, RecordDone(r) PROVE LeaseInv'
  <2>1. marker' = marker \/ marker' # Absent
    BY <1>3 DEF RecordDone, Absent, Done
  <2> QED
    BY <1>3, <2>1 DEF RecordDone, LeaseInv
<1>4. CASE Expire
  BY <1>4 DEF Expire, LeaseInv, TypeOK, NoLease
<1> QED
  BY <1>1, <1>2, <1>3, <1>4
     DEF Next, Step, vars, Admit, ChargeQuota, ChargeFails, SkipDedupe, ClaimFails, Lookup,
         Poll, Send, ForwardFails, ForwardReturns, Audit, Execute, Crash

\* Every stage says what the call has done so far.
LEMMA PlaceStep ==
    ASSUME TypeOK, PlaceInv, [Next]_vars
    PROVE  PlaceInv'
<1> USE GatewayAssumption
<1> USE DEF TypeOK, PlaceInv, Move, Answer, Stages, Forwarding, Unclaimed, NoLease
<1>1. ASSUME NEW r \in Requests, Admit(r) PROVE PlaceInv'
  BY <1>1 DEF Admit
<1>2. ASSUME NEW r \in Requests, ChargeQuota(r) \/ ChargeFails(r) PROVE PlaceInv'
  BY <1>2 DEF ChargeQuota, ChargeFails
<1>3. ASSUME NEW r \in Requests, SkipDedupe(r) PROVE PlaceInv'
  BY <1>3 DEF SkipDedupe
<1>4. ASSUME NEW r \in Requests, Claim(r) PROVE PlaceInv'
  BY <1>4 DEF Claim
<1>5. ASSUME NEW r \in Requests, ClaimFails(r) PROVE PlaceInv'
  BY <1>5 DEF ClaimFails
<1>6. ASSUME NEW r \in Requests, Lookup(r) PROVE PlaceInv'
  BY <1>6 DEF Lookup, Replayed, Turned
<1>7. ASSUME NEW r \in Requests, Poll(r) PROVE PlaceInv'
  BY <1>7 DEF Poll, Replayed, Turned
<1>8. ASSUME NEW r \in Requests, Send(r) PROVE PlaceInv'
  BY <1>8 DEF Send
<1>9. ASSUME NEW r \in Requests, ForwardFails(r) PROVE PlaceInv'
  BY <1>9 DEF ForwardFails
<1>10. ASSUME NEW r \in Requests, ForwardReturns(r) PROVE PlaceInv'
  BY <1>10 DEF ForwardReturns
<1>11. ASSUME NEW r \in Requests, RecordDone(r) PROVE PlaceInv'
  BY <1>11 DEF RecordDone
<1>12. ASSUME NEW r \in Requests, Audit(r) PROVE PlaceInv'
  BY <1>12 DEF Audit
<1>13. ASSUME NEW r \in Requests, Execute(r) PROVE PlaceInv'
  BY <1>13 DEF Execute
<1>14. ASSUME NEW r \in Requests, Crash(r) PROVE PlaceInv'
  BY <1>14 DEF Crash
<1>15. CASE Expire
  BY <1>15 DEF Expire
<1>16. CASE UNCHANGED vars
  BY <1>16 DEF vars
<1> QED
  BY <1>1, <1>2, <1>3, <1>4, <1>5, <1>6, <1>7, <1>8, <1>9, <1>10, <1>11,
     <1>12, <1>13, <1>14, <1>15, <1>16 DEF Next, Step

\* Results travel unchanged from the call that brought them back.
LEMMA ResultStep ==
    ASSUME TypeOK, PlaceInv, ResultInv, [Next]_vars
    PROVE  ResultInv'
<1> USE GatewayAssumption, DoneMarker
<1> USE DEF TypeOK, PlaceInv, ResultInv, Move, Answer, Unclaimed, Refusal, Result,
        NoReply
<1>1. ASSUME NEW r \in Requests, Admit(r) PROVE ResultInv'
  BY <1>1 DEF Admit
<1>2. ASSUME NEW r \in Requests, ChargeQuota(r) \/ ChargeFails(r) PROVE ResultInv'
  BY <1>2 DEF ChargeQuota, ChargeFails
<1>3. ASSUME NEW r \in Requests, SkipDedupe(r) PROVE ResultInv'
  BY <1>3 DEF SkipDedupe
<1>4. ASSUME NEW r \in Requests, Claim(r) PROVE ResultInv'
  BY <1>4 DEF Claim, Inflight
<1>5. ASSUME NEW r \in Requests, ClaimFails(r) PROVE ResultInv'
  BY <1>5 DEF ClaimFails
<1>6. ASSUME NEW r \in Requests, Lookup(r) PROVE ResultInv'
  BY <1>6 DEF Lookup, Replayed, Turned
<1>7. ASSUME NEW r \in Requests, Poll(r) PROVE ResultInv'
  BY <1>7 DEF Poll, Replayed, Turned
<1>8. ASSUME NEW r \in Requests, Send(r) PROVE ResultInv'
  BY <1>8 DEF Send
<1>9. ASSUME NEW r \in Requests, ForwardFails(r) PROVE ResultInv'
  BY <1>9 DEF ForwardFails
<1>10. ASSUME NEW r \in Requests, ForwardReturns(r) PROVE ResultInv'
  BY <1>10 DEF ForwardReturns
<1>11. ASSUME NEW r \in Requests, RecordDone(r) PROVE ResultInv'
  BY <1>11 DEF RecordDone, Done
<1>12. ASSUME NEW r \in Requests, Audit(r) PROVE ResultInv'
  BY <1>12 DEF Audit
<1>13. ASSUME NEW r \in Requests, Execute(r) PROVE ResultInv'
  BY <1>13 DEF Execute
<1>14. ASSUME NEW r \in Requests, Crash(r) PROVE ResultInv'
  BY <1>14 DEF Crash
<1>15. CASE Expire
  BY <1>15 DEF Expire, Absent
<1>16. CASE UNCHANGED vars
  BY <1>16 DEF vars
<1> QED
  BY <1>1, <1>2, <1>3, <1>4, <1>5, <1>6, <1>7, <1>8, <1>9, <1>10, <1>11,
     <1>12, <1>13, <1>14, <1>15, <1>16 DEF Next, Step

\* A call past the quota is counted before it is let past.
LEMMA QuotaStep ==
    ASSUME TypeOK, PlaceInv, QuotaInv, [Next]_vars
    PROVE  QuotaInv'
<1> USE GatewayAssumption
<1>0. /\ IsFiniteSet(PastQuota) /\ PastQuota \subseteq Requests
      /\ Cardinality(PastQuota) \in Nat
  BY FS_Subset, FS_CardinalityType DEF PastQuota, TypeOK
<1>1. ASSUME PastQuota' \subseteq PastQuota, charged' = charged PROVE QuotaInv'
  <2>1. Cardinality(PastQuota') <= Cardinality(PastQuota) /\ Cardinality(PastQuota') \in Nat
    BY <1>0, <1>1, FS_Subset, FS_CardinalityType
  <2> QED
    BY <1>0, <1>1, <2>1 DEF QuotaInv, TypeOK
<1>2. ASSUME NEW r \in Requests, ChargeQuota(r) PROVE QuotaInv'
  <2>1. CASE charged' > Daily
    <3>1. PastQuota' = PastQuota
      BY <1>2, <2>1 DEF ChargeQuota, Answer, PastQuota, TypeOK, Forwarding
    <3> QED
      BY <1>0, <1>2, <3>1 DEF ChargeQuota, QuotaInv, TypeOK
  <2>2. CASE ~(charged' > Daily)
    <3>1. PastQuota' = PastQuota \cup {r}
      BY <1>2, <2>2 DEF ChargeQuota, Move, PastQuota, TypeOK, Forwarding
    <3>2. r \notin PastQuota
      BY <1>2 DEF ChargeQuota, PastQuota, PlaceInv, Forwarding, Unclaimed
    <3>3. Cardinality(PastQuota') = Cardinality(PastQuota) + 1
      BY <1>0, <3>1, <3>2, FS_AddElement
    <3> QED
      BY <1>0, <1>2, <2>2, <3>3 DEF ChargeQuota, QuotaInv, TypeOK
  <2> QED
    BY <2>1, <2>2
<1>3. CASE UNCHANGED vars
  BY <1>1, <1>3 DEF vars, PastQuota
<1>4. CASE Expire
  BY <1>1, <1>4 DEF Expire, PastQuota
<1>5. ASSUME NEW r \in Requests, ChargeFails(r) PROVE QuotaInv'
  <2>1. PastQuota' = PastQuota
    BY <1>5 DEF ChargeFails, Answer, PastQuota, TypeOK, Forwarding
  <2> QED
    BY <1>0, <1>5, <2>1 DEF ChargeFails, QuotaInv, TypeOK
<1>6. ASSUME NEW r \in Requests, Step(r) \/ Execute(r) \/ Crash(r),
             ~ChargeQuota(r), ~ChargeFails(r)
      PROVE  PastQuota' \subseteq PastQuota /\ charged' = charged
  <2> USE DEF TypeOK, PastQuota, Forwarding, Move, Answer
  <2>1. CASE Admit(r) \/ Execute(r) \/ Crash(r)
    BY <2>1 DEF Admit, Execute, Crash
  <2>2. CASE SkipDedupe(r) \/ Claim(r) \/ ClaimFails(r)
    BY <2>2 DEF SkipDedupe, Claim, ClaimFails
  <2>3. CASE Lookup(r) \/ Poll(r)
    BY <2>3 DEF Lookup, Poll, Replayed, Turned
  <2>4. CASE Send(r) \/ ForwardFails(r) \/ ForwardReturns(r)
    BY <2>4 DEF Send, ForwardFails, ForwardReturns
  <2>5. CASE RecordDone(r) \/ Audit(r)
    BY <2>5 DEF RecordDone, Audit
  <2> QED
    BY <1>6, <2>1, <2>2, <2>3, <2>4, <2>5 DEF Step
<1> QED
  BY <1>1, <1>2, <1>3, <1>4, <1>5, <1>6 DEF Next, Step

----------------------------------------------------------------------------
\* The theorems.

PipelineInv == TypeOK /\ LeaseInv /\ PlaceInv /\ ResultInv

LEMMA PipelineInvariance == Spec => []PipelineInv
<1>1. Init => LeaseInv /\ PlaceInv /\ ResultInv
  BY GatewayAssumption DEF Init, LeaseInv, PlaceInv, ResultInv, NoLease, Unclaimed,
     Forwarding, Absent, NoReply
<1>2. PipelineInv /\ TypeOK' /\ [Next]_vars => PipelineInv'
  BY LeaseStep, PlaceStep, ResultStep DEF PipelineInv
<1> QED
  BY <1>1, <1>2, TypeCorrect, PTL DEF Spec, PipelineInv

\* In each lifetime of the Redis key at most one call runs the tool, for any
\* number of calls and whatever fails in between (SET NX in gatewayPipeline).
THEOREM OneRun == Spec => []OneRunPerLease
<1>1. PipelineInv => OneRunPerLease
  BY DEF PipelineInv, TypeOK, LeaseInv, PlaceInv, OneRunPerLease
<1> QED
  BY <1>1, PipelineInvariance, PTL

\* A duplicate is only ever given the result of another call that came back
\* from upstream (the "done:" prefix tested before a replay).
THEOREM GenuineReplay == Spec => []ReplayIsGenuine
<1>1. PipelineInv => ReplayIsGenuine
  BY DEF PipelineInv, TypeOK, PlaceInv, ResultInv, ReplayIsGenuine
<1> QED
  BY <1>1, PipelineInvariance, PTL

\* While the key has not expired, everybody who is told a result is told the
\* same one (the single claim behind every "done:" value).
THEOREM SameAnswerHolds == Spec => []SameAnswer
<1>1. PipelineInv => SameAnswer
  <2> SUFFICES ASSUME PipelineInv, lease = 0, NEW r \in Writes, NEW s \in Writes,
                      reply[r].from # NoRequest, reply[s].from # NoRequest
               PROVE  reply[r].from = reply[s].from
    BY DEF SameAnswer
  <2>1. \A c \in Writes : reply[c].from # NoRequest =>
            reply[c].from \in returned \cap Writes
    BY GatewayAssumption DEF PipelineInv, ResultInv
  <2>2. \A c \in returned \cap Writes : claimed[c] = 0
    BY GatewayAssumption DEF PipelineInv, TypeOK, LeaseInv, PlaceInv, NoLease
  <2> QED
    BY <2>1, <2>2, GatewayAssumption DEF PipelineInv, TypeOK, LeaseInv, NoLease
<1> QED
  BY <1>1, PipelineInvariance, PTL

\* No caller is told of the first success before its envelope is in the log (the
\* awaited appendGatewayAudit in the finally block).
THEOREM AuditedSuccess == Spec => []SuccessIsAudited
<1>1. PipelineInv => SuccessIsAudited
  BY DEF PipelineInv, ResultInv, SuccessIsAudited
<1> QED
  BY <1>1, PipelineInvariance, PTL

\* The calls let past the daily quota never outnumber it (count first, then
\* compare, in evaluateLimits).
THEOREM QuotaIsKept == Spec => []QuotaHolds
<1>1. Init => QuotaInv
  <2>1. Init => PastQuota = {}
    BY DEF Init, PastQuota, Forwarding
  <2> QED
    BY <2>1, FS_EmptySet, GatewayAssumption DEF Init, QuotaInv
<1>2. PipelineInv /\ QuotaInv /\ [Next]_vars => QuotaInv'
  BY QuotaStep DEF PipelineInv
<1>3. QuotaInv => QuotaHolds
  BY DEF QuotaInv, QuotaHolds
<1> QED
  BY <1>1, <1>2, <1>3, PipelineInvariance, PTL DEF Spec

\* A recorded result is never replaced by a new "inflight" marker (the NX of the
\* first SET).
THEOREM ResultStays == Spec => NoReclaim
<1>1. PipelineInv /\ [Next]_vars => [marker.state = "done" => marker'.state # "inflight"]_marker
  <2> SUFFICES ASSUME PipelineInv, [Next]_vars, marker.state = "done"
               PROVE  marker' = marker \/ marker'.state # "inflight"
    OBVIOUS
  <2>1. ASSUME NEW r \in Requests PROVE ~Claim(r)
    BY DEF Claim, Absent
  <2>2. ASSUME NEW r \in Requests, RecordDone(r) PROVE marker' = marker \/ marker'.state = "done"
    BY <2>2 DEF RecordDone, Done
  <2>3. CASE Expire
    BY <2>3 DEF Expire, Absent
  <2>4. CASE UNCHANGED marker
    BY <2>4
  <2> QED
    BY <2>1, <2>2, <2>3, <2>4
       DEF Next, Step, vars, Admit, ChargeQuota, ChargeFails, SkipDedupe, ClaimFails, Lookup,
           Poll, Send, ForwardFails, ForwardReturns, Audit, Execute, Crash
<1> QED
  BY <1>1, PipelineInvariance, PTL DEF Spec, NoReclaim

\* The gateway implements IdempotentCall for the calls that write: a claim that
\* reaches its caller grants the run, the upstream server runs it, the first
\* answer or a replay tells it, and an expiry renews the key.
THEOREM PromiseKept == Spec => KeepsPromise
<1> DEFINE told == [r \in Writes |-> reply[r].from]
           granted == [r \in Writes |-> claimed[r]]
           ran == executed \cap Writes
<1>1. Init => Promise!Init
  BY GatewayAssumption DEF Init, Promise!Init, NoReply
<1>2. PipelineInv /\ [Next]_vars => [Promise!Next]_Promise!vars
  <2> SUFFICES ASSUME PipelineInv, [Next]_vars
               PROVE  Promise!Next \/ UNCHANGED << lease, granted, ran, told >>
    BY DEF Promise!vars
  <2> USE GatewayAssumption
  <2>1. CASE UNCHANGED << lease, claimed, executed, reply >>
    BY <2>1
  <2>2. CASE Expire
    <3>1. Promise!Renew
      BY <2>2 DEF Expire, Promise!Renew
    <3> QED
      BY <3>1 DEF Promise!Next
  <2>3. ASSUME NEW r \in Requests, Claim(r), ~UNCHANGED claimed
        PROVE  Promise!Next
    <3>1. r \in Writes /\ claimed[r] = NoLease /\ \A s \in Requests : claimed[s] # lease
      BY <2>3 DEF Claim, PipelineInv, PlaceInv, LeaseInv, Unclaimed
    <3>2. granted' = [granted EXCEPT ![r] = lease]
      BY <2>3, <3>1 DEF Claim, PipelineInv, TypeOK
    <3>3. UNCHANGED << lease, ran, told >>
      BY <2>3 DEF Claim, Move
    <3>4. Promise!Grant(r)
      BY <3>1, <3>2, <3>3 DEF Promise!Grant
    <3> QED
      BY <3>1, <3>4 DEF Promise!Next
  <2>4. ASSUME NEW r \in Requests, Execute(r)
        PROVE  Promise!Next \/ UNCHANGED << lease, granted, ran, told >>
    <3>1. CASE r \notin Writes
      BY <2>4, <3>1 DEF Execute
    <3>2. CASE r \in Writes
      <4>1. Promise!Run(r)
        BY <2>4, <3>2 DEF Execute, Promise!Run, PipelineInv, PlaceInv, TypeOK
      <4> QED
        BY <3>2, <4>1 DEF Promise!Next
    <3> QED
      BY <3>1, <3>2
  <2>5. ASSUME NEW r \in Requests, NEW a,
               Answer(r, a), UNCHANGED << lease, claimed, executed >>,
               pc[r] # "ended",
               r \in Writes /\ a.from # NoRequest =>
                   /\ a.from \in ran
                   /\ claimed[r] # NoLease => a.from = r
        PROVE  Promise!Next \/ UNCHANGED << lease, granted, ran, told >>
    <3>1. reply[r].from = NoRequest
      BY <2>5 DEF PipelineInv, PlaceInv, NoReply
    <3>2. reply' = [reply EXCEPT ![r] = a]
      BY <2>5 DEF Answer
    <3>3. CASE r \notin Writes \/ a.from = NoRequest
      BY <2>5, <3>1, <3>2, <3>3 DEF PipelineInv, TypeOK
    <3>4. CASE r \in Writes /\ a.from # NoRequest
      <4>1. told' = [told EXCEPT ![r] = a.from]
        BY <3>2, <3>4 DEF PipelineInv, TypeOK
      <4>2. Promise!Tell(r, a.from)
        BY <2>5, <3>1, <3>4, <4>1 DEF Promise!Tell
      <4> QED
        BY <2>5, <3>4, <4>2 DEF Promise!Next
    <3> QED
      BY <3>3, <3>4
  <2>6. ASSUME NEW r \in Requests, Admit(r) \/ ChargeQuota(r) \/ ChargeFails(r),
               ~UNCHANGED reply
        PROVE  Promise!Next \/ UNCHANGED << lease, granted, ran, told >>
    <3>1. PICK k \in ReplyKinds : Answer(r, Refusal(k))
      BY <2>6 DEF Admit, ChargeQuota, ChargeFails, Move, ReplyKinds
    <3> QED
      BY <2>5, <2>6, <3>1 DEF Admit, ChargeQuota, ChargeFails, Refusal
  <2>7. ASSUME NEW r \in Requests, Lookup(r) \/ Poll(r), ~UNCHANGED reply
        PROVE  Promise!Next \/ UNCHANGED << lease, granted, ran, told >>
    <3>1. UNCHANGED << lease, claimed, executed >> /\ pc[r] \in {"lookup", "poll"}
      BY <2>7 DEF Lookup, Poll
    <3>2. claimed[r] = NoLease
      BY <3>1 DEF PipelineInv, PlaceInv, Unclaimed
    <3>3. CASE Answer(r, Refusal("duplicate"))
      BY <2>5, <3>1, <3>3 DEF Refusal
    <3>4. CASE marker.state = "done" /\ Answer(r, Result("replay", marker.by))
      <4>1. marker.by \in ran
        BY <3>4 DEF PipelineInv, ResultInv, PlaceInv
      <4>2. Result("replay", marker.by).from = marker.by
        BY DEF Result
      <4> QED
        BY <2>5, <3>1, <3>2, <3>4, <4>1, <4>2
    <3> QED
      BY <2>7, <3>3, <3>4 DEF Lookup, Poll, Move, Replayed, Turned
  <2>8. ASSUME NEW r \in Requests, Audit(r)
        PROVE  Promise!Next \/ UNCHANGED << lease, granted, ran, told >>
    <3>1. UNCHANGED << lease, claimed, executed >> /\ pc[r] \in {"auditOk", "auditError"}
      BY <2>8 DEF Audit
    <3>2. CASE Answer(r, Refusal("error"))
      BY <2>5, <3>1, <3>2 DEF Refusal
    <3>3. CASE pc[r] = "auditOk" /\ Answer(r, Result("first", r))
      <4>1. r \in executed
        BY <3>3 DEF PipelineInv, PlaceInv
      <4>2. Result("first", r).from = r
        BY DEF Result
      <4> QED
        BY <2>5, <3>1, <3>3, <4>1, <4>2
    <3> QED
      BY <2>8, <3>2, <3>3 DEF Audit
  <2> QED
    BY <2>1, <2>2, <2>3, <2>4, <2>6, <2>7, <2>8
       DEF Next, Step, vars, SkipDedupe, Claim, ClaimFails, Send, ForwardFails,
           ForwardReturns, RecordDone, Crash, Move, Admit, ChargeQuota, ChargeFails,
           Lookup, Poll
<1> QED
  BY <1>1, <1>2, PipelineInvariance, PTL DEF Spec, KeepsPromise, Promise!Spec

\* What the callers of gatewayPipeline are told under one key is genuine and, as
\* long as the key lives, one and the same.
THEOREM AnswersAreKept == Spec => []AnswersHold
<1>1. TypeOK /\ ReplayIsGenuine /\ SameAnswer <=> AnswersHold
  BY DEF AnswersHold
<1> QED
  BY <1>1, TypeCorrect, GenuineReplay, SameAnswerHolds, PTL

\* The calls gatewayPipeline lets through are within the quota, and those that
\* succeeded are in the log.
THEOREM CallsAreAccounted == Spec => []CallsAccounted
<1>1. QuotaHolds /\ SuccessIsAudited <=> CallsAccounted
  BY DEF CallsAccounted
<1> QED
  BY <1>1, QuotaIsKept, AuditedSuccess, PTL

----------------------------------------------------------------------------
(***************************************************************************)
(* For every configuration, policy and request: a denial of the local      *)
(* rules is lifted by nobody but the remote service or an outage that is   *)
(* configured to, and an enforcing gateway takes no request for another    *)
(* tenant's.  Both need the configuration to stay what it was merged into  *)
(* while a request is on its way (BootInv), and the question asked to be   *)
(* one the gateway knows how to go on from (AskInv).                       *)
(***************************************************************************)

\* Until the policy is merged no request has been looked at.
BootInv == stage = "boot" => tenant = Null /\ lifted = {} /\ req = Null

\* What the adapter is asked is one of three questions, which the gateway knows
\* how to go on from.
AskInv == stage \in {"local", "remote", "backoff", "fallback", "act"}
             => ask.about \in {"authz", "risk", "duration"}

Stays == UNCHANGED << cfg, req, tenant >>

LEMMA AdmissionStart == AdmissionInit => BootInv /\ AskInv /\ LiftedOnlyRemotely /\ TenantProven
  BY DEF AdmissionInit, BootInv, AskInv, LiftedOnlyRemotely, TenantProven

\* A decision lifts only what the local rules deny and it does not.
LEMMA DecisionLifts ==
    ASSUME LiftedOnlyRemotely, NEW decision, NEW source, Decided(decision, source),
           UNCHANGED cfg,
           LocalDeny(ask) /\ decision # "deny" =>
              \/ source = "remote"
              \/ /\ source = "fallback-allow"
                 /\ Given(cfg.runtime, "failureMode", "local") = "allow"
    PROVE  LiftedOnlyRemotely' /\ stage' = "act"
<1>1. lifted' = lifted \/ (LocalDeny(ask) /\ decision # "deny" /\ lifted' = lifted \cup {source})
  BY DEF Decided
<1>2. Given(cfg'.runtime, "failureMode", "local") = Given(cfg.runtime, "failureMode", "local")
  BY DEF Given
<1>3. LiftedOnlyRemotely'
  BY <1>1, <1>2 DEF LiftedOnlyRemotely
<1> QED
  BY <1>3 DEF Decided

\* The four ways to a decision.
LEMMA DecisionStep ==
    ASSUME LiftedOnlyRemotely, DecideLocally \/ RemoteAnswers \/ Fallback
    PROVE  LiftedOnlyRemotely' /\ stage' = "act" /\ Stays
<1>1. CASE DecideLocally
  <2>1. LocalDeny(ask) => LocalDecision(ask) = "deny"
    BY DEF LocalDecision
  <2>2. PICK source : Decided(LocalDecision(ask), source)
    BY <1>1 DEF DecideLocally
  <2>3. UNCHANGED cfg /\ Stays
    BY <1>1 DEF DecideLocally, ToAdapter, Stays
  <2> QED
    BY <2>1, <2>2, <2>3, DecisionLifts
<1>2. CASE RemoteAnswers
  <2>1. PICK d \in Actions : Decided(d, "remote")
    BY <1>2 DEF RemoteAnswers
  <2>2. UNCHANGED cfg /\ Stays
    BY <1>2 DEF RemoteAnswers, ToAdapter, Stays
  <2> QED
    BY <2>1, <2>2, DecisionLifts
<1>3. CASE Fallback
  <2> DEFINE failing == Given(cfg.runtime, "failureMode", "local")
  <2>1. \/ failing = "allow" /\ Decided("allow", "fallback-allow")
        \/ Decided("deny", "fallback-deny")
        \/ Decided(LocalDecision(ask), "fallback-local")
    BY <1>3 DEF Fallback
  <2>2. UNCHANGED cfg /\ Stays
    BY <1>3 DEF Fallback, ToAdapter, Stays
  <2>3. LocalDeny(ask) => LocalDecision(ask) = "deny"
    BY DEF LocalDecision
  <2> QED
    BY <2>1, <2>2, <2>3, DecisionLifts
<1> QED
  BY <1>1, <1>2, <1>3

\* Whoever is let past authentication under an enforcing configuration.
LEMMA AuthenticateStep ==
    ASSUME Authenticate, tenant' # Null, Mode = "enforce", TenantProven
    PROVE  IF cfg.authn = Null THEN tenant' = cfg.tenant
           ELSE req.token = "valid" /\ tenant' = ClaimedTenant(req)
  BY DEF Authenticate, StrangersAllowed, AdmitAs, Refuse, TenantProven

LEMMA AskStep == ASSUME AskInv, [AdmissionNext]_admissionVars PROVE AskInv'
<1>1. CASE Entitle \/ Secure \/ UpstreamAnswers
  <2>1. ASSUME NEW x \in {"authz", "risk", "duration"}, NEW y, NEW z, NEW w, Consult(Ask(x, y, z, w))
        PROVE  AskInv'
    BY <2>1 DEF Consult, Ask, AskInv
  <2> QED
    BY <1>1, <2>1 DEF Entitle, Secure, UpstreamAnswers, AnswerWith, AskInv
<1>2. CASE Act
  <2>1. ask.about \in {"authz", "risk", "duration"}
    BY <1>2 DEF Act, AskInv
  <2>2. stage' \in {"escalate", "security", "quota", "answered"}
    BY <1>2, <2>1 DEF Act, Onward
  <2> QED
    BY <2>2 DEF AskInv
<1>3. CASE DecideLocally \/ RemoteAnswers \/ RemoteFails \/ Retry \/ Fallback
  BY <1>3 DEF DecideLocally, RemoteAnswers, RemoteFails, Retry, Fallback, ToAdapter, AskInv
<1>4. CASE Start \/ Receive \/ Authenticate \/ Escalate \/ Quota \/ Forward \/ UNCHANGED admissionVars
  BY <1>4 DEF Start, Receive, Authenticate, Escalate, Quota, Forward, admissionVars, AnswerWith, AdmitAs,
              Refuse, ForRequest, AskInv
<1> QED
  BY <1>1, <1>2, <1>3, <1>4 DEF AdmissionNext

LEMMA AdmissionStep ==
    ASSUME BootInv, AskInv, LiftedOnlyRemotely, TenantProven, [AdmissionNext]_admissionVars
    PROVE  BootInv' /\ LiftedOnlyRemotely' /\ TenantProven'
<1>1. CASE DecideLocally \/ RemoteAnswers \/ Fallback
  BY <1>1, DecisionStep DEF Stays, BootInv, TenantProven, Mode, Given, ClaimedTenant
<1>2. CASE Start
  <2>1. lifted' = {} /\ tenant' = Null /\ stage' \in {"listening", "refused"}
    BY <1>2 DEF Start, BootInv, ForRequest
  <2> QED
    BY <2>1 DEF BootInv, LiftedOnlyRemotely, TenantProven
<1>3. CASE Receive
  BY <1>3 DEF Receive, AnswerWith, BootInv, LiftedOnlyRemotely, TenantProven
<1>4. CASE Authenticate
  <2>1. stage' \in {"authz", "answered"} /\ UNCHANGED << cfg, req, lifted >>
    BY <1>4 DEF Authenticate, AdmitAs, Refuse, AnswerWith
  <2>2. Mode' = Mode /\ ClaimedTenant(req') = ClaimedTenant(req)
    BY <2>1 DEF Mode, Given, ClaimedTenant
  <2>3. TenantProven'
    BY <1>4, <2>1, <2>2, AuthenticateStep DEF TenantProven
  <2> QED
    BY <2>1, <2>3 DEF BootInv, LiftedOnlyRemotely, Given
<1>5. CASE \/ Entitle \/ Secure \/ Act \/ Escalate \/ RemoteFails \/ Retry \/ Quota
           \/ Forward \/ UpstreamAnswers \/ UNCHANGED admissionVars
  <2>1. Stays /\ lifted' = lifted
    BY <1>5 DEF Entitle, Secure, Act, Escalate, RemoteFails, Retry, Quota, Forward,
                UpstreamAnswers, admissionVars, ForRequest, ToAdapter, Stays
  <2>2. stage' = "boot" => stage = "boot"
    BY <1>5 DEF Entitle, Secure, Act, Escalate, RemoteFails, Retry, Quota, Forward,
                UpstreamAnswers, admissionVars, AnswerWith, Consult, Onward, AskInv
  <2> QED
    BY <2>1, <2>2 DEF Stays, BootInv, LiftedOnlyRemotely, TenantProven, Mode, Given,
                      ClaimedTenant
<1> QED
  BY <1>1, <1>2, <1>3, <1>4, <1>5 DEF AdmissionNext

LEMMA AdmissionInvariance == AdmissionSpec => [](BootInv /\ AskInv /\ LiftedOnlyRemotely /\ TenantProven)
  BY AdmissionStart, AdmissionStep, AskStep, PTL DEF AdmissionSpec

----------------------------------------------------------------------------
\* What entitlements and deny_on deny passes only by leave of the remote service
\* or, in an outage, of the failure mode "allow" (remoteAdapter.ts).
THEOREM DenialsAreLiftedRemotely == AdmissionSpec => []LiftedOnlyRemotely
  BY AdmissionInvariance, PTL

\* authenticateGatewayRequest, enforcing, admits a request as the tenant of its
\* verified token, or as the gateway's own where no tokens are asked for.
THEOREM TenantIsProven == AdmissionSpec => []TenantProven
  BY AdmissionInvariance, PTL

\* Denials: until the caller is answered nobody was asked and nothing denied, and what
\* the configuration says of retries and tenants is what the types need to know.
DenialInv ==
    /\ AdmissionTypeOK /\ AskInv /\ DenialIsEscalated
    /\ DOMAIN cfg = Sections /\ cfg.tenant \in Tenants /\ Retries \in Nat
    /\ attempt \in Nat /\ (stage = "backoff" => attempt <= Retries)
    /\ stage = "authn" => req \in Arrivals
    /\ stage # "answered" => escalation = "none" /\ status # 403

\* Places of a sequence that are not none have a first one.
LEMMA EarliestIsFirst ==
    ASSUME NEW T \in SUBSET Nat, T # {}
    PROVE  Earliest(T) \in T
<1>1. PICK x \in T : \A y \in T : << y, x >> \notin OpToRel(<, Nat)
  BY NatLessThanWellFounded, WFMin
<1>2. \A y \in T : ~(y < x)
  BY <1>1 DEF OpToRel
<1>3. \A y \in T : x <= y
  BY <1>2
<1> QED
  BY <1>3 DEF Earliest

\* A reason that is listed, under whatever name, is what a human is asked about.
LEMMA ListedIsViolation ==
    ASSUME ask.reasons \in Seq(Reasons),
           \E x \in Elements(ask.reasons) : Token(x) \in EscalateOn
    PROVE  Violation \in EscalateOn
<1> DEFINE listed == {i \in DOMAIN ask.reasons : Token(ask.reasons[i]) \in EscalateOn}
<1>1. listed # {} /\ listed \in SUBSET Nat
  BY DEF Elements
<1>2. Earliest(listed) \in listed
  BY <1>1, EarliestIsFirst
<1> QED
  BY <1>1, <1>2 DEF Violation

\* The questions' reasons are sequences.
LEMMA ReasonsAre ==
    ASSUME NEW r
    PROVE  Entitlement(r) \in Seq(Reasons) /\ SecurityReasons(r) \in Seq(Reasons)
<1>1. << >> \in Seq(Reasons) /\ \A x \in Reasons : << x >> \in Seq(Reasons)
  OBVIOUS
<1>2. Entitlement(r) \in Seq(Reasons)
  <2>1. "tool_in_denylist" \in Reasons /\ "tool_not_in_allowlist" \in Reasons
    BY DEF Reasons
  <2> QED
    BY <1>1, <2>1 DEF Entitlement
<1>3. MandateReason(r) \in Seq(Reasons)
  <2> DEFINE there == {i \in DOMAIN MandateFaults : MandateFaults[i] \in r.mandates}
  <2>1. DOMAIN MandateFaults = 1 .. 7
    BY DEF MandateFaults
  <2>2. there # {} => Earliest(there) \in there
    <3>1. there \in SUBSET Nat
      BY <2>1
    <3> QED
      BY <3>1, EarliestIsFirst
  <2>3. there # {} => MandateFaults[Earliest(there)] \in Reasons
    BY <2>2 DEF Reasons
  <2> QED
    BY <1>1, <2>3 DEF MandateReason
<1>4. MandateReasons(r) \in Seq(Reasons)
  <2>1. "ap2_idempotency_mismatch" \in Reasons
    BY DEF Reasons
  <2> QED
    BY <1>1, <1>3, <2>1 DEF MandateReasons
<1>5. \A x \in Reasons : Objection(r, x) \in Seq(Reasons)
  BY <1>1 DEF Objection
<1>6. /\ Objection(r, "version_unpinned") \in Seq(Reasons)
      /\ Objection(r, "egress_violation") \in Seq(Reasons)
      /\ Objection(r, "fs_violation") \in Seq(Reasons)
      /\ Objection(r, "payload_too_large") \in Seq(Reasons)
      /\ (IF MandatesMatter(r) THEN MandateReasons(r) ELSE << >>) \in Seq(Reasons)
  BY <1>1, <1>4, <1>5 DEF Reasons
<1>7. SecurityReasons(r) \in Seq(Reasons)
  BY <1>6 DEF SecurityReasons
<1> QED
  BY <1>2, <1>7

\* Merging a policy leaves a configuration one.
LEMMA MergedIs ==
    ASSUME NEW c, DOMAIN c = Sections, c.tenant \in Tenants,
           Given(c.runtime, "retries", 1) \in Nat,
           c.authn # Null => c.authn.oidc \subseteq OidcFields,
           NEW p \in Policies
    PROVE  /\ DOMAIN Merged(c, p) = Sections /\ Merged(c, p).tenant \in Tenants
           /\ Given(Merged(c, p).runtime, "retries", 1) \in Nat
           /\ Merged(c, p).authn # Null => Merged(c, p).authn.oidc \subseteq OidcFields
<1>1. /\ DOMAIN Merged(c, p) = Sections /\ Merged(c, p).tenant = c.tenant
      /\ Merged(c, p).authn = MergedAuthn(c.authn, Given(p, "authn", Null))
      /\ Merged(c, p).runtime = Spread(c.runtime, Given(p, "runtime", << >>))
  BY DEF Merged, Sections
<1>2. Given(Spread(c.runtime, Given(p, "runtime", << >>)), "retries", 1) \in Nat
  BY AdmissionAssumption DEF Given, Spread
<1>3. MergedAuthn(c.authn, Given(p, "authn", Null)) # Null
         => MergedAuthn(c.authn, Given(p, "authn", Null)).oidc \subseteq OidcFields
  BY AdmissionAssumption DEF MergedAuthn, Given
<1> QED
  BY <1>1, <1>2, <1>3

LEMMA DenialStart == AdmissionInit => DenialInv
<1> SUFFICES ASSUME AdmissionInit PROVE DenialInv
  OBVIOUS
<1>1. /\ DOMAIN cfg = Sections /\ cfg.tenant \in Tenants /\ Retries \in Nat
      /\ cfg.authn # Null => cfg.authn.oidc \subseteq OidcFields
  BY AdmissionAssumption DEF AdmissionInit, Retries
<1>2. << >> \in Seq(Reasons)
  OBVIOUS
<1>3. ask.about = "none" /\ ask.reasons = << >>
  BY DEF AdmissionInit, NoAsk
<1>4. verdict.decision = "none" /\ verdict.source = "none"
  BY DEF AdmissionInit, NoVerdict
<1>5. AdmissionTypeOK
  BY <1>1, <1>2, <1>3, <1>4 DEF AdmissionInit, AdmissionTypeOK, Places, Sources
<1>6. DenialIsEscalated /\ AskInv
  BY DEF AdmissionInit, DenialIsEscalated, AskInv
<1> QED
  BY <1>1, <1>5, <1>6 DEF AdmissionInit, DenialInv

\* What asking the adapter a question keeps.
LEMMA ConsultKeeps ==
    ASSUME DenialInv, stage \in {"authz", "security", "upstream"},
           NEW about \in {"authz", "risk", "duration"}, NEW reasons \in Seq(Reasons),
           NEW denyOn, NEW any, Consult(Ask(about, reasons, denyOn, any)),
           UNCHANGED << cfg, req, tenant, holders, verdict, lifted, escalation, upstream, status >>
    PROVE  DenialInv'
<1>1. /\ ask'.about = about /\ ask'.reasons = reasons /\ attempt' = 1
      /\ stage' \in {"remote", "local"}
  BY DEF Consult, Ask
<1>2. Retries' = Retries
  BY DEF Retries
<1> QED
  BY <1>1, <1>2
     DEF DenialInv, AdmissionTypeOK, AskInv, DenialIsEscalated, Places

\* And what its decision keeps.
LEMMA DecidedKeeps ==
    ASSUME DenialInv, stage \in {"local", "remote", "fallback"},
           NEW decision \in Actions, NEW source \in Sources, Decided(decision, source),
           UNCHANGED ToAdapter
    PROVE  DenialInv'
<1>1. /\ verdict'.decision = decision /\ verdict'.source = source /\ attempt' = 0
      /\ stage' = "act" /\ lifted' \subseteq Sources
  BY DEF Decided, DenialInv, AdmissionTypeOK
<1>2. Retries' = Retries
  BY DEF Retries, ToAdapter
<1> QED
  BY <1>1, <1>2
     DEF DenialInv, AdmissionTypeOK, AskInv, DenialIsEscalated, Places, ToAdapter

LEMMA DenialStep == ASSUME DenialInv, [AdmissionNext]_admissionVars PROVE DenialInv'
<1> USE DEF DenialInv
<1>0. UNCHANGED cfg => Retries' = Retries
  BY DEF Retries
<1>1. CASE Start
  <2>1. UNCHANGED << req, status, ForRequest >> /\ stage = "boot"
    BY <1>1 DEF Start
  <2>2. CASE UNCHANGED cfg /\ stage' = "refused"
    BY <1>0, <2>1, <2>2 DEF ForRequest, AdmissionTypeOK, AskInv, DenialIsEscalated, Places
  <2>3. ASSUME NEW p \in Policies, cfg' = Merged(cfg, p), stage' = "listening"
        PROVE  DenialInv'
    <3>1. /\ DOMAIN cfg' = Sections /\ cfg'.tenant \in Tenants /\ Retries' \in Nat
          /\ cfg'.authn # Null => cfg'.authn.oidc \subseteq OidcFields
      BY <2>3, MergedIs DEF AdmissionTypeOK, Retries
    <3> QED
      BY <2>1, <2>3, <3>1 DEF ForRequest, AdmissionTypeOK, AskInv, DenialIsEscalated, Places
  <2> QED
    BY <1>1, <2>2, <2>3 DEF Start
<1>2. CASE Receive
  <2>1. PICK r \in Arrivals :
           /\ req' = r
           /\ IF Malformed(r) # 0 THEN AnswerWith(Malformed(r))
              ELSE status' = 0 /\ stage' = "authn"
    BY <1>2 DEF Receive
  <2>2. /\ status' \in {0, 400, 404} /\ stage' \in {"answered", "authn"}
        /\ Malformed(r) # 0 => stage' = "answered"
    BY <2>1 DEF Malformed, AnswerWith
  <2>3. /\ ask'.about = "none" /\ ask'.reasons = << >>
        /\ attempt' = 0 /\ verdict'.decision = "none" /\ verdict'.source = "none"
    BY <1>2 DEF Receive, NoAsk, NoVerdict
  <2>4. << >> \in Seq(Reasons)
    OBVIOUS
  <2> QED
    BY <1>0, <1>2, <2>1, <2>2, <2>3, <2>4
       DEF Receive, AdmissionTypeOK, AskInv, DenialIsEscalated, Places, Sources
<1>3. CASE Authenticate
  <2>1. /\ UNCHANGED << cfg, req, ask, attempt, verdict, lifted, escalation, upstream >>
        /\ stage = "authn" /\ req \in Arrivals
    BY <1>3 DEF Authenticate
  <2>2. \/ stage' = "answered" /\ status' \in {401, 500} /\ UNCHANGED tenant
        \/ /\ stage' = "authz" /\ UNCHANGED status
           /\ tenant' \in {cfg.tenant, req.headerTenant, ClaimedTenant(req)}
    BY <1>3 DEF Authenticate, Refuse, AdmitAs, AnswerWith
  <2>3. {cfg.tenant, req.headerTenant, ClaimedTenant(req)} \subseteq Tenants \cup {"unknown", Null}
    BY <2>1, AdmissionAssumption DEF ClaimedTenant
  <2> QED
    BY <1>0, <2>1, <2>2, <2>3 DEF AdmissionTypeOK, AskInv, DenialIsEscalated, Places
<1>4. CASE Entitle
  <2>1. CASE Consult(Ask("authz", Entitlement(req), {}, TRUE))
    BY <1>4, <2>1, ReasonsAre, ConsultKeeps DEF Entitle
  <2>2. CASE stage' = "security" /\ UNCHANGED << ask, attempt >>
    BY <1>0, <1>4, <2>2 DEF Entitle, AdmissionTypeOK, AskInv, DenialIsEscalated, Places
  <2> QED
    BY <1>4, <2>1, <2>2 DEF Entitle
<1>5. CASE Secure
  <2>1. CASE Consult(Ask("risk", SecurityReasons(req), DenyOn, FALSE))
    BY <1>5, <2>1, ReasonsAre, ConsultKeeps DEF Secure
  <2>2. CASE stage' = "quota" /\ UNCHANGED << ask, attempt >>
    BY <1>0, <1>5, <2>2 DEF Secure, AdmissionTypeOK, AskInv, DenialIsEscalated, Places
  <2> QED
    BY <1>5, <2>1, <2>2 DEF Secure
<1>6. CASE Act
  <2>1. stage = "act" /\ ask.about \in {"authz", "risk", "duration"}
    BY <1>6 DEF Act, AskInv
  <2>2. CASE stage' = "escalate" /\ UNCHANGED << ask, status >>
    BY <1>0, <1>6, <2>1, <2>2 DEF Act, AdmissionTypeOK, AskInv, DenialIsEscalated, Places
  <2>3. CASE /\ stage' = Onward[ask.about] /\ ask' = NoAsk
             /\ status' = IF ask.about = "duration" THEN 200 ELSE status
    <3>1. /\ stage' \in {"security", "quota", "answered"} /\ status' \in {200, status}
          /\ stage' = "answered" => status' = 200
      BY <2>1, <2>3 DEF Onward
    <3>2. << >> \in Seq(Reasons)
      OBVIOUS
    <3> QED
      BY <1>0, <1>6, <2>1, <2>3, <3>1, <3>2
         DEF Act, AdmissionTypeOK, AskInv, DenialIsEscalated, Places, NoAsk
  <2> QED
    BY <1>6, <2>2, <2>3 DEF Act
<1>7. CASE Escalate
  <2>1. /\ stage' = "answered" /\ status' = 403 /\ stage = "escalate"
        /\ UNCHANGED << cfg, req, tenant, holders, ask, attempt, verdict, lifted, upstream >>
        /\ escalation' \in {"created", "unreported", "failed", escalation}
    BY <1>7 DEF Escalate, AnswerWith
  <2>2. /\ cfg.reporter
        /\ "approve_high_risk" \in Given(cfg.security, "side_effects", {})
        /\ \E x \in Elements(ask.reasons) : Token(x) \in EscalateOn
        => escalation' # "none"
    <3>1. (\E x \in Elements(ask.reasons) : Token(x) \in EscalateOn) => Violation \in EscalateOn
      BY ListedIsViolation DEF AdmissionTypeOK
    <3> QED
      BY <1>7, <3>1 DEF Escalate, Escalates
  <2>3. DenialIsEscalated'
    <3>1. EscalateOn' = EscalateOn
      BY <2>1 DEF EscalateOn, DenyOn, Given
    <3> QED
      BY <2>1, <2>2, <3>1 DEF DenialIsEscalated, Given, Elements
  <2> QED
    BY <1>0, <2>1, <2>3 DEF AdmissionTypeOK, AskInv, Places
<1>8. CASE DecideLocally
  <2>1. LocalDecision(ask) \in Actions
    BY DEF LocalDecision, Actions
  <2>2. "local" \in Sources /\ "fallback-local" \in Sources
    BY DEF Sources
  <2> QED
    BY <1>8, <2>1, <2>2, DecidedKeeps DEF DecideLocally
<1>9. CASE RemoteAnswers
  <2>1. "remote" \in Sources
    BY DEF Sources
  <2> QED
    BY <1>9, <2>1, DecidedKeeps DEF RemoteAnswers
<1>10. CASE RemoteFails
  <2>1. /\ UNCHANGED << verdict, lifted >> /\ UNCHANGED ToAdapter
        /\ \/ stage' = "backoff" /\ UNCHANGED attempt /\ attempt <= Retries
           \/ stage' = "fallback" /\ attempt' = 0
        /\ stage = "remote"
    BY <1>10 DEF RemoteFails, MayRetry
  <2> QED
    BY <1>0, <2>1 DEF ToAdapter, AdmissionTypeOK, AskInv, DenialIsEscalated, Places
<1>11. CASE Retry
  <2>1. attempt' = attempt + 1 /\ attempt <= Retries
    BY <1>11 DEF Retry, NextAttempt
  <2> QED
    BY <1>0, <1>11, <2>1
       DEF Retry, ToAdapter, AdmissionTypeOK, AskInv, DenialIsEscalated, Places
<1>12. CASE Fallback
  <2>1. LocalDecision(ask) \in Actions /\ "allow" \in Actions /\ "deny" \in Actions
    BY DEF LocalDecision, Actions
  <2>2. {"fallback-allow", "fallback-deny", "fallback-local"} \subseteq Sources
    BY DEF Sources
  <2> QED
    BY <1>12, <2>1, <2>2, DecidedKeeps DEF Fallback
<1>13. CASE Quota
  <2>1. /\ stage = "quota" /\ UNCHANGED << cfg, req, ForRequest >>
        /\ \/ stage' = "forward" /\ UNCHANGED status
           \/ stage' = "answered" /\ status' = 429
    BY <1>13 DEF Quota, AnswerWith
  <2> QED
    BY <1>0, <2>1 DEF ForRequest, AdmissionTypeOK, AskInv, DenialIsEscalated, Places
<1>14. CASE Forward
  <2>1. /\ stage = "forward"
        /\ UNCHANGED << cfg, req, tenant, holders, ask, attempt, verdict, lifted, escalation >>
        /\ \/ stage' = "upstream" /\ upstream' \in {"keyed", "plain"} /\ UNCHANGED status
           \/ stage' = "answered" /\ status' = 502 /\ UNCHANGED upstream
    BY <1>14 DEF Forward, AnswerWith, VendorKey
  <2> QED
    BY <1>0, <2>1 DEF AdmissionTypeOK, AskInv, DenialIsEscalated, Places
<1>15. CASE UpstreamAnswers
  <2>1. CASE Consult(Ask("duration", << "duration_too_long" >>, DenyOn, FALSE)) /\ UNCHANGED status
    <3>1. << "duration_too_long" >> \in Seq(Reasons)
      BY DEF Reasons
    <3> QED
      BY <1>15, <2>1, <3>1, ConsultKeeps DEF UpstreamAnswers
  <2>2. CASE /\ stage' = "answered" /\ status' \in {200, 503}
             /\ UNCHANGED << ask, attempt >>
    BY <1>0, <1>15, <2>2
       DEF UpstreamAnswers, AdmissionTypeOK, AskInv, DenialIsEscalated, Places
  <2> QED
    BY <1>15, <2>1, <2>2 DEF UpstreamAnswers, AnswerWith
<1>16. CASE UNCHANGED admissionVars
  <2>1. DenialIsEscalated' = DenialIsEscalated
    BY <1>16 DEF admissionVars, DenialIsEscalated, EscalateOn, DenyOn, Given, Elements
  <2> QED
    BY <1>0, <1>16, <2>1 DEF admissionVars, AdmissionTypeOK, AskInv
<1> QED
  BY <1>1, <1>2, <1>3, <1>4, <1>5, <1>6, <1>7, <1>8, <1>9, <1>10, <1>11, <1>12, <1>13,
     <1>14, <1>15, <1>16 DEF AdmissionNext

\* A denial for a reason that escalate_on lists, by either of its names, was put to the reporter
\* before the caller hears of it, and nobody is asked about anything else
\* (attemptGatewayEscalation in authz.ts and security.ts).
THEOREM DenialsAreEscalated == AdmissionSpec => []DenialsHold
<1>1. DenialInv /\ [AdmissionNext]_admissionVars => DenialInv'
  BY DenialStep
<1>2. DenialInv => DenialsHold
  BY DEF DenialInv, DenialsHold
<1> QED
  BY <1>1, <1>2, DenialStart, PTL DEF AdmissionSpec

----------------------------------------------------------------------------
(***************************************************************************)
(* The limits of GatewayQuota for any calls, rates, quotas and lengths of  *)
(* seconds and days.                                                       *)
(*                                                                         *)
(* A counter never counts more than the calls counted for its second or    *)
(* day (CountInv), and none fewer than those let through: a second's key   *)
(* outlives the second (RateInv), a day's key all of the day but its last  *)
(* second (DayInv).                                                        *)
(***************************************************************************)

Keys == [count : Nat, expires : Nat \cup {Never}]

TypeInv ==
    /\ store \in Stores
    /\ now \in Instants
    /\ phase \in [Calls -> Phases]
    /\ stamp \in [Calls -> Instants \cup {Never}]
    /\ tokenAt \in [Calls -> Instants \cup {Never}]
    /\ countAt \in [Calls -> Instants \cup {Never}]
    /\ bucket \in [tokens : 0 .. 2 * Rate, last : Instants]
    /\ seconds \in [0 .. SecondOf(MaxTime) -> Keys]
    /\ days \in [0 .. DayOf(MaxTime) -> Keys]

\* What a call has taken where it is, none of it in the future.
TimeInv ==
    /\ bucket.last <= now
    /\ \A c \in Calls :
        /\ stamp[c] <= now /\ tokenAt[c] <= now /\ countAt[c] <= now
        /\ phase[c] # "new" => stamp[c] \in Instants
        /\ phase[c] \in {"new", "rate"} => tokenAt[c] = Never
        /\ phase[c] \in {"new", "rate", "daily"} => countAt[c] = Never
        /\ phase[c] \in {"ok", "exceeded"} => countAt[c] # Never

TokenSet(s) == {c \in Calls : tokenAt[c] # Never /\ SecondOf(stamp[c]) = s}
DaySet(d) == {c \in Calls : countAt[c] # Never /\ DayOf(stamp[c]) = d}
GotIn(s) == {c \in GotToken : SecondOf(stamp[c]) = s /\ SecondOf(tokenAt[c]) = s}
Early(d) == {c \in Admitted : /\ DayOf(stamp[c]) = d
                              /\ countAt[c] < (d + 1) * Day - Second}

CountInv ==
    /\ \A s \in 0 .. SecondOf(MaxTime) : seconds[s].count <= Cardinality(TokenSet(s))
    /\ \A d \in 0 .. DayOf(MaxTime) : days[d].count <= Cardinality(DaySet(d))

RateInv ==
    store = "redis" => \A s \in 0 .. SecondOf(MaxTime) :
        /\ Cardinality(GotIn(s)) <= Rate
        /\ SecondOf(now) = s => Cardinality(GotIn(s)) <= seconds[s].count
        /\ seconds[s].expires = Never => seconds[s].count = 0
        /\ seconds[s].expires # Never => seconds[s].expires >= s * Second + 2 * Second

DayInv ==
    \A d \in 0 .. DayOf(MaxTime) :
        /\ Cardinality(Early(d)) <= PerDay
        /\ store = "memory" \/ now < (d + 1) * Day - Second =>
              Cardinality(Early(d)) <= days[d].count
        /\ store = "redis" =>
              /\ days[d].expires = Never => days[d].count = 0
              /\ days[d].expires # Never => days[d].expires > (d + 1) * Day - Second

LimitsInv == TypeInv /\ TimeInv /\ CountInv /\ RateInv /\ DayInv /\ RefusedWithCause

----------------------------------------------------------------------------
(***************************************************************************)
(* Numbers and sets.                                                       *)
(***************************************************************************)
LEMMA DivisionIs ==
    ASSUME NEW t \in Int, NEW k \in Nat \ {0}
    PROVE  /\ t \div k \in Int
           /\ (t \div k) * k <= t /\ t < (t \div k) * k + k
           /\ t >= 0 => t \div k >= 0
    OBVIOUS

LEMMA DivisionGrows ==
    ASSUME NEW t \in Nat, NEW u \in Nat, t <= u, NEW k \in Nat \ {0}
    PROVE  t \div k <= u \div k
    OBVIOUS

LEMMA ConstantsAre ==
    /\ Rate \in Nat \ {0} /\ PerDay \in Nat \ {0} /\ Second \in Nat \ {0} /\ Day \in Nat \ {0}
    /\ MaxTime \in Nat /\ Instants = 0 .. MaxTime /\ Never = -1 /\ IsFiniteSet(Calls)
<1>1. PICK n \in 1 .. MaxTime : Day = n * Second
    BY QuotaAssumption
<1>2. Second \in Nat /\ Second >= 1 /\ n \in Nat /\ n >= 1
    BY QuotaAssumption
<1>3. n * Second >= 1 /\ n * Second \in Nat
    BY <1>2
<1> QED BY <1>1, <1>3, QuotaAssumption DEF Instants, Never

LEMMA TimesAre ==
    ASSUME NEW t \in Instants
    PROVE  /\ SecondOf(t) \in 0 .. SecondOf(MaxTime) /\ DayOf(t) \in 0 .. DayOf(MaxTime)
           /\ SecondOf(t) * Second <= t /\ t < SecondOf(t) * Second + Second
           /\ DayOf(t) * Day <= t /\ t < DayEnd(t)
           /\ \A u \in Instants : u <= t => SecondOf(u) <= SecondOf(t)
<1>1. /\ t \in Nat /\ MaxTime \in Nat /\ t <= MaxTime
      /\ Second \in Nat \ {0} /\ Day \in Nat \ {0}
    BY ConstantsAre
<1>2. /\ SecondOf(t) \in Int /\ SecondOf(t) >= 0 /\ SecondOf(MaxTime) \in Int
      /\ SecondOf(t) * Second <= t /\ t < SecondOf(t) * Second + Second
    BY <1>1, DivisionIs DEF SecondOf
<1>3. /\ DayOf(t) \in Int /\ DayOf(t) >= 0 /\ DayOf(MaxTime) \in Int
      /\ DayOf(t) * Day <= t /\ t < DayOf(t) * Day + Day
    BY <1>1, DivisionIs DEF DayOf
<1>4. SecondOf(t) <= SecondOf(MaxTime) /\ DayOf(t) <= DayOf(MaxTime)
    BY <1>1, DivisionGrows DEF SecondOf, DayOf
<1>5. \A u \in Instants : u <= t => SecondOf(u) <= SecondOf(t)
    BY <1>1, ConstantsAre, DivisionGrows DEF SecondOf
<1>6. (DayOf(t) + 1) * Day = DayOf(t) * Day + Day
    BY <1>1, <1>3
<1> QED BY <1>2, <1>3, <1>4, <1>5, <1>6 DEF DayEnd

LEMMA Sizes ==
    /\ \A s : /\ IsFiniteSet(TokenSet(s)) /\ Cardinality(TokenSet(s)) \in Nat
              /\ Cardinality(TokenSet(s)) <= Cardinality(Calls)
              /\ IsFiniteSet(GotIn(s)) /\ Cardinality(GotIn(s)) \in Nat
              /\ IsFiniteSet(DaySet(s)) /\ Cardinality(DaySet(s)) \in Nat
              /\ Cardinality(DaySet(s)) <= Cardinality(Calls)
              /\ IsFiniteSet(Early(s)) /\ Cardinality(Early(s)) \in Nat
    /\ Cardinality(Calls) \in Nat
<1>1. \A s : /\ TokenSet(s) \subseteq Calls /\ GotIn(s) \subseteq Calls
             /\ DaySet(s) \subseteq Calls /\ Early(s) \subseteq Calls
    BY DEF TokenSet, GotIn, DaySet, Early, GotToken, Admitted
<1>2. \A S \in SUBSET Calls : /\ IsFiniteSet(S) /\ Cardinality(S) \in Nat
                              /\ Cardinality(S) <= Cardinality(Calls)
    BY ConstantsAre, FS_Subset, FS_CardinalityType
<1>3. Cardinality(Calls) \in Nat
    BY ConstantsAre, FS_CardinalityType
<1> QED BY <1>1, <1>2, <1>3

\* One more element, or none, counts for at most one.
LEMMA OneMore ==
    ASSUME NEW S, NEW T, NEW c, IsFiniteSet(S), T \subseteq S \cup {c}
    PROVE  Cardinality(T) <= Cardinality(S) + 1
<1>1. IsFiniteSet(S \cup {c}) /\ Cardinality(S \cup {c}) <= Cardinality(S) + 1
      /\ Cardinality(S) \in Nat
    BY FS_AddElement, FS_CardinalityType
<1>2. Cardinality(T) <= Cardinality(S \cup {c}) /\ Cardinality(T) \in Nat
      /\ Cardinality(S \cup {c}) \in Nat
    BY <1>1, FS_Subset, FS_CardinalityType
<1> QED BY <1>1, <1>2

----------------------------------------------------------------------------
LEMMA QuotaStart == QuotaInit => LimitsInv
<1> SUFFICES ASSUME QuotaInit PROVE LimitsInv
    OBVIOUS
<1>1. 0 \in Instants /\ Never \notin Instants /\ Never <= 0
    BY ConstantsAre
<1>2. \A s : TokenSet(s) = {} /\ GotIn(s) = {} /\ DaySet(s) = {} /\ Early(s) = {}
    BY DEF QuotaInit, TokenSet, GotIn, DaySet, Early, GotToken, Admitted
<1>3. Cardinality({}) = 0
    BY FS_EmptySet
<1>4. NoKey \in Keys /\ NoKey.count = 0 /\ NoKey.expires = Never
    BY DEF NoKey, Keys
<1>5. TypeInv
    BY <1>1, <1>4, ConstantsAre DEF QuotaInit, TypeInv, Phases
<1>6. TimeInv
    BY <1>1 DEF QuotaInit, TimeInv
<1>7. CountInv
  <2>1. \A s \in 0 .. SecondOf(MaxTime) : seconds[s].count = 0 /\ Cardinality(TokenSet(s)) = 0
    BY <1>2, <1>3, <1>4 DEF QuotaInit
  <2>2. \A d \in 0 .. DayOf(MaxTime) : days[d].count = 0 /\ Cardinality(DaySet(d)) = 0
    BY <1>2, <1>3, <1>4 DEF QuotaInit
  <2> QED BY <2>1, <2>2 DEF CountInv
<1>9. RateInv
  <2>1. \A s \in 0 .. SecondOf(MaxTime) :
            /\ Cardinality(GotIn(s)) = 0 /\ seconds[s].count = 0 /\ seconds[s].expires = Never
    BY <1>2, <1>3, <1>4 DEF QuotaInit
  <2> QED BY <2>1, ConstantsAre DEF RateInv
<1>10. DayInv
  <2>1. \A d \in 0 .. DayOf(MaxTime) :
            /\ Cardinality(Early(d)) = 0 /\ days[d].count = 0 /\ days[d].expires = Never
    BY <1>2, <1>3, <1>4 DEF QuotaInit
  <2> QED BY <2>1, ConstantsAre DEF DayInv
<1>8. RefusedWithCause
    BY DEF QuotaInit, RefusedWithCause
<1> QED BY <1>5, <1>6, <1>7, <1>8, <1>9, <1>10 DEF LimitsInv

----------------------------------------------------------------------------
(***************************************************************************)
(* The steps.  What a call is refused for stays counted, and what was      *)
(* counted or let through changes for the call alone that takes a step.    *)
(***************************************************************************)
LEMMA CauseKept ==
    ASSUME RefusedWithCause, NEW c \in Calls,
           \A b \in Calls \ {c} : phase'[b] = phase[b] /\ stamp'[b] = stamp[b],
           \A s : TokenSet(s) \subseteq TokenSet(s)' /\ DaySet(s) \subseteq DaySet(s)',
           \A s : IsFiniteSet(TokenSet(s)') /\ IsFiniteSet(DaySet(s)'),
           phase'[c] = "limited" =>
               Cardinality({b \in Calls \ {c} : /\ tokenAt'[b] # Never
                                                /\ SecondOf(stamp'[b]) = SecondOf(stamp'[c])}) >= Rate,
           phase'[c] = "exceeded" =>
               Cardinality({b \in Calls \ {c} : /\ countAt'[b] # Never
                                                /\ DayOf(stamp'[b]) = DayOf(stamp'[c])}) >= PerDay
    PROVE  RefusedWithCause'
<1> DEFINE Took(b) == {a \in Calls \ {b} : /\ tokenAt[a] # Never
                                          /\ SecondOf(stamp[a]) = SecondOf(stamp[b])}
           Counted(b) == {a \in Calls \ {b} : /\ countAt[a] # Never
                                             /\ DayOf(stamp[a]) = DayOf(stamp[b])}
<1>1. ASSUME NEW b \in Calls, b # c
      PROVE  /\ phase'[b] = "limited" => Cardinality(Took(b)') >= Rate
             /\ phase'[b] = "exceeded" => Cardinality(Counted(b)') >= PerDay
  <2>1. phase'[b] = phase[b] /\ stamp'[b] = stamp[b]
    BY <1>1
  <2>8. PICK s, d : s = SecondOf(stamp[b]) /\ d = DayOf(stamp[b])
    OBVIOUS
  <2>2. Took(b) = TokenSet(s) \ {b} /\ Counted(b) = DaySet(d) \ {b}
    BY <2>8 DEF TokenSet, DaySet
  <2>3. Took(b)' = TokenSet(s)' \ {b} /\ Counted(b)' = DaySet(d)' \ {b}
    BY <2>1, <2>8 DEF TokenSet, DaySet, SecondOf, DayOf
  <2>4. Took(b) \subseteq Took(b)' /\ Counted(b) \subseteq Counted(b)'
    <3>1. TokenSet(s) \subseteq TokenSet(s)' /\ DaySet(d) \subseteq DaySet(d)'
        OBVIOUS
    <3> HIDE DEF Took, Counted
    <3> QED BY <2>2, <2>3, <3>1
  <2>5. IsFiniteSet(Took(b)') /\ IsFiniteSet(Counted(b)')
    BY <2>3, FS_Subset
  <2>6. /\ Cardinality(Took(b)) <= Cardinality(Took(b)')
        /\ Cardinality(Counted(b)) <= Cardinality(Counted(b)')
        /\ Cardinality(Took(b)) \in Nat /\ Cardinality(Took(b)') \in Nat
        /\ Cardinality(Counted(b)) \in Nat /\ Cardinality(Counted(b)') \in Nat
    BY <2>4, <2>5, FS_Subset, FS_CardinalityType
  <2>7. /\ phase[b] = "limited" => Cardinality(Took(b)) >= Rate
        /\ phase[b] = "exceeded" => Cardinality(Counted(b)) >= PerDay
    BY DEF RefusedWithCause
  <2> QED BY <2>1, <2>6, <2>7, ConstantsAre
<1> QED BY <1>1 DEF RefusedWithCause, SecondOf, DayOf

LEMMA TickKeeps == ASSUME LimitsInv, Tick PROVE LimitsInv'
<1>1. TypeInv' /\ TimeInv'
    BY ConstantsAre DEF LimitsInv, TypeInv, TimeInv, Tick
<1>2. /\ \A s : /\ TokenSet(s)' = TokenSet(s) /\ GotIn(s)' = GotIn(s)
                /\ DaySet(s)' = DaySet(s) /\ Early(s)' = Early(s)
      /\ seconds' = seconds /\ days' = days /\ store' = store /\ now' = now + 1
    BY DEF Tick, TokenSet, GotIn, GotToken, DaySet, Early, Admitted, SecondOf, DayOf
<1>3. CountInv'
    BY <1>2 DEF LimitsInv, CountInv, SecondOf, DayOf
<1>4. RateInv'
  <2> SUFFICES ASSUME store = "redis", NEW s \in 0 .. SecondOf(MaxTime), SecondOf(now') = s
               PROVE  Cardinality(GotIn(s)) <= seconds[s].count
    BY <1>2 DEF LimitsInv, RateInv, SecondOf
  <2>1. CASE SecondOf(now) = s
    BY <2>1 DEF LimitsInv, RateInv
  <2>2. CASE SecondOf(now) # s
    <3>1. now \in Instants /\ now' \in Instants /\ now <= now'
        BY <1>1, <1>2, ConstantsAre DEF LimitsInv, TypeInv
    <3>2. SecondOf(now) < s
        BY <3>1, <2>2, TimesAre
    <3>3. \A c \in Calls : tokenAt[c] # Never => SecondOf(tokenAt[c]) # s
        BY <3>1, <3>2, TimesAre DEF LimitsInv, TypeInv, TimeInv
    <3>4. GotIn(s) = {}
        BY <3>3 DEF GotIn, GotToken
    <3>5. seconds[s].count \in Nat
        BY DEF LimitsInv, TypeInv, Keys
    <3> QED BY <3>4, <3>5, FS_EmptySet
  <2> QED BY <2>1, <2>2
<1>5. DayInv'
  <2> SUFFICES ASSUME NEW d \in 0 .. DayOf(MaxTime)
               PROVE  /\ Cardinality(Early(d)) <= PerDay
                      /\ store = "memory" \/ now' < (d + 1) * Day - Second =>
                            Cardinality(Early(d)) <= days[d].count
                      /\ store = "redis" =>
                            /\ days[d].expires = Never => days[d].count = 0
                            /\ days[d].expires # Never => days[d].expires > (d + 1) * Day - Second
    BY <1>2 DEF DayInv, DayOf
  <2>1. now \in Int /\ (d + 1) * Day - Second \in Int
    BY ConstantsAre DEF LimitsInv, TypeInv
  <2>2. now' < (d + 1) * Day - Second => now < (d + 1) * Day - Second
    BY <2>1, <1>2
  <2> QED BY <2>2 DEF LimitsInv, DayInv
<1>6. RefusedWithCause'
    BY DEF LimitsInv, RefusedWithCause, Tick, SecondOf, DayOf
<1> QED BY <1>1, <1>3, <1>4, <1>5, <1>6 DEF LimitsInv

Alone(c) ==
    \A b \in Calls \ {c} : /\ phase'[b] = phase[b] /\ stamp'[b] = stamp[b]
                           /\ tokenAt'[b] = tokenAt[b] /\ countAt'[b] = countAt[b]

\* Of the calls counted or let through, only the one that takes the step may change.
LEMMA OthersStay ==
    ASSUME NEW c \in Calls, Alone(c), NEW s
    PROVE  /\ TokenSet(s) \ {c} = TokenSet(s)' \ {c} /\ GotIn(s) \ {c} = GotIn(s)' \ {c}
           /\ DaySet(s) \ {c} = DaySet(s)' \ {c} /\ Early(s) \ {c} = Early(s)' \ {c}
<1>1. TokenSet(s) \ {c} = TokenSet(s)' \ {c}
    BY DEF Alone, TokenSet, SecondOf
<1>2. GotIn(s) \ {c} = GotIn(s)' \ {c}
    BY DEF Alone, GotIn, GotToken, SecondOf
<1>3. DaySet(s) \ {c} = DaySet(s)' \ {c}
    BY DEF Alone, DaySet, DayOf
<1>4. Early(s) \ {c} = Early(s)' \ {c}
    BY DEF Alone, Early, Admitted, DayOf
<1> QED BY <1>1, <1>2, <1>3, <1>4

LEMMA SizesAfter ==
    \A s : /\ IsFiniteSet(TokenSet(s)') /\ Cardinality(TokenSet(s)') \in Nat
           /\ IsFiniteSet(GotIn(s)') /\ Cardinality(GotIn(s)') \in Nat
           /\ IsFiniteSet(DaySet(s)') /\ Cardinality(DaySet(s)') \in Nat
           /\ IsFiniteSet(Early(s)') /\ Cardinality(Early(s)') \in Nat
<1>1. \A s : /\ TokenSet(s)' \subseteq Calls /\ GotIn(s)' \subseteq Calls
             /\ DaySet(s)' \subseteq Calls /\ Early(s)' \subseteq Calls
    BY DEF TokenSet, GotIn, DaySet, Early, GotToken, Admitted
<1>2. \A S \in SUBSET Calls : IsFiniteSet(S) /\ Cardinality(S) \in Nat
    BY ConstantsAre, FS_Subset, FS_CardinalityType
<1> QED BY <1>1, <1>2

LEMMA SameBut ==
    ASSUME NEW S, NEW T, NEW c, S \ {c} = T \ {c}, c \in S <=> c \in T
    PROVE  S = T
    OBVIOUS

\* A step that counts nothing and lets nothing through.
LEMMA NothingCounted ==
    ASSUME LimitsInv, NEW c \in Calls, Alone(c),
           \A s : /\ c \in TokenSet(s) <=> c \in TokenSet(s)'
                  /\ c \in GotIn(s) <=> c \in GotIn(s)'
                  /\ c \in DaySet(s) <=> c \in DaySet(s)'
                  /\ c \in Early(s) <=> c \in Early(s)',
           phase'[c] \notin {"limited", "exceeded"},
           UNCHANGED << store, now, seconds, days >>
    PROVE  CountInv' /\ RateInv' /\ DayInv' /\ RefusedWithCause'
<1>1. \A s : /\ TokenSet(s)' = TokenSet(s) /\ GotIn(s)' = GotIn(s)
             /\ DaySet(s)' = DaySet(s) /\ Early(s)' = Early(s)
  <2> SUFFICES ASSUME NEW s
               PROVE  /\ TokenSet(s)' = TokenSet(s) /\ GotIn(s)' = GotIn(s)
                      /\ DaySet(s)' = DaySet(s) /\ Early(s)' = Early(s)
    OBVIOUS
  <2> QED BY OthersStay, SameBut
<1>2. CountInv'
    BY <1>1 DEF LimitsInv, CountInv, SecondOf, DayOf
<1>3. RateInv'
    BY <1>1 DEF LimitsInv, RateInv, SecondOf
<1>4. DayInv'
    BY <1>1 DEF LimitsInv, DayInv, DayOf
<1>5. RefusedWithCause'
    BY <1>1, CauseKept, SizesAfter DEF LimitsInv, Alone
<1> QED BY <1>2, <1>3, <1>4, <1>5

LEMMA ArriveKeeps == ASSUME LimitsInv, NEW c \in Calls, Arrive(c) PROVE LimitsInv'
<1>1. TypeInv' /\ TimeInv'
    BY ConstantsAre DEF LimitsInv, TypeInv, TimeInv, Arrive, Phases
<1>2. Alone(c) /\ phase'[c] = "rate"
    BY DEF LimitsInv, TypeInv, Arrive, Alone
<1>3. \A s : /\ c \notin TokenSet(s) /\ c \notin TokenSet(s)'
             /\ c \notin GotIn(s) /\ c \notin GotIn(s)'
             /\ c \notin DaySet(s) /\ c \notin DaySet(s)'
             /\ c \notin Early(s) /\ c \notin Early(s)'
    BY <1>2 DEF LimitsInv, TimeInv, Arrive, TokenSet, GotIn, GotToken, DaySet, Early, Admitted
<1>4. CountInv' /\ RateInv' /\ DayInv' /\ RefusedWithCause'
    BY <1>2, <1>3, NothingCounted DEF Arrive
<1> QED BY <1>1, <1>4 DEF LimitsInv

LEMMA RedisFailsKeeps == ASSUME LimitsInv, NEW c \in Calls, RedisFails(c) PROVE LimitsInv'
<1>1. TypeInv' /\ TimeInv'
    BY ConstantsAre DEF LimitsInv, TypeInv, TimeInv, RedisFails, Phases
<1>2. Alone(c) /\ phase'[c] = "failed"
    BY DEF LimitsInv, TypeInv, RedisFails, Alone
<1>3. \A s : /\ c \in TokenSet(s) <=> c \in TokenSet(s)'
             /\ c \in DaySet(s) <=> c \in DaySet(s)'
             /\ c \notin Early(s) /\ c \notin Early(s)'
    BY <1>2 DEF LimitsInv, RedisFails, TokenSet, DaySet, Early, Admitted, SecondOf, DayOf
<1>4. \A s : c \in GotIn(s) <=> c \in GotIn(s)'
    BY <1>2 DEF LimitsInv, RedisFails, GotIn, GotToken, SecondOf
<1>5. CountInv' /\ RateInv' /\ DayInv' /\ RefusedWithCause'
    BY <1>2, <1>3, <1>4, NothingCounted DEF RedisFails
<1> QED BY <1>1, <1>5 DEF LimitsInv

LEMMA TakeTokenMemoryKeeps == ASSUME LimitsInv, NEW c \in Calls, TakeTokenMemory(c) PROVE LimitsInv'
<1>1. TokensLeft \in 0 .. 2 * Rate
  <2>1. /\ bucket.tokens \in 0 .. 2 * Rate /\ now - bucket.last \in Nat
        /\ Rate \in Nat /\ Second \in Nat \ {0}
    BY ConstantsAre DEF LimitsInv, TypeInv, TimeInv
  <2>2. (now - bucket.last) * Rate \in Nat
    BY <2>1
  <2>3. ((now - bucket.last) * Rate) \div Second \in Nat
    BY <2>1, <2>2, DivisionIs
  <2>4. Refilled \in Nat /\ 2 * Rate \in Nat
    BY <2>1, <2>3 DEF Refilled
  <2> QED BY <2>1, <2>4 DEF TokensLeft
<1>2. phase' = [phase EXCEPT ![c] = "daily"]
  <2>1. 2 * Rate \in Nat
    BY ConstantsAre
  <2>2. ~ (TokensLeft < 0)
    BY <1>1, <2>1
  <2>3. phase' = [phase EXCEPT ![c] = IF TokensLeft < 0 THEN "limited" ELSE "daily"]
    BY DEF TakeTokenMemory
  <2> QED BY <2>2, <2>3
<1>3. TypeInv' /\ TimeInv'
    BY <1>1, <1>2, ConstantsAre DEF LimitsInv, TypeInv, TimeInv, TakeTokenMemory, Phases
<1>4. Alone(c) /\ phase'[c] = "daily"
    BY <1>2 DEF LimitsInv, TypeInv, TakeTokenMemory, Alone
<1>5. \A s : TokenSet(s) \subseteq TokenSet(s)' /\ DaySet(s)' = DaySet(s) /\ Early(s)' = Early(s)
  <2>1. \A s : /\ c \notin TokenSet(s) /\ c \notin DaySet(s) /\ c \notin DaySet(s)'
               /\ c \notin Early(s) /\ c \notin Early(s)'
    BY <1>4 DEF LimitsInv, TimeInv, TakeTokenMemory, TokenSet, DaySet, Early, Admitted
  <2> SUFFICES ASSUME NEW s
               PROVE  /\ TokenSet(s) \subseteq TokenSet(s)'
                      /\ DaySet(s)' = DaySet(s) /\ Early(s)' = Early(s)
    OBVIOUS
  <2>2. DaySet(s)' = DaySet(s) /\ Early(s)' = Early(s)
    BY <1>4, <2>1, OthersStay, SameBut
  <2>3. TokenSet(s) \ {c} = TokenSet(s)' \ {c}
    BY <1>4, OthersStay
  <2> QED BY <2>1, <2>2, <2>3
<1>6. CountInv'
  <2>1. \A s : Cardinality(TokenSet(s)) <= Cardinality(TokenSet(s)')
    BY <1>5, SizesAfter, FS_Subset
  <2>2. \A s \in 0 .. SecondOf(MaxTime) :
            seconds[s].count <= Cardinality(TokenSet(s)) /\ seconds[s].count \in Nat
    BY DEF LimitsInv, TypeInv, CountInv, Keys
  <2>3. \A s \in 0 .. SecondOf(MaxTime) : seconds[s].count <= Cardinality(TokenSet(s)')
    BY <2>1, <2>2, Sizes, SizesAfter
  <2>4. \A d \in 0 .. DayOf(MaxTime) : days[d].count <= Cardinality(DaySet(d)')
    BY <1>5 DEF LimitsInv, CountInv
  <2> QED BY <2>3, <2>4 DEF CountInv, TakeTokenMemory, SecondOf, DayOf
<1>7. RateInv'
    BY DEF TakeTokenMemory, RateInv
<1>8. DayInv'
    BY <1>5 DEF LimitsInv, DayInv, TakeTokenMemory, DayOf
<1>9. RefusedWithCause'
    BY <1>4, <1>5, CauseKept, SizesAfter DEF LimitsInv, Alone
<1> QED BY <1>3, <1>6, <1>7, <1>8, <1>9 DEF LimitsInv

\* A key whose second or day has not ended is live, and counts one more.
LEMMA KeysCount ==
    ASSUME NEW key \in Keys, NEW ttl \in Nat, now \in Instants, key.expires = Never => key.count = 0
    PROVE  /\ CountOf(key) \in Nat /\ CountOf(key) >= 1 /\ CountOf(key) <= key.count + 1
           /\ key.expires = Never \/ Live(key) => CountOf(key) = key.count + 1
           /\ Incremented(key, ttl) \in Keys
           /\ Incremented(key, ttl).count = CountOf(key)
           /\ Incremented(key, ttl).expires # Never
           /\ Live(key) => Incremented(key, ttl).expires = key.expires /\ key.expires # Never
           /\ ~Live(key) => Incremented(key, ttl).expires = now + ttl * Second
<1>1. key.count \in Nat /\ key.expires \in Nat \cup {Never} /\ now \in Nat
    BY ConstantsAre DEF Keys
<1>2. ttl * Second \in Nat
    BY ConstantsAre
<1>3. CountOf(key) \in Nat /\ CountOf(key) >= 1 /\ CountOf(key) <= key.count + 1
    BY <1>1 DEF CountOf
<1>4. Live(key) => key.expires \in Nat
    BY <1>1, ConstantsAre DEF Live
<1>5. key.expires = Never => ~Live(key)
    BY <1>1, ConstantsAre DEF Live
<1>6. key.expires = Never \/ Live(key) => CountOf(key) = key.count + 1
    BY <1>1, <1>5 DEF CountOf
<1> QED BY <1>1, <1>2, <1>3, <1>4, <1>6, ConstantsAre DEF Incremented, Keys

LEMMA TakeTokenRedisKeeps == ASSUME LimitsInv, NEW c \in Calls, TakeTokenRedis(c) PROVE LimitsInv'
<1>0. PICK s0 : s0 = SecondOf(stamp[c])
    OBVIOUS
<1> DEFINE key == seconds[s0]
<1>1. /\ store = "redis" /\ store' = store /\ phase[c] = "rate" /\ now' = now /\ days' = days
      /\ tokenAt[c] = Never /\ countAt[c] = Never /\ stamp' = stamp /\ countAt' = countAt
      /\ bucket' = bucket
      /\ tokenAt' = [tokenAt EXCEPT ![c] = now]
      /\ seconds' = [seconds EXCEPT ![s0] = Incremented(@, 2)]
      /\ phase' = [phase EXCEPT ![c] = IF Rate - CountOf(key) < 0 THEN "limited" ELSE "daily"]
    BY <1>0 DEF LimitsInv, TimeInv, TakeTokenRedis
<1>2. /\ stamp[c] \in Instants /\ now \in Instants /\ stamp[c] <= now
      /\ s0 \in 0 .. SecondOf(MaxTime) /\ s0 \in Nat /\ s0 * Second <= stamp[c]
      /\ stamp[c] < s0 * Second + Second
    BY <1>0, <1>1, TimesAre DEF LimitsInv, TypeInv, TimeInv
<1>3. /\ key \in Keys
      /\ key.expires = Never => key.count = 0
      /\ key.expires # Never => key.expires >= s0 * Second + 2 * Second
    BY <1>1, <1>2 DEF LimitsInv, TypeInv, RateInv
<1>4. /\ CountOf(key) \in Nat /\ CountOf(key) >= 1 /\ CountOf(key) <= key.count + 1
      /\ key.expires = Never \/ Live(key) => CountOf(key) = key.count + 1
      /\ Incremented(key, 2) \in Keys /\ Incremented(key, 2).count = CountOf(key)
      /\ Incremented(key, 2).expires # Never
      /\ Live(key) => Incremented(key, 2).expires = key.expires /\ key.expires # Never
      /\ ~Live(key) => Incremented(key, 2).expires = now + 2 * Second
    BY <1>2, <1>3, KeysCount
<1>5. /\ seconds'[s0] = Incremented(key, 2)
      /\ \A s \in 0 .. SecondOf(MaxTime) : s # s0 => seconds'[s] = seconds[s]
    BY <1>1, <1>2 DEF LimitsInv, TypeInv
<1>6. phase'[c] \in {"limited", "daily"} /\ (phase'[c] = "limited" <=> CountOf(key) > Rate)
    BY <1>1, <1>4, ConstantsAre DEF LimitsInv, TypeInv
<1> HIDE DEF key
<1>7. Alone(c)
    BY <1>1 DEF LimitsInv, TypeInv, Alone
<1>8. TypeInv'
  <2>1. seconds' \in [0 .. SecondOf(MaxTime) -> Keys]
    BY <1>1, <1>4, <1>5 DEF LimitsInv, TypeInv, key
  <2>2. phase' \in [Calls -> Phases]
    BY <1>1 DEF LimitsInv, TypeInv, Phases
  <2> QED BY <1>1, <1>2, <2>1, <2>2 DEF LimitsInv, TypeInv, SecondOf, DayOf
<1>9. TimeInv'
    BY <1>1, <1>2, <1>6, ConstantsAre DEF LimitsInv, TypeInv, TimeInv, Phases
<1>10. /\ \A s : c \notin TokenSet(s) /\ (s # s0 => c \notin TokenSet(s)')
       /\ \A s : /\ c \notin DaySet(s) /\ c \notin DaySet(s)'
                 /\ c \notin Early(s) /\ c \notin Early(s)'
       /\ \A s : c \notin GotIn(s) /\ (s # s0 => c \notin GotIn(s)')
       /\ c \in TokenSet(s0)'
       /\ c \in GotIn(s0)' => SecondOf(now) = s0 /\ phase'[c] # "limited"
  <2>1. tokenAt'[c] = now /\ now # Never /\ stamp'[c] = stamp[c]
    BY <1>1, <1>2, ConstantsAre DEF LimitsInv, TypeInv
  <2>2. \A s : /\ c \notin TokenSet(s) /\ c \notin GotIn(s)
               /\ c \notin DaySet(s) /\ c \notin DaySet(s)'
               /\ c \notin Early(s) /\ c \notin Early(s)'
    BY <1>1, <1>6 DEF TokenSet, GotIn, GotToken, DaySet, Early, Admitted
  <2>3. \A s : s # s0 => c \notin TokenSet(s)' /\ c \notin GotIn(s)'
    BY <1>0, <2>1 DEF TokenSet, GotIn, SecondOf
  <2>4. c \in TokenSet(s0)' /\ (c \in GotIn(s0)' => SecondOf(now) = s0 /\ phase'[c] # "limited")
    BY <1>0, <1>1, <2>1 DEF TokenSet, GotIn, GotToken, SecondOf
  <2> QED BY <2>2, <2>3, <2>4
<1>11. /\ \A s : s # s0 => TokenSet(s)' = TokenSet(s) /\ GotIn(s)' = GotIn(s)
       /\ \A s : DaySet(s)' = DaySet(s) /\ Early(s)' = Early(s)
    BY <1>7, <1>10, OthersStay, SameBut
<1>12. /\ TokenSet(s0)' = TokenSet(s0) \cup {c} /\ c \notin TokenSet(s0)
       /\ GotIn(s0)' \subseteq GotIn(s0) \cup {c}
       /\ ~(SecondOf(now) = s0 /\ phase'[c] # "limited") => GotIn(s0)' = GotIn(s0)
  <2>1. TokenSet(s0) \ {c} = TokenSet(s0)' \ {c} /\ GotIn(s0) \ {c} = GotIn(s0)' \ {c}
    BY <1>7, OthersStay
  <2>2. c \in TokenSet(s0)' /\ c \notin TokenSet(s0) /\ c \notin GotIn(s0)
    BY <1>10
  <2>3. c \in GotIn(s0)' => SecondOf(now) = s0 /\ phase'[c] # "limited"
    BY <1>10
  <2>4. TokenSet(s0)' = TokenSet(s0) \cup {c}
    BY <2>1, <2>2
  <2>5. GotIn(s0)' \subseteq GotIn(s0) \cup {c}
    BY <2>1
  <2>6. c \notin GotIn(s0)' => GotIn(s0)' = GotIn(s0)
    BY <2>1, <2>2
  <2> QED BY <2>2, <2>3, <2>4, <2>5, <2>6
<1>13. CountInv'
  <2>1. Cardinality(TokenSet(s0)') = Cardinality(TokenSet(s0)) + 1
    BY <1>12, Sizes, FS_AddElement
  <2>2. CountOf(key) <= Cardinality(TokenSet(s0)')
    <3>1. key.count \in Nat /\ key.count <= Cardinality(TokenSet(s0))
        BY <1>2, <1>3 DEF LimitsInv, CountInv, Keys, key
    <3> QED BY <1>4, <2>1, <3>1, Sizes
  <2>3. \A s \in 0 .. SecondOf(MaxTime) : seconds'[s].count <= Cardinality(TokenSet(s)')
    BY <1>4, <1>5, <1>11, <2>2 DEF LimitsInv, CountInv
  <2> QED BY <1>1, <1>11, <2>3 DEF LimitsInv, CountInv, SecondOf, DayOf
<1>14. RateInv'
  <2>1. ASSUME NEW s \in 0 .. SecondOf(MaxTime), s # s0
        PROVE  /\ Cardinality(GotIn(s)') <= Rate
               /\ SecondOf(now') = s => Cardinality(GotIn(s)') <= seconds'[s].count
               /\ seconds'[s].expires = Never => seconds'[s].count = 0
               /\ seconds'[s].expires # Never => seconds'[s].expires >= s * Second + 2 * Second
    BY <1>1, <1>5, <1>11, <2>1 DEF LimitsInv, RateInv
  <2>2. seconds'[s0].expires # Never /\ seconds'[s0].expires >= s0 * Second + 2 * Second
    <3>1. CASE Live(key)
        BY <1>3, <1>4, <1>5, <3>1
    <3>2. CASE ~Live(key)
      <4>1. s0 * Second \in Nat /\ stamp[c] \in Nat /\ now \in Nat /\ 2 * Second \in Nat
        BY <1>2, ConstantsAre
      <4> QED BY <1>2, <1>4, <1>5, <3>2, <4>1
    <3> QED BY <3>1, <3>2
  <2>3. SecondOf(now) = s0 => Cardinality(GotIn(s0)') <= CountOf(key)
    <3> SUFFICES ASSUME SecondOf(now) = s0 PROVE Cardinality(GotIn(s0)') <= CountOf(key)
        OBVIOUS
    <3>1. key.expires = Never \/ Live(key)
      <4>1. s0 * Second \in Nat /\ now \in Nat /\ Second \in Nat /\ now < s0 * Second + Second
        BY <1>2, ConstantsAre, TimesAre
      <4>2. key.expires # Never => now < key.expires
        BY <1>3, <4>1 DEF Keys
      <4> QED BY <4>2 DEF Live
    <3>2. CountOf(key) = key.count + 1 /\ key.count \in Nat
        BY <1>3, <1>4, <3>1 DEF Keys
    <3>3. Cardinality(GotIn(s0)) <= key.count
        BY <1>1, <1>2 DEF LimitsInv, RateInv, key
    <3>4. Cardinality(GotIn(s0)') <= Cardinality(GotIn(s0)) + 1
        BY <1>12, Sizes, OneMore
    <3> QED BY <3>2, <3>3, <3>4, Sizes, SizesAfter
  <2>4. Cardinality(GotIn(s0)') <= Rate
    <3>1. CASE SecondOf(now) = s0 /\ phase'[c] # "limited"
        BY <1>4, <1>6, <2>3, <3>1, SizesAfter, ConstantsAre
    <3>2. CASE ~(SecondOf(now) = s0 /\ phase'[c] # "limited")
        BY <1>1, <1>2, <1>12, <3>2 DEF LimitsInv, RateInv
    <3> QED BY <3>1, <3>2
  <2>5. \A s \in 0 .. SecondOf(MaxTime) :
               /\ Cardinality(GotIn(s)') <= Rate
               /\ SecondOf(now') = s => Cardinality(GotIn(s)') <= seconds'[s].count
               /\ seconds'[s].expires = Never => seconds'[s].count = 0
               /\ seconds'[s].expires # Never => seconds'[s].expires >= s * Second + 2 * Second
    BY <1>1, <1>4, <1>5, <2>1, <2>2, <2>3, <2>4
  <2> QED BY <2>5 DEF RateInv, SecondOf
<1>15. DayInv'
    BY <1>1, <1>11 DEF LimitsInv, DayInv, DayOf
<1>16. RefusedWithCause'
  <2>1. ASSUME phase'[c] = "limited"
        PROVE  Cardinality({b \in Calls \ {c} : /\ tokenAt'[b] # Never
                                                /\ SecondOf(stamp'[b]) = SecondOf(stamp'[c])}) >= Rate
    <3>1. {b \in Calls \ {c} : /\ tokenAt'[b] # Never
                               /\ SecondOf(stamp'[b]) = SecondOf(stamp'[c])} = TokenSet(s0)
        BY <1>0, <1>1, <1>7 DEF TokenSet, Alone
    <3>2. CountOf(key) > Rate /\ CountOf(key) <= Cardinality(TokenSet(s0)) + 1
      <4>1. key.count \in Nat /\ key.count <= Cardinality(TokenSet(s0))
        BY <1>2, <1>3 DEF LimitsInv, CountInv, Keys, key
      <4> QED BY <1>4, <1>6, <2>1, <4>1, Sizes
    <3>3. Cardinality(TokenSet(s0)) >= Rate
        BY <1>4, <3>2, Sizes, ConstantsAre
    <3> QED BY <3>1, <3>3
  <2>2. \A s : TokenSet(s) \subseteq TokenSet(s)' /\ DaySet(s) \subseteq DaySet(s)'
    BY <1>11, <1>12
  <2>3. \A b \in Calls \ {c} : phase'[b] = phase[b] /\ stamp'[b] = stamp[b]
    BY <1>7 DEF Alone
  <2> QED BY <1>6, <2>1, <2>2, <2>3, CauseKept, SizesAfter DEF LimitsInv
<1> QED BY <1>8, <1>9, <1>13, <1>14, <1>15, <1>16 DEF LimitsInv

\* What counting a call for its day needs of the day's new count, n.
LEMMA DayCounted ==
    ASSUME LimitsInv, NEW c \in Calls, NEW d0 \in 0 .. DayOf(MaxTime), NEW n \in Nat, Alone(c),
           d0 = DayOf(stamp[c]), phase[c] = "daily", countAt[c] = Never,
           UNCHANGED << store, now, stamp, tokenAt, seconds >>,
           countAt'[c] = now, now \in Instants,
           days'[d0].count = n, n <= days[d0].count + 1,
           \A d \in 0 .. DayOf(MaxTime) : d # d0 => days'[d] = days[d],
           phase'[c] = IF n > PerDay THEN "exceeded" ELSE "ok",
           store = "memory" \/ now < (d0 + 1) * Day - Second => n = days[d0].count + 1,
           store = "redis" => /\ days'[d0].expires # Never
                              /\ days'[d0].expires > (d0 + 1) * Day - Second
    PROVE  CountInv' /\ RateInv' /\ DayInv' /\ RefusedWithCause'
<1>1. now # Never /\ phase'[c] \in {"exceeded", "ok"} /\ days[d0].count \in Nat
    BY ConstantsAre DEF LimitsInv, TypeInv, Keys
<1>2. /\ \A s : c \in TokenSet(s) <=> c \in TokenSet(s)'
      /\ \A s : c \in GotIn(s) <=> c \in GotIn(s)'
      /\ \A d : c \notin DaySet(d) /\ (d # d0 => c \notin DaySet(d)')
      /\ \A d : c \notin Early(d) /\ (d # d0 => c \notin Early(d)')
      /\ c \in DaySet(d0)'
      /\ c \in Early(d0)' => phase'[c] = "ok" /\ now < (d0 + 1) * Day - Second
  <2>1. \A s : c \in TokenSet(s) <=> c \in TokenSet(s)'
    BY DEF TokenSet, SecondOf
  <2>2. \A s : c \in GotIn(s) <=> c \in GotIn(s)'
    BY <1>1 DEF GotIn, GotToken, SecondOf
  <2>3. \A d : c \notin DaySet(d) /\ c \notin Early(d)
    BY DEF DaySet, Early, Admitted
  <2>4. \A d : d # d0 => c \notin DaySet(d)' /\ c \notin Early(d)'
    BY DEF DaySet, Early, DayOf
  <2>5. c \in DaySet(d0)'
    BY <1>1 DEF DaySet, DayOf
  <2>6. c \in Early(d0)' => phase'[c] = "ok" /\ now < (d0 + 1) * Day - Second
    BY DEF Early, Admitted
  <2> QED BY <2>1, <2>2, <2>3, <2>4, <2>5, <2>6
<1>3. \A s : TokenSet(s)' = TokenSet(s) /\ GotIn(s)' = GotIn(s)
    BY <1>2, OthersStay, SameBut
<1>4. \A d : d # d0 => DaySet(d)' = DaySet(d) /\ Early(d)' = Early(d)
    BY <1>2, OthersStay, SameBut
<1>5. DaySet(d0) \ {c} = DaySet(d0)' \ {c} /\ Early(d0) \ {c} = Early(d0)' \ {c}
    BY OthersStay
<1>6. DaySet(d0)' = DaySet(d0) \cup {c} /\ c \notin DaySet(d0)
    BY <1>2, <1>5
<1>7. Early(d0)' \subseteq Early(d0) \cup {c}
    BY <1>5
<1>8. ~(phase'[c] = "ok" /\ now < (d0 + 1) * Day - Second) => Early(d0)' = Early(d0)
  <2>1. c \notin Early(d0) /\ (c \in Early(d0)' => phase'[c] = "ok" /\ now < (d0 + 1) * Day - Second)
    BY <1>2
  <2>2. c \notin Early(d0)' => Early(d0)' = Early(d0)
    BY <1>5, <2>1
  <2> QED BY <2>1, <2>2
<1>9. CountInv'
  <2>1. Cardinality(DaySet(d0)') = Cardinality(DaySet(d0)) + 1
    <3>1. IsFiniteSet(DaySet(d0))
        BY Sizes
    <3> QED BY <1>6, <3>1, FS_AddElement
  <2>2. days[d0].count <= Cardinality(DaySet(d0))
    BY DEF LimitsInv, CountInv
  <2>3. n <= Cardinality(DaySet(d0)')
    BY <1>1, <2>1, <2>2, Sizes
  <2>4. \A d \in 0 .. DayOf(MaxTime) : days'[d].count <= Cardinality(DaySet(d)')
    BY <1>4, <2>3 DEF LimitsInv, CountInv
  <2> QED BY <1>3, <2>4 DEF LimitsInv, CountInv, SecondOf, DayOf
<1>10. RateInv'
    BY <1>3 DEF LimitsInv, RateInv, SecondOf
<1>11. DayInv'
  <2>1. \A d \in 0 .. DayOf(MaxTime) : d # d0 =>
            /\ Cardinality(Early(d)') <= PerDay
            /\ store = "memory" \/ now < (d + 1) * Day - Second =>
                  Cardinality(Early(d)') <= days'[d].count
            /\ store = "redis" =>
                  /\ days'[d].expires = Never => days'[d].count = 0
                  /\ days'[d].expires # Never => days'[d].expires > (d + 1) * Day - Second
    BY <1>4 DEF LimitsInv, DayInv
  <2>2. store = "memory" \/ now < (d0 + 1) * Day - Second => Cardinality(Early(d0)') <= n
    <3> SUFFICES ASSUME store = "memory" \/ now < (d0 + 1) * Day - Second
                 PROVE  Cardinality(Early(d0)') <= n
        OBVIOUS
    <3>1. Cardinality(Early(d0)) <= days[d0].count
        BY DEF LimitsInv, DayInv
    <3>2. Cardinality(Early(d0)') <= Cardinality(Early(d0)) + 1
        BY <1>7, Sizes, OneMore
    <3> QED BY <1>1, <3>1, <3>2, Sizes, SizesAfter
  <2>3. Cardinality(Early(d0)') <= PerDay
    <3>1. CASE phase'[c] = "ok" /\ now < (d0 + 1) * Day - Second
      <4>1. n <= PerDay
        BY <3>1, ConstantsAre
      <4> QED BY <2>2, <3>1, <4>1, SizesAfter, ConstantsAre
    <3>2. CASE ~(phase'[c] = "ok" /\ now < (d0 + 1) * Day - Second)
        BY <1>8, <3>2 DEF LimitsInv, DayInv
    <3> QED BY <3>1, <3>2
  <2> QED BY <2>1, <2>2, <2>3 DEF DayInv, DayOf
<1>12. RefusedWithCause'
  <2>1. ASSUME phase'[c] = "exceeded"
        PROVE  Cardinality({b \in Calls \ {c} : /\ countAt'[b] # Never
                                                /\ DayOf(stamp'[b]) = DayOf(stamp'[c])}) >= PerDay
    <3>1. {b \in Calls \ {c} : /\ countAt'[b] # Never
                               /\ DayOf(stamp'[b]) = DayOf(stamp'[c])} = DaySet(d0)
        BY DEF DaySet, Alone
    <3>2. n > PerDay
        BY <2>1
    <3>3. days[d0].count <= Cardinality(DaySet(d0))
        BY DEF LimitsInv, CountInv
    <3>4. Cardinality(DaySet(d0)) >= PerDay
        BY <1>1, <3>2, <3>3, Sizes, ConstantsAre
    <3> QED BY <3>1, <3>4
  <2>2. \A s : TokenSet(s) \subseteq TokenSet(s)' /\ DaySet(s) \subseteq DaySet(s)'
    BY <1>3, <1>4, <1>6
  <2>3. \A b \in Calls \ {c} : phase'[b] = phase[b] /\ stamp'[b] = stamp[b]
    BY DEF Alone
  <2> QED BY <1>1, <2>1, <2>2, <2>3, CauseKept, SizesAfter DEF LimitsInv
<1> QED BY <1>9, <1>10, <1>11, <1>12

LEMMA IncrDailyMemoryKeeps == ASSUME LimitsInv, NEW c \in Calls, IncrDailyMemory(c) PROVE LimitsInv'
<1>0. PICK d0 : d0 = DayOf(stamp[c])
    OBVIOUS
<1>1. /\ store = "memory" /\ phase[c] = "daily" /\ countAt[c] = Never
      /\ UNCHANGED << store, now, stamp, tokenAt, bucket, seconds >>
      /\ countAt' = [countAt EXCEPT ![c] = now]
      /\ days' = [days EXCEPT ![d0].count = @ + 1]
      /\ phase' = [phase EXCEPT ![c] = IF days'[d0].count > PerDay THEN "exceeded" ELSE "ok"]
    BY <1>0 DEF LimitsInv, TimeInv, IncrDailyMemory
<1>2. stamp[c] \in Instants /\ now \in Instants /\ d0 \in 0 .. DayOf(MaxTime)
    BY <1>0, <1>1, TimesAre DEF LimitsInv, TypeInv, TimeInv
<1>3. /\ days'[d0].count = days[d0].count + 1 /\ days[d0].count \in Nat
      /\ days' \in [0 .. DayOf(MaxTime) -> Keys]
      /\ \A d \in 0 .. DayOf(MaxTime) : d # d0 => days'[d] = days[d]
    BY <1>1, <1>2 DEF LimitsInv, TypeInv, Keys
<1>4. /\ Alone(c) /\ countAt'[c] = now
      /\ phase'[c] = IF days'[d0].count > PerDay THEN "exceeded" ELSE "ok"
    BY <1>1 DEF LimitsInv, TypeInv, Alone
<1>5. TypeInv'
    BY <1>1, <1>2, <1>3 DEF LimitsInv, TypeInv, Phases, SecondOf, DayOf
<1>6. TimeInv'
    BY <1>1, <1>2, <1>4, ConstantsAre DEF LimitsInv, TypeInv, TimeInv, Phases
<1>7. PICK n \in Nat : n = days[d0].count + 1
    BY <1>3
<1>8. CountInv' /\ RateInv' /\ DayInv' /\ RefusedWithCause'
    BY <1>0, <1>1, <1>2, <1>3, <1>4, <1>7, DayCounted
<1> QED BY <1>5, <1>6, <1>8 DEF LimitsInv

LEMMA IncrDailyRedisKeeps == ASSUME LimitsInv, NEW c \in Calls, IncrDailyRedis(c) PROVE LimitsInv'
<1>0. PICK d0, ttl : /\ d0 = DayOf(stamp[c])
                     /\ ttl = (DayEnd(stamp[c]) - stamp[c]) \div Second
    OBVIOUS
<1> DEFINE key == days[d0]
<1>1. /\ store = "redis" /\ phase[c] = "daily" /\ countAt[c] = Never
      /\ UNCHANGED << store, now, stamp, tokenAt, bucket, seconds >>
      /\ countAt' = [countAt EXCEPT ![c] = now]
      /\ days' = [days EXCEPT ![d0] = Incremented(@, ttl)]
      /\ phase' = [phase EXCEPT ![c] = IF days'[d0].count > PerDay THEN "exceeded" ELSE "ok"]
    BY <1>0 DEF LimitsInv, TimeInv, IncrDailyRedis
<1>2. /\ stamp[c] \in Instants /\ now \in Instants /\ stamp[c] <= now
      /\ d0 \in 0 .. DayOf(MaxTime) /\ stamp[c] < DayEnd(stamp[c])
    BY <1>0, <1>1, TimesAre DEF LimitsInv, TypeInv, TimeInv
<1>3. DayEnd(stamp[c]) = (d0 + 1) * Day /\ (d0 + 1) * Day \in Nat
    BY <1>0, <1>2, ConstantsAre DEF DayEnd
<1>4. ttl \in Nat /\ (d0 + 1) * Day - stamp[c] < ttl * Second + Second /\ ttl * Second \in Nat
  <2>1. (d0 + 1) * Day - stamp[c] \in Nat /\ Second \in Nat \ {0}
    BY <1>2, <1>3, ConstantsAre
  <2>2. ttl = ((d0 + 1) * Day - stamp[c]) \div Second
    BY <1>0, <1>3
  <2>3. ttl \in Nat /\ (d0 + 1) * Day - stamp[c] < ttl * Second + Second
    BY <2>1, <2>2, DivisionIs
  <2> QED BY <2>1, <2>3
<1>5. /\ key \in Keys
      /\ key.expires = Never => key.count = 0
      /\ key.expires # Never => key.expires > (d0 + 1) * Day - Second
    BY <1>1, <1>2 DEF LimitsInv, TypeInv, DayInv
<1>6. /\ CountOf(key) \in Nat /\ CountOf(key) <= key.count + 1
      /\ key.expires = Never \/ Live(key) => CountOf(key) = key.count + 1
      /\ Incremented(key, ttl) \in Keys /\ Incremented(key, ttl).count = CountOf(key)
      /\ Incremented(key, ttl).expires # Never
      /\ Live(key) => Incremented(key, ttl).expires = key.expires /\ key.expires # Never
      /\ ~Live(key) => Incremented(key, ttl).expires = now + ttl * Second
    BY <1>2, <1>4, <1>5, KeysCount
<1>7. /\ days'[d0] = Incremented(key, ttl)
      /\ \A d \in 0 .. DayOf(MaxTime) : d # d0 => days'[d] = days[d]
      /\ days' \in [0 .. DayOf(MaxTime) -> Keys]
    BY <1>1, <1>2, <1>6 DEF LimitsInv, TypeInv
<1> HIDE DEF key
<1>8. /\ Alone(c) /\ countAt'[c] = now
      /\ phase'[c] = IF days'[d0].count > PerDay THEN "exceeded" ELSE "ok"
    BY <1>1 DEF LimitsInv, TypeInv, Alone
<1>9. TypeInv'
    BY <1>1, <1>2, <1>7 DEF LimitsInv, TypeInv, Phases, SecondOf, DayOf
<1>10. TimeInv'
    BY <1>1, <1>2, <1>8, ConstantsAre DEF LimitsInv, TypeInv, TimeInv, Phases
<1>11. now < (d0 + 1) * Day - Second => CountOf(key) = key.count + 1
  <2>1. now \in Nat /\ Second \in Nat /\ (d0 + 1) * Day - Second \in Int
    BY <1>2, <1>3, ConstantsAre
  <2>2. now < (d0 + 1) * Day - Second /\ key.expires # Never => now < key.expires
    BY <1>5, <2>1 DEF Keys
  <2> QED BY <1>6, <2>2 DEF Live
<1>12. days'[d0].expires # Never /\ days'[d0].expires > (d0 + 1) * Day - Second
  <2>1. CASE Live(key)
    BY <1>5, <1>6, <1>7, <2>1
  <2>2. CASE ~Live(key)
    <3>1. now \in Nat /\ stamp[c] \in Nat /\ Second \in Nat
        BY <1>2, ConstantsAre
    <3>2. now + ttl * Second > (d0 + 1) * Day - Second
        BY <1>2, <1>3, <1>4, <3>1
    <3> QED BY <1>6, <1>7, <2>2, <3>2
  <2> QED BY <2>1, <2>2
<1>13. PICK n \in Nat : n = CountOf(key)
    BY <1>6
<1>14. CountInv' /\ RateInv' /\ DayInv' /\ RefusedWithCause'
  <2>1. /\ days'[d0].count = n /\ n <= days[d0].count + 1
        /\ now < (d0 + 1) * Day - Second => n = days[d0].count + 1
        /\ phase'[c] = IF n > PerDay THEN "exceeded" ELSE "ok"
    BY <1>6, <1>7, <1>8, <1>11, <1>13 DEF key
  <2> QED BY <1>0, <1>1, <1>2, <1>7, <1>8, <1>12, <2>1, DayCounted
<1> QED BY <1>9, <1>10, <1>14 DEF LimitsInv

LEMMA StutterKeeps == ASSUME LimitsInv, UNCHANGED quotaVars PROVE LimitsInv'
<1>1. TypeInv' /\ TimeInv' /\ RefusedWithCause'
    BY DEF LimitsInv, TypeInv, TimeInv, RefusedWithCause, quotaVars, SecondOf, DayOf
<1>2. /\ \A s : /\ TokenSet(s)' = TokenSet(s) /\ GotIn(s)' = GotIn(s)
                /\ DaySet(s)' = DaySet(s) /\ Early(s)' = Early(s)
      /\ seconds' = seconds /\ days' = days /\ store' = store /\ now' = now
    BY DEF quotaVars, TokenSet, GotIn, GotToken, DaySet, Early, Admitted, SecondOf, DayOf
<1>3. CountInv'
    BY <1>2 DEF LimitsInv, CountInv, SecondOf, DayOf
<1>4. RateInv'
    BY <1>2 DEF LimitsInv, RateInv, SecondOf
<1>5. DayInv'
    BY <1>2 DEF LimitsInv, DayInv, DayOf
<1> QED BY <1>1, <1>3, <1>4, <1>5 DEF LimitsInv

LEMMA QuotaInvariance == QuotaSpec => []LimitsInv
<1>1. LimitsInv /\ [QuotaNext]_quotaVars => LimitsInv'
    BY TickKeeps, TakeTokenMemoryKeeps, IncrDailyMemoryKeeps, ArriveKeeps,
       TakeTokenRedisKeeps, IncrDailyRedisKeeps, RedisFailsKeeps, StutterKeeps DEF QuotaNext
<1> QED BY QuotaStart, <1>1, PTL DEF QuotaSpec

----------------------------------------------------------------------------
(***************************************************************************)
(* The theorems.                                                           *)
(***************************************************************************)

\* With Redis at most the rate of calls is let through within a second, and no
\* call is refused before as many as are allowed were counted.
THEOREM SecondLimitsHold == QuotaSpec => []SecondHolds
<1>1. LimitsInv => QuotaTypeOK
  <2> SUFFICES ASSUME LimitsInv PROVE QuotaTypeOK
    OBVIOUS
  <2>1. \A s \in 0 .. SecondOf(MaxTime) : seconds[s] \in Counters
    BY Sizes DEF LimitsInv, TypeInv, CountInv, Keys, Counters
  <2>2. \A d \in 0 .. DayOf(MaxTime) : days[d] \in Counters
    BY Sizes DEF LimitsInv, TypeInv, CountInv, Keys, Counters
  <2> QED BY <2>1, <2>2 DEF LimitsInv, TypeInv, QuotaTypeOK
<1>2. LimitsInv => RatePerSecond
    BY DEF LimitsInv, RateInv, RatePerSecond, GotIn
<1>3. LimitsInv => SecondHolds
    BY <1>1, <1>2 DEF LimitsInv, SecondHolds
<1> QED BY QuotaInvariance, <1>3, PTL

\* The calls of a day that are admitted before its last second are within the quota.
THEOREM DailyHolds == QuotaSpec => []DailyUntilLastSecond
<1>1. LimitsInv => DailyUntilLastSecond
    BY DEF LimitsInv, DayInv, DailyUntilLastSecond, Early
<1> QED BY QuotaInvariance, <1>1, PTL

============================================================================
