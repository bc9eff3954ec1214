------------------------ MODULE GovernedAction_proofs ------------------------
(***************************************************************************)
(* Proofs about GovernedAction, for any number of calls, any review keys   *)
(* and any deadlines: what runs was decided by the plane or by a person,   *)
(* with the payload that person settled on (RunsAsDecided), and what the   *)
(* stores say of it is so (RecordsHold).                                   *)
(***************************************************************************)
EXTENDS GovernedAction, SequenceTheorems, WellFoundedInduction, TLAPS

Rows == [call : Calls, verdict : Verdicts, payload : Payloads]
Records == [executed : BOOLEAN, status : {"blocked", "succeeded", "failed"}]

----------------------------------------------------------------------------
(***************************************************************************)
(* The files.                                                              *)
(***************************************************************************)
\* Rows of a file that are not none have a last one.
LEMMA LastOfRows ==
    ASSUME NEW k \in Nat, NEW T \in SUBSET (1 .. k), T # {}
    PROVE  \E n \in T : \A m \in T : m <= n
<1> DEFINE D == {k - n : n \in T}
<1>1. D \subseteq Nat /\ D # {}
  <2>1. \A n \in T : n \in 1 .. k
    OBVIOUS
  <2>2. \A n \in T : k - n \in Nat
    BY <2>1
  <2> QED
    BY <2>2
<1>2. PICK d \in D : \A e \in D : << e, d >> \notin OpToRel(<, Nat)
  BY <1>1, NatLessThanWellFounded, WFMin
<1>3. \A e \in D : ~(e < d)
  BY <1>1, <1>2 DEF OpToRel
<1>4. PICK n \in T : d = k - n
  BY <1>2
<1>5. \A m \in T : m <= n
  BY <1>3, <1>4
<1> QED
  BY <1>5

LEMMA LatestIsOne ==
    ASSUME resols \in Seq(Rows), NEW T \in SUBSET DOMAIN resols, T # {}
    PROVE  \E n \in T : Latest(T) = resols[n]
<1>1. DOMAIN resols = 1 .. Len(resols) /\ Len(resols) \in Nat
  BY LenProperties
<1>2. \E n \in T : \A m \in T : m <= n
  BY <1>1, LastOfRows
<1> QED
  BY <1>2 DEF Latest

\* A file only grows, by the row appended at most.
LEMMA AppendedGrows ==
    ASSUME NEW S, NEW rows \in Seq(S), NEW row \in S, NEW file
    PROVE  /\ Appended(file, rows, row) \in Seq(S)
           /\ Len(Appended(file, rows, row)) \in {Len(rows), Len(rows) + 1}
           /\ Len(Appended(file, rows, row)) = Len(rows) => Appended(file, rows, row) = rows
           /\ Len(Appended(file, rows, row)) # Len(rows)
                => Appended(file, rows, row)[Len(rows) + 1] = row
           /\ ToSet(rows) \subseteq ToSet(Appended(file, rows, row))
           /\ ToSet(Appended(file, rows, row)) \subseteq ToSet(rows) \cup {row}
<1>1. CASE file \in torn
  BY <1>1, LenProperties DEF Appended
<1>2. CASE file \notin torn
  <2>1. Appended(file, rows, row) = Append(rows, row)
    BY <1>2 DEF Appended
  <2>2. /\ Append(rows, row) \in Seq(S) /\ Len(Append(rows, row)) = Len(rows) + 1
        /\ \A i \in 1 .. Len(rows) : Append(rows, row)[i] = rows[i]
        /\ Append(rows, row)[Len(rows) + 1] = row
    BY AppendProperties
  <2>3. /\ Len(rows) \in Nat /\ DOMAIN rows = 1 .. Len(rows)
        /\ DOMAIN Append(rows, row) = 1 .. Len(rows) + 1
    BY <2>2, LenProperties
  <2>4. ToSet(rows) \subseteq ToSet(Append(rows, row))
    BY <2>2, <2>3 DEF ToSet
  <2>5. ToSet(Append(rows, row)) \subseteq ToSet(rows) \cup {row}
    <3> SUFFICES ASSUME NEW i \in 1 .. Len(rows) + 1
                 PROVE  Append(rows, row)[i] \in ToSet(rows) \cup {row}
      BY <2>3 DEF ToSet
    <3>1. i = Len(rows) + 1 \/ i \in 1 .. Len(rows)
      BY <2>3
    <3> QED
      BY <2>2, <2>3, <3>1 DEF ToSet
  <2> DEFINE more == Append(rows, row)
  <2>6. /\ Appended(file, rows, row) = more /\ more \in Seq(S)
        /\ Len(more) = Len(rows) + 1 /\ more[Len(rows) + 1] = row
        /\ ToSet(rows) \subseteq ToSet(more) /\ ToSet(more) \subseteq ToSet(rows) \cup {row}
    BY <2>1, <2>2, <2>4, <2>5
  <2> HIDE DEF more
  <2> DEFINE all == Appended(file, rows, row)
  <2>7. all = more
    BY <2>6
  <2> HIDE DEF all
  <2>8. Len(all) = Len(rows) + 1
    BY <2>6, <2>7
  <2>11. Len(rows) \in Nat
    BY <2>3
  <2>12. \A a, b : b \in Nat /\ a = b + 1 => a # b
    OBVIOUS
  <2>13. Len(all) # Len(rows)
    BY <2>8, <2>11, <2>12
  <2>9. all \in Seq(S) /\ all[Len(rows) + 1] = row
    BY <2>6, <2>7
  <2>10. ToSet(rows) \subseteq ToSet(all) /\ ToSet(all) \subseteq ToSet(rows) \cup {row}
    BY <2>6, <2>7
  <2> QED
    BY <2>8, <2>9, <2>10 DEF all
<1> QED
  BY <1>1, <1>2

LEMMA NoRows == ASSUME NEW S PROVE << >> \in Seq(S) /\ Len(<< >>) = 0 /\ ToSet(<< >>) = {}
  BY EmptySeq DEF ToSet

----------------------------------------------------------------------------
(***************************************************************************)
(* What is known of a call, by its place.                                  *)
(***************************************************************************)
\* A payload that may run: the plane's leave, or that of a row of the file.
SettledBy(c, p) ==
    \E r \in ToSet(resols) : /\ KeyOf[r.call] = KeyOf[c]
                             /\ r.verdict \in {"approve", "edit"}
                             /\ p = PayloadUnder(r)

Warranted(c, p) ==
    \/ p = "original" /\ (decs[c] = "allow" \/ "decisions" \in torn)
    \/ SettledBy(c, p)

Honest(c) ==
    \A e \in ToSet(execs[c]) :
        /\ e.executed => ran[c] # NotRun
        /\ e.status = "blocked" => ran[c] = NotRun
        /\ e.status = "failed" => ran[c] # NotRun

Contradicted(c) ==
    /\ Len(execs[c]) <= 2
    /\ execs[c] # << >> /\ ran[c].how = "done" /\ Last(execs[c]).status # "succeeded"
          => lost[c]

CallAt(c) ==
    /\ pc[c] \in {"idle", "waiting", "blocking", "running"} =>
          ran[c] = NotRun /\ execs[c] = << >>
    /\ pc[c] = "waiting" => decs[c] \in {"escalate", "clarify"} \/ "decisions" \in torn
    /\ pc[c] = "running" => Warranted(c, payload[c])
    /\ ran[c] # NotRun => Warranted(c, ran[c].payload)
    /\ pc[c] = "reporting" => ran[c].how = "done" /\ execs[c] = << >>
    /\ pc[c] = "failing" => /\ ran[c] # NotRun /\ Len(execs[c]) <= 1
                            /\ ran[c].how = "done" => lost[c]
    /\ Honest(c) /\ Contradicted(c)

\* What only the governance plane says, only it has in its file.
SaidByTheirs == ~Governed => \A r \in ToSet(resols) : r.verdict # "ask_clarifying_question"

ActionInv == TypeOK /\ SaidByTheirs /\ \A c \in Calls : CallAt(c)

LEMMA InvImplies == ActionInv => RunsAsDecided /\ RecordsHold
<1> SUFFICES ASSUME ActionInv PROVE RunsAsDecided /\ RecordsHold
  OBVIOUS
<1>1. RunsAsDecided
  BY DEF ActionInv, CallAt, Warranted, SettledBy, RunsAsDecided
<1>2. RecordsHonest
  BY DEF ActionInv, CallAt, Honest, RecordsHonest
<1>3. ContradictedOnlyByLoss
  BY DEF ActionInv, CallAt, Contradicted, ContradictedOnlyByLoss
<1>4. WaitingIsListed
  BY DEF ActionInv, CallAt, WaitingIsListed, Pending, Readable, Files
<1> QED
  BY <1>1, <1>2, <1>3, <1>4 DEF ActionInv, RecordsHold

\* A call of which nothing is heard, while files grow and tear.
LEMMA CallAtKept ==
    ASSUME NEW c \in Calls, CallAt(c),
           pc'[c] = pc[c], ran'[c] = ran[c], payload'[c] = payload[c],
           execs'[c] = execs[c], lost'[c] = lost[c], decs'[c] = decs[c],
           torn \subseteq torn', ToSet(resols) \subseteq ToSet(resols')
    PROVE  CallAt(c)'
<1>1. \A p : Warranted(c, p) => Warranted(c, p)'
  BY DEF Warranted, SettledBy
<1>2. Honest(c)' /\ Contradicted(c)'
  BY DEF CallAt, Honest, Contradicted
<1> QED
  BY <1>1, <1>2 DEF CallAt

\* What a resolution that releases a call warrants.
LEMMA ReleaseWarrants ==
    ASSUME TypeOK, SaidByTheirs, NEW c \in Calls, NEW n \in DOMAIN resols,
           KeyOf[resols[n].call] = KeyOf[c], Releases(c, resols[n])
    PROVE  /\ SettledBy(c, PayloadUnder(resols[n]))
           /\ PayloadUnder(resols[n]) \in Payloads
<1>0. resols \in Seq(Rows)
  BY DEF TypeOK, Rows
<1>1. resols[n] \in ToSet(resols) /\ resols[n] \in Rows
  BY <1>0 DEF ToSet
<1>2. resols[n].verdict \in {"approve", "edit"}
  BY <1>1 DEF Releases, SaidByTheirs, Rows, Verdicts
<1> QED
  BY <1>1, <1>2 DEF SettledBy, PayloadUnder, Rows, Payloads

----------------------------------------------------------------------------
(***************************************************************************)
(* The steps.                                                              *)
(***************************************************************************)
LEMMA ActionStart == Init => ActionInv
<1> SUFFICES ASSUME Init PROVE ActionInv
  OBVIOUS
<1>1. << >> \in Seq(Rows) /\ << >> \in Seq(Records) /\ Len(<< >>) = 0 /\ ToSet(<< >>) = {}
  BY NoRows
<1>2. TypeOK
  BY <1>1, BoundsAssumption DEF Init, TypeOK, Rows, Records, Decisions, Places, Payloads, NotRun
<1>3. SaidByTheirs
  BY <1>1 DEF Init, SaidByTheirs
<1>4. \A c \in Calls : CallAt(c)
  BY <1>1 DEF Init, CallAt, Honest, Contradicted
<1> QED
  BY <1>2, <1>3, <1>4 DEF ActionInv

LEMMA SubmittedIs ==
    ASSUME TypeOK, NEW c \in Calls, NEW d \in Decisions, Submitted(c, d)
    PROVE  /\ subs' \subseteq Calls /\ decs' \in [Calls -> Decisions \cup {"none"}]
           /\ \A other \in Calls \ {c} : decs'[other] = decs[other]
           /\ decs'[c] = d \/ "decisions" \in torn
  BY DEF Submitted, TypeOK

LEMMA SubmitKeeps ==
    ASSUME ActionInv, NEW c \in Calls, NEW d \in Decisions,
           Submit(c, d) \/ SubmitAnswerLost(c, d) \/ SubmitLost(c)
    PROVE  ActionInv'
<1>0. /\ UNCHANGED << client, resols, answers, execs, torn, left, ran, lost >>
      /\ pc[c] = "idle" /\ pc \in [Calls -> Places]
  BY DEF Submit, SubmitAnswerLost, SubmitLost, store, ActionInv, TypeOK
<1>1. /\ subs' \subseteq Calls /\ decs' \in [Calls -> Decisions \cup {"none"}]
      /\ \A other \in Calls \ {c} : decs'[other] = decs[other]
  BY SubmittedIs DEF Submit, SubmitAnswerLost, SubmitLost, store, ActionInv, TypeOK
<1>2. ASSUME NEW to \in {"running", "waiting", "blocking", "threw"}, Goto(c, to),
             payload' \in [Calls -> Payloads],
             \A other \in Calls \ {c} : payload'[other] = payload[other],
             to = "waiting" => decs'[c] \in {"escalate", "clarify"} \/ "decisions" \in torn,
             to = "running" => Warranted(c, payload[c])'
      PROVE  ActionInv'
  <2>1. pc' = [pc EXCEPT ![c] = to]
    BY <1>2 DEF Goto
  <2>2. TypeOK'
    BY <1>0, <1>1, <1>2, <2>1 DEF ActionInv, TypeOK, Places
  <2>3. SaidByTheirs'
    BY <1>0 DEF ActionInv, SaidByTheirs, Governed
  <2>4. ASSUME NEW other \in Calls \ {c} PROVE CallAt(other)'
    BY <1>0, <1>1, <1>2, <2>1, CallAtKept DEF ActionInv
  <2>5. CallAt(c)'
    <3>1. CallAt(c) /\ ran[c] = NotRun /\ execs[c] = << >>
      BY <1>0 DEF ActionInv, CallAt
    <3>2. pc'[c] = to
      BY <1>0, <2>1
    <3>3. Honest(c)' /\ Contradicted(c)'
      BY <1>0, <3>1 DEF CallAt, Honest, Contradicted
    <3> QED
      BY <1>0, <1>2, <3>1, <3>2, <3>3 DEF CallAt
  <2> QED
    BY <2>2, <2>3, <2>4, <2>5 DEF ActionInv
<1>3. CASE SubmitLost(c) \/ SubmitAnswerLost(c, d)
  BY <1>2, <1>3 DEF SubmitLost, SubmitAnswerLost, ActionInv, TypeOK
<1>4. CASE Submit(c, d)
  <2> DEFINE known == d = "escalate" /\ Equivalent(c) # {}
             r == Latest(Equivalent(c))
             allowed == d = "allow" \/ (known /\ Releases(c, r))
  <2>1. PICK p : p = IF known THEN PayloadUnder(r) ELSE "original"
    OBVIOUS
  <2>2. PICK to : to = AfterSubmit(c, d, allowed)
    OBVIOUS
  <2>3. payload' = [payload EXCEPT ![c] = p] /\ Goto(c, to) /\ Submitted(c, d)
    BY <1>4, <2>1, <2>2 DEF Submit
  <2>4. known => p \in Payloads /\ (Releases(c, r) => SettledBy(c, p))
    <3>1. Equivalent(c) \subseteq DOMAIN resols
          /\ \A n \in Equivalent(c) : KeyOf[resols[n].call] = KeyOf[c]
      BY DEF Equivalent
    <3>2. resols \in Seq(Rows)
      BY DEF ActionInv, TypeOK, Rows
    <3>3. known => \E n \in Equivalent(c) : r = resols[n]
      BY <3>1, <3>2, LatestIsOne
    <3>4. \A n \in DOMAIN resols : resols[n] \in Rows
      BY <3>2
    <3>5. \A n \in DOMAIN resols : PayloadUnder(resols[n]) \in Payloads
      BY <3>4 DEF PayloadUnder, Rows, Payloads
    <3> HIDE DEF r
    <3> QED
      BY <2>1, <3>1, <3>3, <3>5, ReleaseWarrants DEF ActionInv
  <2>5. ~known => p = "original"
    BY <2>1
  <2>6. decs'[c] = d \/ "decisions" \in torn
    BY <2>3, SubmittedIs DEF ActionInv
  <2>7. p \in Payloads
    BY <2>4, <2>5 DEF Payloads
  <2>8. SettledBy(c, p) => SettledBy(c, p)'
    BY <1>0 DEF SettledBy
  <2>9. payload'[c] = p /\ payload' \in [Calls -> Payloads]
        /\ \A other \in Calls \ {c} : payload'[other] = payload[other]
    BY <2>3, <2>7 DEF ActionInv, TypeOK
  <2>10. allowed => d = "allow" \/ (known /\ Releases(c, r))
    OBVIOUS
  <2>11. known => d = "escalate"
    OBVIOUS
  <2>12. d = "allow" => allowed
    OBVIOUS
  <2> HIDE DEF known, r, allowed
  <2>13. CASE allowed
    <3>1. to = "running"
      BY <2>2, <2>13 DEF AfterSubmit
    <3>2. Warranted(c, p)'
      BY <1>0, <2>4, <2>5, <2>6, <2>8, <2>10, <2>11, <2>13 DEF Warranted
    <3>3. Warranted(c, payload[c])'
      BY <2>9, <3>2
    <3> QED
      BY <1>2, <2>3, <2>9, <3>1, <3>3
  <2>14. CASE ~allowed
    <3>1. to \in {"waiting", "blocking"}
      BY <2>2, <2>14 DEF AfterSubmit
    <3>2. to = "waiting" => d \in {"escalate", "clarify"}
      BY <2>2, <2>12, <2>14 DEF AfterSubmit, Reviewable, Decisions
    <3> QED
      BY <1>2, <2>3, <2>6, <2>9, <3>1, <3>2
  <2> QED
    BY <2>13, <2>14
<1> QED
  BY <1>3, <1>4

\* A step of a call that has been submitted touches the call and its records.
LEMMA OneMoves ==
    ASSUME ActionInv, NEW c \in Calls, TypeOK', CallAt(c)',
           UNCHANGED << client, subs, decs, resols, answers, torn >>,
           \A other \in Calls \ {c} :
              /\ pc'[other] = pc[other] /\ ran'[other] = ran[other]
              /\ payload'[other] = payload[other] /\ execs'[other] = execs[other]
              /\ lost'[other] = lost[other]
    PROVE  ActionInv'
<1>1. \A other \in Calls \ {c} : CallAt(other)'
  BY CallAtKept DEF ActionInv
<1>2. SaidByTheirs'
  BY DEF ActionInv, SaidByTheirs, Governed
<1> QED
  BY <1>1, <1>2 DEF ActionInv

LEMMA PollKeeps ==
    ASSUME ActionInv, NEW c \in Calls, Poll(c) \/ PollFails(c) \/ Deadline(c)
    PROVE  ActionInv'
<1> USE BoundsAssumption DEF ActionInv
<1>0. /\ UNCHANGED << store, ran, lost >> /\ pc[c] = "waiting"
      /\ pc \in [Calls -> Places] /\ left \in [Calls -> 0 .. Polls]
      /\ payload \in [Calls -> Payloads] /\ CallAt(c)
  BY DEF Poll, PollFails, Deadline, TypeOK
<1>1. UNCHANGED << client, subs, decs, resols, answers, execs, torn, ran, lost >>
  BY <1>0 DEF store
<1>2. ASSUME NEW to \in {"waiting", "running", "blocking", "threw"}, pc' = [pc EXCEPT ![c] = to],
             NEW p \in Payloads, payload' = [payload EXCEPT ![c] = p],
             to = "running" => SettledBy(c, p),
             left' \in [Calls -> 0 .. Polls]
      PROVE  ActionInv'
  <2>1. TypeOK'
    BY <1>0, <1>1, <1>2 DEF TypeOK, Places
  <2>2. SettledBy(c, p) => SettledBy(c, p)'
    BY <1>1 DEF SettledBy
  <2>3. pc'[c] = to /\ payload'[c] = p
    BY <1>0, <1>2
  <2>4. to = "running" => Warranted(c, payload[c])'
    BY <1>2, <2>2, <2>3 DEF Warranted
  <2>5. CallAt(c)'
    BY <1>0, <1>1, <2>3, <2>4 DEF CallAt, Honest, Contradicted
  <2>6. \A other \in Calls \ {c} : pc'[other] = pc[other] /\ payload'[other] = payload[other]
    BY <1>0, <1>2
  <2> QED
    BY <1>1, <2>1, <2>5, <2>6, OneMoves
<1>3. CASE PollFails(c) \/ Deadline(c)
  <2>1. payload' = [payload EXCEPT ![c] = payload[c]] /\ payload[c] \in Payloads
    BY <1>0, <1>3 DEF PollFails, Deadline
  <2> QED
    BY <1>0, <1>2, <1>3, <2>1 DEF PollFails, Deadline, Goto
<1>4. CASE Poll(c) /\ ResolutionsOf(c) = {}
  <2>1. payload' = [payload EXCEPT ![c] = payload[c]] /\ payload[c] \in Payloads
    BY <1>0, <1>4 DEF Poll
  <2>2. pc' = [pc EXCEPT ![c] = "waiting"]
    BY <1>0, <1>4 DEF Poll
  <2>3. left' = [left EXCEPT ![c] = @ - 1] /\ left[c] > 0
    BY <1>4 DEF Poll
  <2>4. left[c] - 1 \in 0 .. Polls
    BY <1>0, <2>3
  <2>5. left' \in [Calls -> 0 .. Polls]
    BY <1>0, <2>3, <2>4
  <2> QED
    BY <1>2, <2>1, <2>2, <2>5
<1>5. CASE Poll(c) /\ ResolutionsOf(c) # {}
  <2>1. PICK n \in ResolutionsOf(c) : Latest(ResolutionsOf(c)) = resols[n]
    <3>1. resols \in Seq(Rows) /\ ResolutionsOf(c) \in SUBSET DOMAIN resols
      BY DEF TypeOK, Rows, ResolutionsOf
    <3> QED
      BY <1>5, <3>1, LatestIsOne
  <2>2. /\ payload' = [payload EXCEPT ![c] = PayloadUnder(resols[n])]
        /\ pc' = [pc EXCEPT ![c] = IF Releases(c, resols[n]) THEN "running" ELSE "blocking"]
        /\ UNCHANGED left
    BY <1>5, <2>1 DEF Poll, Goto
  <2>3. n \in DOMAIN resols /\ resols[n].call = c
    BY DEF ResolutionsOf
  <2>4. PayloadUnder(resols[n]) \in Payloads
    <3>1. resols \in Seq(Rows)
      BY DEF TypeOK, Rows
    <3>2. resols[n] \in Rows
      BY <2>3, <3>1
    <3> QED
      BY <3>2 DEF PayloadUnder, Rows, Payloads
  <2>5. Releases(c, resols[n]) => SettledBy(c, PayloadUnder(resols[n]))
    BY <2>3, ReleaseWarrants
  <2>6. CASE Releases(c, resols[n])
    BY <1>0, <1>2, <2>2, <2>4, <2>5, <2>6
  <2>7. CASE ~Releases(c, resols[n])
    BY <1>0, <1>2, <2>2, <2>4, <2>7
  <2> QED
    BY <2>6, <2>7
<1> QED
  BY <1>3, <1>4, <1>5

LEMMA ExecuteKeeps ==
    ASSUME ActionInv, NEW c \in Calls, NEW how \in {"done", "broke"}, Execute(c, how)
    PROVE  ActionInv'
<1> USE DEF ActionInv
<1> DEFINE to == IF how = "done" THEN "reporting" ELSE "failing"
<1>0. /\ UNCHANGED << client, subs, decs, resols, answers, execs, torn, left, payload, lost >>
      /\ pc[c] = "running" /\ CallAt(c) /\ pc' = [pc EXCEPT ![c] = to]
      /\ ran' = [ran EXCEPT ![c] = [payload |-> payload[c], how |-> how]]
  BY DEF Execute, store, Goto
<1>1. /\ pc \in [Calls -> Places] /\ payload[c] \in Payloads
      /\ pc'[c] = to /\ \A other \in Calls \ {c} : pc'[other] = pc[other]
  BY <1>0 DEF TypeOK
<1>2. /\ ran'[c].payload = payload[c] /\ ran'[c].how = how /\ ran'[c] # NotRun
      /\ ran'[c] \in [payload : Payloads, how : {"done", "broke"}]
      /\ \A other \in Calls \ {c} : ran'[other] = ran[other]
  BY <1>0, <1>1 DEF NotRun, TypeOK
<1>3. TypeOK'
  BY <1>0, <1>1, <1>2 DEF TypeOK, Places
<1>4. Warranted(c, payload[c])'
  BY <1>0 DEF CallAt, Warranted, SettledBy
<1>5. CallAt(c)'
  <2>1. Warranted(c, ran[c].payload)'
    BY <1>0, <1>2, <1>4
  <2>2. execs'[c] = << >> /\ ToSet(execs'[c]) = {} /\ Len(execs'[c]) = 0
    BY <1>0, NoRows DEF CallAt
  <2>3. Honest(c)' /\ Contradicted(c)'
    BY <2>2 DEF Honest, Contradicted
  <2> QED
    BY <1>1, <1>2, <2>1, <2>2, <2>3 DEF CallAt
<1> QED
  BY <1>0, <1>1, <1>2, <1>3, <1>5, OneMoves

LEMMA SummaryKeeps == ASSUME ActionInv, NEW c \in Calls, SummaryThrows(c) PROVE ActionInv'
<1> USE DEF ActionInv
<1>0. /\ UNCHANGED << client, subs, decs, resols, answers, execs, torn, left, payload, ran >>
      /\ pc[c] = "reporting" /\ CallAt(c) /\ pc' = [pc EXCEPT ![c] = "failing"]
      /\ lost' = [lost EXCEPT ![c] = TRUE]
  BY DEF SummaryThrows, store, Goto
<1>1. TypeOK'
  BY <1>0 DEF TypeOK, Places
<1>2. /\ pc'[c] = "failing" /\ lost'[c] = TRUE
      /\ \A other \in Calls \ {c} : pc'[other] = pc[other] /\ lost'[other] = lost[other]
  BY <1>0 DEF TypeOK
<1>3. ran[c] # NotRun /\ execs[c] = << >> /\ Len(execs[c]) = 0 /\ ran[c].how = "done"
  BY <1>0, NoRows DEF CallAt, NotRun
<1>4. Warranted(c, ran[c].payload)'
  BY <1>0, <1>3 DEF CallAt, Warranted, SettledBy
<1>5. CallAt(c)'
  BY <1>0, <1>2, <1>3, <1>4 DEF CallAt, Honest, Contradicted
<1> QED
  BY <1>0, <1>1, <1>2, <1>5, OneMoves

\* The records of a call, before and after a report of it.
LEMMA ReportIs ==
    ASSUME TypeOK, NEW c \in Calls, pc[c] \in Reporting
    PROVE  /\ Report(c) \in Records
           /\ Report(c).executed => pc[c] \in {"reporting", "failing"}
           /\ Report(c).status = "blocked" <=> pc[c] = "blocking"
           /\ Report(c).status = "failed" <=> pc[c] = "failing"
<1> DEFINE did == pc[c] = "reporting" \/ (pc[c] = "failing" /\ ~Governed)
           said == CASE pc[c] = "blocking"  -> "blocked"
                     [] pc[c] = "reporting" -> "succeeded"
                     [] OTHER               -> "failed"
<1>1. did \in BOOLEAN /\ (did => pc[c] \in {"reporting", "failing"})
  OBVIOUS
<1>2. /\ said \in {"blocked", "succeeded", "failed"}
      /\ said = "blocked" <=> pc[c] = "blocking"
      /\ said = "failed" <=> pc[c] = "failing"
  <2>1. CASE pc[c] = "blocking"
    BY <2>1
  <2>2. CASE pc[c] = "reporting"
    BY <2>2
  <2>3. CASE pc[c] = "failing"
    BY <2>3
  <2> QED
    BY <2>1, <2>2, <2>3 DEF Reporting
<1>3. Report(c) = [executed |-> did, status |-> said]
  BY DEF Report
<1> HIDE DEF did, said
<1> QED
  BY <1>1, <1>2, <1>3 DEF Records

\* A report that leaves the call somewhere, confirmed or lost.
LEMMA ReportedKeeps ==
    ASSUME ActionInv, NEW c \in Calls, pc[c] \in Reporting,
           NEW rows, rows \in {execs[c], Appended("executions", execs[c], Report(c))},
           execs' = [execs EXCEPT ![c] = rows],
           NEW to \in {"returned", "threw", "failing"}, pc' = [pc EXCEPT ![c] = to],
           NEW gone \in BOOLEAN, lost' = [lost EXCEPT ![c] = gone], lost[c] => gone,
           to = "failing" => pc[c] = "reporting" /\ gone,
           UNCHANGED << client, subs, decs, resols, answers, torn, left, payload, ran >>
    PROVE  ActionInv'
<1> USE DEF ActionInv
<1>0. execs \in [Calls -> Seq(Records)] /\ pc \in [Calls -> Places] /\ lost \in [Calls -> BOOLEAN]
  BY DEF TypeOK, Records
<1>1. CallAt(c) /\ execs[c] \in Seq(Records) /\ Len(execs[c]) \in Nat
  BY <1>0, LenProperties
<1>2. /\ rows \in Seq(Records) /\ Len(rows) \in Nat
      /\ Len(rows) \in {Len(execs[c]), Len(execs[c]) + 1}
      /\ Len(rows) = Len(execs[c]) => rows = execs[c]
      /\ Len(rows) # Len(execs[c]) => rows[Len(execs[c]) + 1] = Report(c)
      /\ ToSet(rows) \subseteq ToSet(execs[c]) \cup {Report(c)}
  <2>1. CASE rows = execs[c]
    BY <1>1, <2>1
  <2>2. CASE rows = Appended("executions", execs[c], Report(c))
    <3>1. Report(c) \in Records
      BY ReportIs
    <3> DEFINE all == Appended("executions", execs[c], Report(c))
    <3>2. /\ all \in Seq(Records) /\ Len(all) \in {Len(execs[c]), Len(execs[c]) + 1}
          /\ Len(all) = Len(execs[c]) => all = execs[c]
          /\ Len(all) # Len(execs[c]) => all[Len(execs[c]) + 1] = Report(c)
          /\ ToSet(all) \subseteq ToSet(execs[c]) \cup {Report(c)}
      BY <1>1, <3>1, AppendedGrows
    <3>3. rows = all
      BY <2>2
    <3> HIDE DEF all
    <3> QED
      BY <3>2, <3>3, LenProperties
  <2> QED
    BY <2>1, <2>2
<1>3. /\ execs'[c] = rows /\ pc'[c] = to /\ lost'[c] = gone
      /\ \A other \in Calls \ {c} :
            pc'[other] = pc[other] /\ execs'[other] = execs[other] /\ lost'[other] = lost[other]
  BY <1>0
<1>4. TypeOK'
  <2>1. execs' \in [Calls -> Seq(Records)]
    BY <1>0, <1>2
  <2>2. pc' \in [Calls -> Places] /\ lost' \in [Calls -> BOOLEAN]
    BY <1>0 DEF Places
  <2> QED
    BY <2>1, <2>2 DEF TypeOK, Records
<1>5. ran[c] # NotRun => Warranted(c, ran[c].payload)'
  BY <1>1 DEF CallAt, Warranted, SettledBy
<1>6. pc[c] = "blocking" => ran[c] = NotRun /\ execs[c] = << >>
  BY <1>1 DEF CallAt
<1>7. pc[c] = "reporting" => ran[c].how = "done" /\ ran[c] # NotRun /\ execs[c] = << >>
  BY <1>1 DEF CallAt, NotRun
<1>8. pc[c] = "failing" => ran[c] # NotRun /\ (ran[c].how = "done" => lost[c])
  BY <1>1 DEF CallAt
<1>9. Len(execs[c]) <= 1
  BY <1>1, <1>6, <1>7, NoRows DEF CallAt, Reporting
<1>10. Honest(c)'
  <2>1. \A e \in ToSet(execs[c]) : /\ e.executed => ran[c] # NotRun
                                   /\ e.status = "blocked" => ran[c] = NotRun
                                   /\ e.status = "failed" => ran[c] # NotRun
    BY <1>1 DEF CallAt, Honest
  <2>2. /\ Report(c).executed => ran[c] # NotRun
        /\ Report(c).status = "blocked" => ran[c] = NotRun
        /\ Report(c).status = "failed" => ran[c] # NotRun
    BY <1>6, <1>7, <1>8, ReportIs
  <2> QED
    BY <1>2, <1>3, <2>1, <2>2 DEF Honest
<1>11. Contradicted(c)'
  <2>1. Len(rows) <= 2
    BY <1>1, <1>2, <1>9
  <2>2. ASSUME rows # << >>, ran[c].how = "done", Last(rows).status # "succeeded"
        PROVE  gone
    <3>1. CASE rows = execs[c]
      BY <1>1, <2>2, <3>1 DEF CallAt, Contradicted
    <3>2. CASE rows # execs[c]
      <4>1. Len(rows) = Len(execs[c]) + 1
        BY <1>2, <3>2
      <4>2. Last(rows) = Report(c)
        BY <1>1, <1>2, <4>1 DEF Last
      <4>3. pc[c] # "reporting"
        BY <2>2, <4>2, ReportIs DEF Report
      <4>4. pc[c] # "blocking"
        BY <1>6, <2>2 DEF NotRun
      <4> QED
        BY <1>8, <2>2, <4>3, <4>4 DEF Reporting
    <3> QED
      BY <3>1, <3>2
  <2> QED
    BY <1>3, <2>1, <2>2 DEF Contradicted
<1>12. CallAt(c)'
  <2>1. to = "failing" => ran[c] # NotRun /\ Len(rows) <= 1
    BY <1>1, <1>2, <1>7, NoRows
  <2> QED
    BY <1>3, <1>5, <1>10, <1>11, <2>1 DEF CallAt
<1> QED
  BY <1>3, <1>4, <1>12, OneMoves

LEMMA ReportKeeps ==
    ASSUME ActionInv, NEW c \in Calls, NEW served \in BOOLEAN, Reports(c) \/ ReportLost(c, served)
    PROVE  ActionInv'
<1>0. /\ execs \in [Calls -> Seq(Records)] /\ lost \in [Calls -> BOOLEAN]
      /\ pc[c] \in Reporting
      /\ UNCHANGED << client, subs, decs, resols, answers, torn, left, payload, ran >>
  BY DEF ActionInv, TypeOK, Records, Reports, ReportLost
<1>1. CASE Reports(c)
  <2>1. PICK to \in {"threw", "returned"} : pc' = [pc EXCEPT ![c] = to]
    BY <1>1 DEF Reports, Goto
  <2>2. execs' = [execs EXCEPT ![c] = Appended("executions", execs[c], Report(c))]
    BY <1>1 DEF Reports
  <2>3. lost' = [lost EXCEPT ![c] = lost[c]] /\ lost[c] \in BOOLEAN
    BY <1>0, <1>1 DEF Reports
  <2> QED
    BY <1>0, <2>1, <2>2, <2>3, ReportedKeeps
<1>2. CASE ReportLost(c, served)
  <2>1. PICK to \in {"threw", "failing"} :
            pc' = [pc EXCEPT ![c] = to] /\ (to = "failing" => pc[c] = "reporting")
    BY <1>2 DEF ReportLost, Goto
  <2>2. PICK rows \in {execs[c], Appended("executions", execs[c], Report(c))} :
            execs' = [execs EXCEPT ![c] = rows]
    <3>1. served => execs' = [execs EXCEPT ![c] = Appended("executions", execs[c], Report(c))]
      BY <1>2 DEF ReportLost
    <3>2. ~served => execs' = [execs EXCEPT ![c] = execs[c]]
      BY <1>0, <1>2 DEF ReportLost
    <3> QED
      BY <3>1, <3>2
  <2>3. lost' = [lost EXCEPT ![c] = TRUE]
    BY <1>2 DEF ReportLost
  <2> QED
    BY <1>0, <2>1, <2>2, <2>3, ReportedKeeps
<1> QED
  BY <1>1, <1>2

\* What people and the host do adds to the files and spoils them, and moves no
\* call.
LEMMA ResolveKeeps ==
    ASSUME ActionInv, NEW c \in Calls, NEW v \in Verdicts, NEW p \in Payloads, Resolve(c, v, p)
    PROVE  ActionInv'
<1> DEFINE row == [call |-> c, verdict |-> v, payload |-> p]
<1>1. resols \in Seq(Rows) /\ row \in Rows /\ row.verdict = v
  BY DEF ActionInv, TypeOK, Rows
<1>2. /\ resols' = Appended("resolutions", resols, row) /\ v \notin Sayings
      /\ UNCHANGED << client, subs, decs, answers, execs, torn, pc, left, payload, ran, lost >>
  BY DEF Resolve
<1> HIDE DEF row
<1>3. /\ resols' \in Seq(Rows) /\ ToSet(resols) \subseteq ToSet(resols')
      /\ ToSet(resols') \subseteq ToSet(resols) \cup {row}
  BY <1>1, <1>2, AppendedGrows
<1>4. TypeOK'
  BY <1>2, <1>3 DEF ActionInv, TypeOK, Rows
<1>5. SaidByTheirs'
  BY <1>1, <1>2, <1>3 DEF ActionInv, SaidByTheirs, Governed, Sayings
<1>6. \A other \in Calls : CallAt(other)'
  BY <1>2, <1>3, CallAtKept DEF ActionInv
<1> QED
  BY <1>4, <1>5, <1>6 DEF ActionInv

LEMMA OthersKeep ==
    ASSUME ActionInv,
           \/ \E c \in Calls : AnswerClarification(c)
           \/ \E f \in Tearable : Tear(f)
           \/ UNCHANGED vars
    PROVE  ActionInv'
<1>1. /\ UNCHANGED << client, subs, decs, resols, execs, pc, left, payload, ran, lost >>
      /\ torn \subseteq torn' /\ torn' \subseteq torn \cup Tearable
      /\ answers \subseteq answers' /\ answers' \subseteq answers \cup Calls
  BY DEF AnswerClarification, Tear, vars
<1>2. TypeOK'
  BY <1>1, FilesAssumption DEF ActionInv, TypeOK
<1>3. SaidByTheirs'
  BY <1>1 DEF ActionInv, SaidByTheirs, Governed
<1>4. \A c \in Calls : CallAt(c)'
  BY <1>1, CallAtKept DEF ActionInv
<1> QED
  BY <1>2, <1>3, <1>4 DEF ActionInv

LEMMA ActionStep == ActionInv /\ [Next]_vars => ActionInv'
<1> SUFFICES ASSUME ActionInv, [Next]_vars PROVE ActionInv'
  OBVIOUS
<1>1. ASSUME NEW c \in Calls, NEW d \in Decisions,
             Submit(c, d) \/ SubmitAnswerLost(c, d) \/ SubmitLost(c)
      PROVE  ActionInv'
  BY <1>1, SubmitKeeps
<1>2. ASSUME NEW c \in Calls, Poll(c) \/ PollFails(c) \/ Deadline(c) PROVE ActionInv'
  BY <1>2, PollKeeps
<1>3. ASSUME NEW c \in Calls, NEW how \in {"done", "broke"}, Execute(c, how) PROVE ActionInv'
  BY <1>3, ExecuteKeeps
<1>4. ASSUME NEW c \in Calls, SummaryThrows(c) PROVE ActionInv'
  BY <1>4, SummaryKeeps
<1>5. ASSUME NEW c \in Calls, NEW served \in BOOLEAN, Reports(c) \/ ReportLost(c, served)
      PROVE  ActionInv'
  BY <1>5, ReportKeeps
<1>6. ASSUME NEW c \in Calls, NEW v \in Verdicts, NEW p \in Payloads, Resolve(c, v, p)
      PROVE  ActionInv'
  BY <1>6, ResolveKeeps
<1>7. CASE \/ \E c \in Calls : AnswerClarification(c)
           \/ \E f \in Tearable : Tear(f)
           \/ UNCHANGED vars
  BY <1>7, OthersKeep
<1>8. "allow" \in Decisions /\ TRUE \in BOOLEAN
  BY DEF Decisions
<1> QED
  BY <1>1, <1>2, <1>3, <1>4, <1>5, <1>6, <1>7, <1>8 DEF Next

LEMMA ActionInvariance == Spec => []ActionInv
  BY ActionStart, ActionStep, PTL DEF Spec

----------------------------------------------------------------------------
\* RunsAsDecided, for any calls, keys and deadlines: an action ran only because
\* the plane allowed that submission, or because a person approved or edited it
\* or one with its review key, and it ran with the payload that person settled on
\* (executeGovernedAction, executeReviewedAction, and the stores' lookups).
THEOREM RunsOnlyAsDecided == Spec => []RunsAsDecided
  BY ActionInvariance, InvImplies, PTL

\* RecordsHold, for any calls, keys and deadlines: no record of an execution
\* without a run, no run of what is recorded as blocked, a completed action is
\* last recorded as anything but a success only when a report of it was lost, and
\* a call that waits is on the list people work from (reportExecution,
\* listPendingReviews).
THEOREM RecordsAreHonest == Spec => []RecordsHold
  BY ActionInvariance, InvImplies, PTL
=============================================================================
