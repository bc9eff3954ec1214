----------------------------- MODULE ContentGuard -----------------------------
(***************************************************************************)
(* What the guards find in a content: AgentGuard of                        *)
(* src/src/middleware/agentGuard.ts, the compliance packs of a policy      *)
(* (compliance.ts, and its twin in integrations/openclaw/moltbot.ts), and  *)
(* the hosted scanners of adapters/agentGuardAdapters.ts.                  *)
(*                                                                         *)
(* A content is a sequence of pieces, the strings a payload holds.  Of a   *)
(* piece the model knows which families of patterns match it, what kind of *)
(* personal data it shows, and what the rules of the packs make of it.     *)
(***************************************************************************)
EXTENDS Naturals, Sequences, SequencesExt

CONSTANTS
    Pieces,       \* the strings there are
    MatchOf,      \* MatchOf[p]: the families whose patterns match a string
    SubjectOf,    \* SubjectOf[p]: the personal data in it
    RuleHits,     \* RuleHits[p]: rules whose patterns, or whose judge, match it
    MaxFindings   \* findings one scan of the packs may add: 50

Families   == <<"agent_prompt_injection", "agent_pii", "agent_secret", "agent_command_unsafe",
                "agent_toxic_content", "agent_malicious_code", "agent_policy_violation",
                "agent_data_exfil">>
Codes      == ToSet(Families)
Subjects   == {"email", "mailbox", "phone", "ssn", "card", "none"}
Severities == <<"unknown", "low", "medium", "high", "critical">>
Hints      == {"prerequisite", "commitment", "disclosure"}

ASSUME ContentAssumption ==
    /\ MatchOf \in [Pieces -> SUBSET Codes]
    /\ SubjectOf \in [Pieces -> Subjects]
    /\ MaxFindings \in Nat \ {0}

Rank(severity) == CHOOSE n \in 1 .. Len(Severities) : Severities[n] = severity

FindingRecords ==
    [code : Codes \cup {"agent_unknown"}, severity : ToSet(Severities),
     subject : Subjects, hints : SUBSET Hints]

\* The elements of a sequence to keep, in their order.
Filtered(s, Keep(_)) == FlattenSeq([n \in DOMAIN s |-> IF Keep(s[n]) THEN <<s[n]>> ELSE <<>>])

\* An element of Families, found in a piece, as the scan of one location names it.
SeverityOf(code) ==
    CASE code = "agent_secret" -> "critical"
      [] code \in {"agent_pii", "agent_toxic_content", "agent_policy_violation"} -> "medium"
      [] OTHER -> "high"

Finding(code, severity, piece) ==
    [code |-> code, severity |-> severity, subject |-> SubjectOf[piece], hints |-> {}]

\* An answer is not scanned for what only harms its reader.
Scanned(location) ==
    IF location = "input" THEN Codes
    ELSE Codes \ {"agent_prompt_injection", "agent_command_unsafe"}

\* The patterns of each family, family by family, over one piece.
PatternFindings(piece, location) ==
    LET matched == Filtered(Families, LAMBDA f : f \in MatchOf[piece] \cap Scanned(location))
    IN  [n \in DOMAIN matched |-> Finding(matched[n], SeverityOf(matched[n]), piece)]

----------------------------------------------------------------------------
(***************************************************************************)
(* The compliance packs.  A pack is a sequence of rules                    *)
(*   [id, type, location, severity, complete, hints]                       *)
(* where complete says that it has an instruction, or a pattern that       *)
(* compiles; hints is what its wording tells the evaluator.                *)
(***************************************************************************)
RuleRecords ==
    [id : STRING, type : {"", "regex", "nl", "other"}, complete : BOOLEAN,
     location : {"input", "output", "both", "run", "other"},
     severity : {"low", "medium", "high", "critical", "other"},
     hints : SUBSET Hints]

\* A rule as it is compiled: what is not named is for both directions, medium.
Compiled(rule) ==
    [rule EXCEPT !.type = IF @ = "" THEN "regex" ELSE @,
                 !.location = IF @ \in {"input", "output", "both", "run"} THEN @ ELSE "both",
                 !.severity = IF @ \in {"low", "medium", "high", "critical"} THEN @ ELSE "medium"]

Compiles(rule) == rule.type \in {"regex", "nl", ""} /\ rule.complete

RulesOf(pack) ==
    LET kept == Filtered(pack, Compiles) IN [n \in DOMAIN kept |-> Compiled(kept[n])]

\* The rules in force: of each pack an enabled policy names, as often as named.
Apps(compliance) ==
    LET enabled == Filtered(compliance.policies, LAMBDA p : p.enabled)
        known   == [n \in DOMAIN enabled |->
                      Filtered(enabled[n].packs, LAMBDA id : id \in DOMAIN compliance.packs)]
        ids     == FlattenSeq(known)
    IN  FlattenSeq([n \in DOMAIN ids |-> RulesOf(compliance.packs[ids[n]])])

NeedsJudge(apps) == \E n \in DOMAIN apps : apps[n].type = "nl"

\* Whether a rule matches a text: a judge that is not configured, times out or
\* answers nonsense has not matched.
Matches(rule, text, judging) ==
    /\ rule.id \in UNION {RuleHits[text[n]] : n \in DOMAIN text}
    /\ rule.type = "nl" => judging

\* Rules for both directions are not rules for a run.
Due(rule, location) ==
    rule.location = location \/ (rule.location = "both" /\ location # "run")

PackFindings(apps, text, location, judging) ==
    LET found == Filtered(apps, LAMBDA r : Due(r, location) /\ Matches(r, text, judging))
        few   == SubSeq(found, 1, IF Len(found) > MaxFindings THEN MaxFindings ELSE Len(found))
    IN  [n \in DOMAIN few |->
           [code |-> "agent_policy_violation", severity |-> few[n].severity,
            subject |-> "none", hints |-> few[n].hints]]

----------------------------------------------------------------------------
(***************************************************************************)
(* The guard.  Its options are                                             *)
(*   [enabled, severity, count, apps, hosted]                              *)
(* with the rules in force, and what a hosted scanner reports of each      *)
(* piece.  Who is up is a subset of {"judge", "scanner"}: what does not    *)
(* answer has found nothing.                                               *)
(***************************************************************************)
\* A report of the scanner in the guard's own terms.
Reported(report, location) ==
    [code |-> IF report.code \in Codes \cup {"agent_unknown"} THEN report.code
              ELSE IF location = "input" THEN "agent_prompt_injection" ELSE "agent_pii",
     severity |-> IF report.severity \in ToSet(Severities) THEN report.severity ELSE "unknown",
     subject |-> "none", hints |-> {}]

HostedFindings(guard, text, location) ==
    LET reports == FlattenSeq([n \in DOMAIN text |-> guard.hosted[text[n]]])
    IN  [n \in DOMAIN reports |-> Reported(reports[n], location)]

\* A policy with packs of rules has them scan next to the hosted scanner.
Scan(guard, text, location, up) ==
    LET built  == FlattenSeq([n \in DOMAIN text |-> PatternFindings(text[n], location)])
        hosted == IF "scanner" \in up THEN HostedFindings(guard, text, location) ELSE <<>>
        packs  == PackFindings(guard.apps, text, location, "judge" \in up)
    IN  CASE ~guard.enabled      -> <<>>
          [] location = "run"    -> packs
          [] OTHER               -> built \o hosted \o packs

\* By the worst finding, or by their number, where the options say so.
ShouldBlock(guard, findings) ==
    /\ guard.enabled /\ findings # <<>>
    /\ \/ \E n \in DOMAIN findings, worst \in guard.severity :
             Rank(findings[n].severity) >= Rank(worst)
       \/ \E most \in guard.count : Len(findings) >= most
=============================================================================
