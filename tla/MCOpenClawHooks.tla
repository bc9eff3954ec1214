--------------------------- MODULE MCOpenClawHooks ---------------------------
(* Two calls of one tool, a call of another; an incoming and two outgoing  *)
(* messages; three policies, the second one malformed, the third one with  *)
(* rules of its own, one of which needs a judge.                           *)
EXTENDS OpenClawHooks
CONSTANTS t1, t2, t3, i1, o1, o2, read, write, x, y, r1, r2,
          clean, role, number, secret

TheTools == [c \in {t1, t2, t3} |-> IF c = t3 THEN write ELSE read]
TheContents == [m \in {i1, o1, o2} |-> IF m = o2 THEN y ELSE x]

TheMatches == [p \in {clean, role, number, secret} |->
    CASE p = clean -> {} [] p = role -> {"agent_pii"} [] p = number -> {"agent_pii"}
      [] p = secret -> {"agent_secret"}]
TheSubjects == [p \in {clean, role, number, secret} |->
    CASE p = role -> "mailbox" [] p = number -> "phone" [] OTHER -> "none"]
TheHits == [p \in {clean, role, number, secret} |-> IF p = number THEN {"r", "n"} ELSE {}]
TheReports == [p \in {clean, role, number, secret} |->
    IF p = role THEN <<[code |-> "toxic", severity |-> "moderate"]>> ELSE <<>>]

Plain == [text |-> <<clean>>, writes |-> FALSE, outside |-> FALSE, justification |-> "concrete",
          needed |-> {}, unresolved |-> FALSE, rank |-> -1, granted |-> {}, approvals |-> {},
          routing |-> FALSE, patch |-> <<>>, valid |-> TRUE]
Payload(text, patch) == [Plain EXCEPT !.text = text, !.patch = patch, !.writes = TRUE]
ThePayloads ==
    {Plain,
     [Payload(<<role>>, <<>>) EXCEPT !.routing = TRUE, !.justification = "short"],
     [Payload(<<number>>, <<>>) EXCEPT !.outside = TRUE, !.justification = "none",
                                      !.unresolved = TRUE, !.needed = {"ok"}],
     [Payload(<<role, secret>>, [unclear |-> TRUE]) EXCEPT !.granted = {"write"}, !.rank = 2],
     [Payload(<<clean>>, [allowed |-> {"away"}]) EXCEPT !.unresolved = TRUE],
     [Plain EXCEPT !.valid = FALSE]}

NoRules == [packs |-> [id \in {"pack"} |-> <<>>], policies |-> <<>>]
Rule(id, type) == [id |-> id, type |-> type, complete |-> TRUE, location |-> "other",
                   severity |-> "low", hints |-> {"disclosure"}]
SomeRules == [packs |-> [id \in {"pack"} |-> <<Rule("r", ""), Rule("n", "nl")>>],
              policies |-> <<[enabled |-> TRUE, packs |-> <<"pack">>]>>]
AnyFinding == [enabled |-> TRUE, severity |-> {"high"}, count |-> {1}, compliance |-> NoRules]

Strict == [deny |-> Reasons, escalate |-> {"agent_guard_failed"}, human |-> FALSE,
           tools |-> {read, write}, form |-> "good", guard |-> AnyFinding]
ThePolicies ==
    <<Strict,
      [Strict EXCEPT !.deny = {"agent_guard_failed"}, !.form = "bad_allowlist"],
      [Strict EXCEPT !.human = TRUE, !.tools = {write},
                     !.deny = {"agent_guard_failed", "skill_scan_failed"},
                     !.guard = [AnyFinding EXCEPT !.count = {2}, !.compliance = SomeRules]]>>

Local == [source |-> "local", mode |-> "sync"]
Hosted1(mode, hooks) ==
    [source |-> "control_plane", mode |-> mode, approval |-> "human", waits |-> TRUE,
     hooks |-> hooks, judge |-> TRUE, manager |-> Local]
TheSetups ==
    {[Hosted1("enforce", {t1, t2}) EXCEPT !.manager.source = "disabled"],
     [Hosted1("enforce", {t1, t3}) EXCEPT !.source = "local"],
     Hosted1("enforce", {t1}),
     Hosted1("enforce", {i1, o1}), Hosted1("observe", {t1, o1}),
     [Hosted1("enforce", {o1, o2}) EXCEPT !.waits = FALSE],
     [Hosted1("enforce", {o1}) EXCEPT !.approval = "auto_reject", !.judge = FALSE],
     [Hosted1("enforce", {o1}) EXCEPT !.approval = "auto_approve",
                                     !.manager.source = "control-plane"],
     [Hosted1("enforce", {t1, t2}) EXCEPT !.source = "local", !.manager.mode = "async"]}
=============================================================================
