------------------------------ MODULE Approval ------------------------------
(***************************************************************************)
(* What guard.execute promises about actions that may need a person.  An   *)
(* action runs once at most: when its policy alone cleared it, or when it  *)
(* was put before a reviewer and the call itself heard that it was         *)
(* approved.  A verdict is final.  All who wait for it hear the same at    *)
(* once: the verdict, or that none came.  A call that is over runs nothing *)
(* any more, whatever a reviewer says later.                               *)
(* GuardEscalation implements this with polling loops and errors.          *)
(***************************************************************************)
CONSTANTS
    Calls,     \* the guarded actions
    Callers,   \* who may wait for a verdict, the calls among them
    NoCall,    \* a value that is no call
    Verdicts   \* what reviewers say, "approved" among it

VARIABLES
    phase,     \* how far each call is
    verdict,   \* what the reviewer said of each action put before one
    waits,     \* the call whose verdict each caller waits for
    heard,     \* what each caller heard
    ran        \* calls whose action ran

vars == << phase, verdict, waits, heard, ran >>

Init ==
    /\ phase = [c \in Calls |-> "open"]
    /\ verdict = [c \in Calls |-> "none"]
    /\ waits = [w \in Callers |-> NoCall]
    /\ heard = [w \in Callers |-> "none"]
    /\ ran = {}

Enter(c, p) == phase' = [phase EXCEPT ![c] = p]

\* The policy alone lets the action run, or wants a reviewer to see it.
Judge(c) ==
    /\ phase[c] = "open"
    /\ Enter(c, "cleared") \/ Enter(c, "put")
    /\ UNCHANGED << verdict, waits, heard, ran >>

\* A reviewer gets to see the action.  The call may not learn that.
File(c) ==
    /\ phase[c] = "put" /\ verdict[c] = "none"
    /\ verdict' = [verdict EXCEPT ![c] = "pending"]
    /\ Enter(c, "put") \/ Enter(c, "over")
    /\ UNCHANGED << waits, heard, ran >>

Decide(c) ==
    /\ verdict[c] = "pending"
    /\ \E v \in Verdicts : verdict' = [verdict EXCEPT ![c] = v]
    /\ UNCHANGED << phase, waits, heard, ran >>

\* A call waits only for its own verdict.
Wait(w, c) ==
    /\ waits[w] = NoCall /\ heard[w] = "none"
    /\ w \in Calls => w = c /\ phase[c] = "put"
    /\ waits' = [waits EXCEPT ![w] = c]
    /\ UNCHANGED << phase, verdict, heard, ran >>

Hear(c, what) ==
    /\ what \in {"nothing"} \cup {v \in Verdicts : v = verdict[c]}
    /\ heard' = [w \in Callers |-> IF waits[w] = c THEN what ELSE heard[w]]
    /\ waits' = [w \in Callers |-> IF waits[w] = c THEN NoCall ELSE waits[w]]
    /\ UNCHANGED << phase, verdict, ran >>

Run(c) ==
    /\ \/ phase[c] = "cleared"
       \/ phase[c] = "put" /\ heard[c] = "approved"
    /\ c \notin ran
    /\ ran' = ran \cup {c}
    /\ Enter(c, "over")
    /\ UNCHANGED << verdict, waits, heard >>

GiveUp(c) ==
    /\ Enter(c, "over")
    /\ UNCHANGED << verdict, waits, heard, ran >>

Next ==
    \/ \E c \in Calls : Judge(c) \/ File(c) \/ Decide(c) \/ Run(c) \/ GiveUp(c)
    \/ \E w \in Callers, c \in Calls : Wait(w, c)
    \/ \E c \in Calls, what \in {"nothing"} \cup Verdicts : Hear(c, what)

Spec == Init /\ [][Next]_vars
=============================================================================
