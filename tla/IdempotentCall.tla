--------------------------- MODULE IdempotentCall ---------------------------
(***************************************************************************)
(* What the gateway promises the callers of one idempotency key: the tool  *)
(* is run for at most one call in each lifetime of the key, and a caller   *)
(* who is told a result is told the result of a run that took place: its   *)
(* own or, for a duplicate, somebody else's.  A caller may always be       *)
(* refused.  GatewayPipeline implements this for the calls that write.     *)
(***************************************************************************)
EXTENDS Integers

CONSTANTS Calls,      \* the calls that carry the key
          Ungranted,  \* a value that is no lifetime of the key
          Untold      \* a value that is no call: "no result"

VARIABLES lease,      \* the current lifetime of the key
          granted,    \* the lifetime whose single run a call was granted
          ran,        \* calls whose run took place
          told        \* whose result each caller was told

vars == << lease, granted, ran, told >>

Init ==
    /\ lease = 0
    /\ granted = [c \in Calls |-> Ungranted]
    /\ ran = {}
    /\ told = [c \in Calls |-> Untold]

\* The current lifetime's one run goes to c.
Grant(c) ==
    /\ granted[c] = Ungranted
    /\ \A d \in Calls : granted[d] # lease
    /\ granted' = [granted EXCEPT ![c] = lease]
    /\ UNCHANGED << lease, ran, told >>

Run(c) ==
    /\ granted[c] # Ungranted
    /\ c \notin ran
    /\ ran' = ran \cup {c}
    /\ UNCHANGED << lease, granted, told >>

\* A caller hears a result once.  A call that was granted a run hears its own.
Tell(c, d) ==
    /\ told[c] = Untold
    /\ d \in ran
    /\ granted[c] # Ungranted => c = d
    /\ told' = [told EXCEPT ![c] = d]
    /\ UNCHANGED << lease, granted, ran >>

Renew ==
    /\ lease' = lease + 1
    /\ UNCHANGED << granted, ran, told >>

Next ==
    \/ \E c \in Calls : Grant(c) \/ Run(c)
    \/ \E c, d \in Calls : Tell(c, d)
    \/ Renew

Spec == Init /\ [][Next]_vars
============================================================================
