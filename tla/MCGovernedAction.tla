------------------------- MODULE MCGovernedAction -------------------------
(* Two calls whose submissions have one review key, of which one waits.    *)
EXTENDS GovernedAction
CONSTANTS c1, c2
OneKey == [c \in Calls |-> "k"]
===========================================================================
