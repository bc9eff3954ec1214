------------------------- MODULE MCPolicyResolution -------------------------
(* A tool of node a and a guard without a node; what a has may be empty.    *)
EXTENDS PolicyResolution
CONSTANTS a, base, t, g
TheNodes == [c \in {t, g} |-> IF c = t THEN a ELSE base]
TheTexts == {[n \in {a, base} |-> IF n = a THEN x ELSE "q"] : x \in {"empty", "p"}}
=============================================================================
