SPECIFICATION Spec
CONSTANTS
    c1 = c1
    c2 = c2
    Calls = {c1, c2}
    Gone = gone
    Possible <- SomeReasons
    Policies <- SomePolicies
    EscalateOn = {"agent_guard_failed", "handler_swap"}
    EvaluatorOn = TRUE
    WindowSize = 2
    MinSamples = 2
    ErrorRate = 50
SYMMETRY EitherCall
INVARIANTS LetThrough ToldAlike GuardsHold
 
