CONSTANTS
    h1 = h1
    h2 = h2
    h3 = h3
    None = None
    Outside = Outside
    Hops <- MCHops
    Setups <- MCSetups
    Listed = {"listed"}
    Unlisted = {"unlisted"}
CHECK_DEADLOCK FALSE
SPECIFICATION Spec
INVARIANTS DealtWithOnce CausesKept
