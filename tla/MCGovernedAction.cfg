CONSTANTS
    c1 = c1
    c2 = c2
    Calls = {c1, c2}
    KeyOf <- OneKey
    Waits = {c1}
    Polls = 1
    MaxResolutions = 2
    Tearable = {"decisions", "resolutions"}
    MaxTears = 1
SPECIFICATION Spec
CHECK_DEADLOCK FALSE
INVARIANTS RunsAsDecided RecordsHold
PROPERTIES CallEnds
