SPECIFICATION Spec
CONSTANTS
    w1 = w1
    w2 = w2
    r1 = r1
    Requests = {w1, w2, r1}
    Writes = {w1, w2}
    Replaying = {w1, r1}
    NoRequest = none
    Daily = 2
    MaxPolls = 2
    MaxExpiries = 2
    MaxCrashes = 2
CHECK_DEADLOCK FALSE
INVARIANTS OneRunPerLease AnswersHold CallsAccounted
PROPERTIES KeepsPromise EveryCallEnds
