SPECIFICATION QuotaSpec
CONSTANTS
    c1 = c1
    c2 = c2
    c3 = c3
    Calls = {c1, c2, c3}
    Stores = {"memory", "redis"}
    Rate = 1
    PerDay = 1
    Second = 2
    Day = 6
    MaxTime = 7
SYMMETRY CallSymmetry
CHECK_DEADLOCK FALSE
INVARIANTS SecondHolds DailyUntilLastSecond
