SPECIFICATION LogSpec
CONSTANTS
    a1 = a1
    a2 = a2
    f1 = f1
    day1 = day1
    day2 = day2
    Appends = {a1,a2}
    Agents = {a2}
    Flushes = {f1}
    Files = {day1, day2}
    Nonced = {day1, day2}
    Uploads = {a1, a2, f1}
    DateOf <- MCDateOf
    NoDate = none
    NoUpload = none
    MaxAttempts = 2
    MaxLines = 2
    MaxRestarts = 1
    MaxBreaks = 1
CHECK_DEADLOCK FALSE
INVARIANTS LinesKept
PROPERTIES  FlushEnds
