SPECIFICATION Spec
CONSTANTS
    u1 = u1
    u2 = u2
    u3 = u3
    f1 = f1
    Files = {f1}
    Nonced = {f1}
    Uploads = {u1, u2, u3}
    NoUpload = none
    MaxAttempts = 2
    MaxLines = 2
    MaxRestarts = 1
CHECK_DEADLOCK FALSE
INVARIANTS NothingSkipped SuccessMeansStored
PROPERTIES EveryUploadEnds
