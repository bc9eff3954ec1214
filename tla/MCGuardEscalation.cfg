SPECIFICATION Spec
CONSTANTS
    c1 = c1
    w1 = w1
    w2 = w2
    clean = clean
    mail = mail
    secret = secret
    Calls = {c1}
    Watchers = {w1, w2}
    NoCaller = nobody
    NoCall = none
    MaxRetries = 1
    Questions <- TheQuestions
    Covers <- TheCovers
    Pieces = {clean, mail, secret}
    MatchOf <- TheMatches
    SubjectOf <- TheSubjects
    RuleHits <- NoHits
    MaxFindings = 2
CHECK_DEADLOCK FALSE
INVARIANTS GuardHolds
PROPERTIES EveryWaitEnds KeepsApprovals
