CONSTANTS
    t1 = t1
    t2 = t2
    t3 = t3
    i1 = i1
    o1 = o1
    o2 = o2
    read = read
    write = write
    x = x
    y = y
    r1 = r1
    r2 = r2
    ToolCalls = {t1, t2, t3}
    ToolOf <- TheTools
    Received = {i1}
    Sent = {o1, o2}
    ContentOf <- TheContents
    PolicyOf <- ThePolicies
    Revisions = {r1, r2}
    Setups <- TheSetups
    clean = clean
    role = role
    number = number
    secret = secret
    Pieces = {clean, role, number, secret}
    MatchOf <- TheMatches
    SubjectOf <- TheSubjects
    RuleHits <- TheHits
    MaxFindings = 2
    DenyAt = 85
    EscalateAt = 45
    MaxDescribed = 3
    Payloads <- ThePayloads
    ReportOf <- TheReports
    MaxLapses = 1
    MaxMisses = 1
SPECIFICATION HooksSpec
CHECK_DEADLOCK FALSE
INVARIANTS PermitsTaken  NeverOlderLists MessagesHeld 
