CONSTANTS
    a = a
    base = base
    t = t
    g = g
    Nodes = {a, base}
    Base = base
    Texts = {"empty", "p", "q"}
    FirstTexts <- TheTexts
    Tools = {t}
    Guards = {g}
    NodeOf <- TheNodes
    TTL = 1
    MaxFlight = 1
    MaxPublish = 1
SPECIFICATION Spec
INVARIANTS StaleAtMost PoliciesKept
PROPERTIES NeverBackToLocal Recovers
