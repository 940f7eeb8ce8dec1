\* Two concurrent requests of any kind, with any token, on a good or a bad engine.
SPECIFICATION Spec
CONSTANTS
    r1 = r1
    r2 = r2
    ta = ta
    tb = tb
    m1 = m1
    m2 = m2
    d1 = d1
    d2 = d2
    None = None
    Requests = {r1, r2}
    Tenants = {ta, tb}
    Templates = {m1, m2}
    Tokens <- MCTokens
    Seeded <- MCSeeded
    Drafts = {d1, d2}
    Keys <- MCKeys
    Edits <- MCEdits
SYMMETRY MCSymmetry
INVARIANTS
    AnswersStayInScope
    WritesAreActedFor
    LineageHasOneTenant
    PublishedIsRatified
PROPERTY
    PublishedIsFrozen
CHECK_DEADLOCK FALSE
