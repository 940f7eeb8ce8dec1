\* The resume of a lost publish on behalf of a retried upload.
SPECIFICATION Spec
CONSTANTS
    t1 = t1
    t2 = t2
    b1 = b1
    b2 = b2
    good = good
    bad = bad
    pii = pii
    mal = mal
    None = None
    Traces = {t1, t2}
    Keys = {good}
    BronzeIds = {b1, b2}
    Verdict <- MCVerdictGood
    Window = 1
    MaxTime = 1
    MaxPull = 2
INVARIANT
    MarkedIsConsumable
CHECK_DEADLOCK FALSE
