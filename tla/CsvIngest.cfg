\* Two requests, a file of each verdict, a clock that runs past the window.
SPECIFICATION FairSpec
CONSTANTS
    t1 = t1
    t2 = t2
    b1 = b1
    b2 = b2
    good = good
    bad = bad
    pii = pii
    mal = mal
    None = None
    Traces = {t1, t2}
    Keys = {good, bad, pii, mal}
    BronzeIds = {b1, b2}
    Verdict <- MCVerdict
    Window = 1
    MaxTime = 2
    MaxPull = 2
INVARIANTS
    TypeOK
    BronzeFirst
    OneRowPerWindow
    AckedConcluded
    NoSecondPublish
PROPERTY
    Settles
CHECK_DEADLOCK FALSE
