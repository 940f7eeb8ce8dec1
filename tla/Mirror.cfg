\* Two runners over two tenants, one with a store.
SPECIFICATION FairSpec
CONSTANTS
    r1 = r1
    r2 = r2
    t1 = t1
    t2 = t2
    s1 = s1
    None = None
    Runs = {r1, r2}
    Tenants = {t1, t2}
    Stores = {s1}
    Owner <- MCOwner
    MaxChanges = 3
    MaxFaults = 2
INVARIANTS
    MirrorIsGenuine
    CleanExitIsComplete
PROPERTIES
    OnlyOverlapGoesBack
    Converges
