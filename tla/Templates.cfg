\* Two templates, two names, three concurrent requests of any kind.
SPECIFICATION Spec
CONSTANTS
    r1 = r1
    r2 = r2
    r3 = r3
    t1 = t1
    t2 = t2
    sales = sales
    stock = stock
    None = None
    Requests = {r1, r2, r3}
    Templates = {t1, t2}
    Names = {sales, stock}
    Seeded <- MCSeeded
SYMMETRY MCSymmetry
INVARIANTS
    OneDraft
    LineageCoherent
    NameHasOneOwner
PROPERTY
    ActiveIsImmutable
CHECK_DEADLOCK FALSE
