\* Three PATCHes of one lineage.
SPECIFICATION Spec
CONSTANTS
    r1 = r1
    r2 = r2
    r3 = r3
    t1 = t1
    t2 = t2
    sales = sales
    stock = stock
    None = None
    Requests = {r1, r2, r3}
    Templates = {t1}
    Names = {sales}
    Seeded <- MCSeeded
SYMMETRY MCSymmetry
INVARIANT
    PatchesSerialize
CHECK_DEADLOCK FALSE
