\* The existence check races the onboarding of its key.
SPECIFICATION Spec
CONSTANTS
    c1 = c1
    c2 = c2
    cat = cat
    sale = sale
    corr = corr
    change = change
    price = price
    qty = qty
    None = None
    Consumers = {c1, c2}
    Chunks = {cat, sale}
    EventChunks = {sale}
    Complete = {cat}
    Rows <- MCRowsOnboard
    Skus = {1}
    Columns = {price, qty}
    BatchSize = 1
INVARIANT
    AckedIsReflected
CHECK_DEADLOCK FALSE
