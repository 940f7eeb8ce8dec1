\* A parked sale and the catalogue it waits for.
SPECIFICATION Spec
CONSTANTS
    c1 = c1
    c2 = c2
    cat = cat
    sale = sale
    corr = corr
    change = change
    price = price
    qty = qty
    None = None
    Consumers = {c1}
    Chunks = {cat, sale}
    EventChunks = {sale}
    Complete = {cat}
    Rows <- MCRowsLate
    Skus = {1}
    Columns = {price, qty}
    BatchSize = 1
INVARIANT
    ParkedMergeSucceeds
CHECK_DEADLOCK FALSE
