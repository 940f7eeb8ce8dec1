\* A file that repeats keys of two earlier files.
SPECIFICATION Spec
CONSTANTS
    c1 = c1
    c2 = c2
    cat = cat
    sale = sale
    corr = corr
    change = change
    price = price
    qty = qty
    None = None
    Consumers = {c1}
    Chunks = {cat, sale, corr, change}
    EventChunks = {sale, corr, change}
    Complete = {cat}
    Rows <- MCRowsPrior
    Skus = {1}
    Columns = {price, qty}
    BatchSize = 2
INVARIANT
    PriorTraceHasTheKey
CHECK_DEADLOCK FALSE
