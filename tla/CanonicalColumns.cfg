\* Out-of-order rows of one natural key in one batch.
SPECIFICATION Spec
CONSTANTS
    c1 = c1
    c2 = c2
    cat = cat
    sale = sale
    corr = corr
    change = change
    price = price
    qty = qty
    None = None
    Consumers = {c1}
    Chunks = {cat, change}
    EventChunks = {change}
    Complete = {cat}
    Rows <- MCRowsColumns
    Skus = {1}
    Columns = {price, qty}
    BatchSize = 3
INVARIANT
    ColumnLatestWins
CHECK_DEADLOCK FALSE
