\* Two consumers, a catalogue and a sales chunk over two natural keys.
SPECIFICATION Spec
CONSTANTS
    c1 = c1
    c2 = c2
    cat = cat
    sale = sale
    corr = corr
    change = change
    price = price
    qty = qty
    None = None
    Consumers = {c1, c2}
    Chunks = {cat, sale}
    EventChunks = {sale}
    Complete = {cat}
    Rows <- MCRows
    Skus = {1, 2}
    Columns = {price, qty}
    BatchSize = 3
SYMMETRY MCSymmetry
INVARIANTS
    TypeOK
    HotHasItsEvents
    HotIsLatestOfBatch
    AckedIsWritten
    NoLockCycle
PROPERTY
    HotTimeMonotone
CHECK_DEADLOCK FALSE
