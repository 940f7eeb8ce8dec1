\* Two consumers, a catalogue and a sales chunk that needs it, one fault in either.
SPECIFICATION FairSpec
CONSTANTS
    c1 = c1
    c2 = c2
    cat = cat
    sale = sale
    Consumers = {c1, c2}
    Chunks = {cat, sale}
    FaultMaps <- MCFaultMaps
    Needs <- MCNeeds
INVARIANTS
    TypeOK
    AckedIsKept
    HeldIsUnwritten
    TrailIsTrue
PROPERTIES
    ImplementsDelivery
    Settles
