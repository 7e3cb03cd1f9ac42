\* Routing to the archive and the dead letter queue; a becomes late as time passes,
\* a batch with anon is refused.
SPECIFICATION Spec
CONSTANTS
    a = a
    b = b
    c = c
    bad = bad
    anon = anon
    btc = btc
    NoSymbol = NoSymbol
    events = {a, bad, anon}
    Event <- MCEvent
    SymbolOf <- MCSymbolOf
    TimeOf <- MCTimeOf
    Malformed <- MCMalformed
    WindowLen = 3
    WatermarkDelay = 0
    LateAfter = 0
    MaxSkew = 3
    Second = 2
    KeepsPlanned = FALSE
    StartingOffsets = "latest"
    MaxLog = 2
    MaxDeleted = 1
    MaxNow = 2
    MaxFaults = 1
    MaxCopies = 1
INVARIANTS
    TypeOK
    EveryRecordRouted
    RawOrDlqNotBoth
PROPERTIES
    DroppedForCause
    RefusedBatchStays
CHECK_DEADLOCK FALSE
