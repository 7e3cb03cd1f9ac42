\* A record without a symbol stops the candle query for good.
SPECIFICATION FairSpec
CONSTANTS
    a = a
    b = b
    c = c
    bad = bad
    anon = anon
    btc = btc
    NoSymbol = NoSymbol
    events = {a, anon}
    Event <- MCEvent
    SymbolOf <- MCSymbolOf
    TimeOf <- MCTimeOf
    Malformed <- MCMalformed
    WindowLen = 3
    WatermarkDelay = 0
    LateAfter = 4
    MaxSkew = 4
    Second = 1
    KeepsPlanned = FALSE
    StartingOffsets = "earliest"
    MaxLog = 2
    MaxDeleted = 1
    MaxNow = 0
    MaxFaults = 0
    MaxCopies = 2
PROPERTY
    StreamContinues
CHECK_DEADLOCK FALSE
