\* The two queries judge one record differently.
SPECIFICATION Spec
CONSTANTS
    a = a
    b = b
    c = c
    bad = bad
    anon = anon
    btc = btc
    NoSymbol = NoSymbol
    events = {a}
    Event <- MCEvent
    SymbolOf <- MCSymbolOf
    TimeOf <- MCTimeOf
    Malformed <- MCMalformed
    WindowLen = 3
    WatermarkDelay = 0
    LateAfter = 0
    MaxSkew = 3
    Second = 1
    KeepsPlanned = TRUE
    StartingOffsets = "earliest"
    MaxLog = 1
    MaxDeleted = 0
    MaxNow = 2
    MaxFaults = 0
    MaxCopies = 2
INVARIANT
    RejectedNotInCandles
CHECK_DEADLOCK FALSE
