\* A record behind the watermark is in no candle and in no dead letter queue.
SPECIFICATION Spec
CONSTANTS
    a = a
    b = b
    c = c
    bad = bad
    anon = anon
    btc = btc
    NoSymbol = NoSymbol
    events = {a, b, c}
    Event <- MCEvent
    SymbolOf <- MCSymbolOf
    TimeOf <- MCTimeOf
    Malformed <- MCMalformed
    WindowLen = 3
    WatermarkDelay = 0
    LateAfter = 4
    MaxSkew = 4
    Second = 1
    KeepsPlanned = TRUE
    StartingOffsets = "earliest"
    MaxLog = 2
    MaxDeleted = 0
    MaxNow = 0
    MaxFaults = 0
    MaxCopies = 2
INVARIANT
    NoSilentDrop
CHECK_DEADLOCK FALSE
