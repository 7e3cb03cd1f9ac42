\* Candles: duplicates and late records over two minutes, one failure or crash.
SPECIFICATION Spec
CONSTANTS
    a = a
    b = b
    c = c
    bad = bad
    anon = anon
    btc = btc
    NoSymbol = NoSymbol
    events = {a, b, c}
    Event <- MCEvent
    SymbolOf <- MCSymbolOf
    TimeOf <- MCTimeOf
    Malformed <- MCMalformed
    WindowLen = 3
    WatermarkDelay = 0
    LateAfter = 4
    MaxSkew = 4
    Second = 1
    KeepsPlanned = TRUE
    StartingOffsets = "earliest"
    MaxLog = 3
    MaxDeleted = 1
    MaxNow = 0
    MaxFaults = 1
    MaxCopies = 1
INVARIANTS
    NoTradeCountedTwice
    CandlesMatchState
    RememberedTradeInCandle
PROPERTIES
    CandleNeverShrinks
    CandleFinalAfterWatermark
    DroppedForCause
    ImplementsCandleTable
CHECK_DEADLOCK FALSE
