\* Progress of both queries under fairness, with one failure or crash.
SPECIFICATION FairSpec
CONSTANTS
    a = a
    b = b
    c = c
    bad = bad
    anon = anon
    btc = btc
    NoSymbol = NoSymbol
    events = {a, b, bad}
    Event <- MCEvent
    SymbolOf <- MCSymbolOf
    TimeOf <- MCTimeOf
    Malformed <- MCMalformed
    WindowLen = 3
    WatermarkDelay = 0
    LateAfter = 4
    MaxSkew = 4
    Second = 1
    KeepsPlanned = FALSE
    StartingOffsets = "earliest"
    MaxLog = 2
    MaxDeleted = 1
    MaxNow = 0
    MaxFaults = 1
    MaxCopies = 2
INVARIANT
    OnceWithoutFailure
PROPERTY
    StreamContinues
CHECK_DEADLOCK FALSE
