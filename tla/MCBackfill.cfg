\* Three trades, pages of two; hours of two units, a look-back of two hours, runs
\* that may begin or be tried again one unit late; two faults fail a whole run.
SPECIFICATION FairSpec
CONSTANTS
    Limit = 2
    Lookback = 4
    Interval = 2
    MaxDelay = 1
    Retries = 1
    Invalid = {2}
    MaxTrades = 3
    MaxNow = 5
    MaxFaults = 2
    MaxCopies = 1
INVARIANTS
    TypeOK
    FetchedOnceInOrder
    FetchMissesOnlyTies
    OnlyLostRunsLeaveGaps
PROPERTIES
    RecordedIsArchived
    ImplementsArchive
    GapFilled
CHECK_DEADLOCK FALSE
