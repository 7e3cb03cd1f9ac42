\* A row of the stream and one of the backfill; all attempts may fail.
\* One record in ten was rejected; four other rows, and two each from compaction, summary
\* and the operator, bring that to 5 %.
SPECIFICATION FairSpec
CONSTANTS
    Row = {"ws1", "rest1"}
    Archivable = {"ws1", "rest1"}
    MaxCopies = 2
    Retries = 1
    OperatorJobs = {"daily"}
    RecordsIn = 10
    RecordsDlq = 1
    OtherIn = 4
    WarnPercent = 4
    FailPercent = 5
    MaxFaults = 3
INVARIANTS
    TypeOK
    CompactedOnce
    SummaryWithinArchive
    DilutionIsBounded
PROPERTIES
    SummaryCountsOnce
    EveryRowSummarized
CHECK_DEADLOCK FALSE
