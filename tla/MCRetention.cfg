\* Scheduler and Airflow purge at the same time while the stream writes.
SPECIFICATION FairSpec
CONSTANTS
    t0 = t0
    u0 = u0
    t1 = t1
    t2 = t2
    trades = {t0, u0, t1}
    Trade <- MCTrade
    MinuteOf <- MCMinuteOf
    Purger = {"scheduler", "airflow"}
    DayLen = 2
    KeepDays = 1
    MetricsKeepDays = 0
    SummarizeFirst = TRUE
    UpsertDelay = 1
    MaxNow = 4
    MaxFaults = 1
INVARIANT
    TypeOK
PROPERTIES
    RecentRowsKept
    DeletedIsSummarized
    OldCandlesPurged
CHECK_DEADLOCK FALSE
