\* A day is summarized from what the previous purge left of it.
SPECIFICATION Spec
CONSTANTS
    t0 = t0
    u0 = u0
    t1 = t1
    t2 = t2
    trades = {t0, t1}
    Trade <- MCTrade
    MinuteOf <- MCMinuteOf
    Purger = {"scheduler"}
    DayLen = 2
    KeepDays = 1
    MetricsKeepDays = 0
    SummarizeFirst = TRUE
    UpsertDelay = 1
    MaxNow = 4
    MaxFaults = 0
INVARIANT
    NoTradeLost
CHECK_DEADLOCK FALSE
