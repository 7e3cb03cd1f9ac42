----------------------------- MODULE Retention -----------------------------
(***************************************************************************)
(* The purge of old candles: shared/retention.py, run by the scheduler of  *)
(* services/retention/runner.py and by the Airflow DAG                     *)
(* crypto_data_retention, which do not know of one another.                *)
(*                                                                         *)
(* A purge is one Postgres transaction of three statements: roll the old   *)
(* candles up into daily_summary, delete them, delete old metrics.  NOW()  *)
(* is the time the transaction began; each statement reads what is         *)
(* committed when it begins (READ COMMITTED); a row written or deleted by  *)
(* an open transaction makes others wait.                                  *)
(*                                                                         *)
(* Abstractions.  One symbol: rows of different symbols never meet.  The   *)
(* figures of a candle or a summary are the set of trades they were        *)
(* computed from; {} is a row that does not exist.                         *)
(***************************************************************************)
EXTENDS Integers, FiniteSets

CONSTANTS
    Trade,            \* the trades of one symbol
    MinuteOf,         \* [Trade -> Nat], the minute of each
    Purger,           \* who runs purge_old_candles
    DayLen,           \* minutes in a day
    KeepDays,         \* RETENTION_KEEP_DAYS
    MetricsKeepDays,  \* RETENTION_METRICS_KEEP_DAYS
    SummarizeFirst,   \* RETENTION_SUMMARIZE_FIRST
    UpsertDelay,      \* how old a minute the stream may still upsert
    MaxNow,           \* bound: clock
    MaxFaults         \* bound: purges that raise

\* max(0, keep_days) and max(1, metrics_keep_days)
Keep        == DayLen * (IF KeepDays < 0 THEN 0 ELSE KeepDays)

MutantMetricsKeep == DayLen * MetricsKeepDays
MetricsKeep == DayLen * (IF MetricsKeepDays < 1 THEN 1 ELSE MetricsKeepDays)

ASSUME PurgeAssumption ==
    /\ MinuteOf \in [Trade -> Nat]
    /\ DayLen \in Nat \ {0}
    /\ KeepDays \in Int /\ MetricsKeepDays \in Int
    /\ SummarizeFirst \in BOOLEAN
    /\ MaxNow \in Nat /\ MaxFaults \in Nat

\* The stream is done with a minute before it is old enough to be purged: it
\* sends trades older than LATE_EVENT_AFTER_MINUTES (30) to the dead letter
\* queue, and candles are kept for a day.
ASSUME DelayAssumption == UpsertDelay \in Nat /\ UpsertDelay <= Keep

VARIABLES
    now,       \* wall clock, in minutes
    ingested,  \* trades the stream has aggregated
    candles,   \* [Minute -> SUBSET Trade]: analytics.candles_1m
    summary,   \* [Day -> SUBSET Trade]: analytics.daily_summary
    metrics,   \* times of the rows of analytics.pipeline_metrics
    pc,        \* [Purger -> Step]
    txn,       \* [Purger -> transaction]: its NOW(), what it read and deleted
    faults     \* purges that raised

vars == <<now, ingested, candles, summary, metrics, pc, txn, faults>>

Time   == 0..MaxNow
Minute == {MinuteOf[t] : t \in Trade}
DayOf(m) == m \div DayLen
Day    == {DayOf(m) : m \in Minute}
Step   == {"idle", "summarize", "write", "delete", "trim", "commit"}

Transaction ==
    [ts : Time,                        \* NOW()
     rolled : [Day -> SUBSET Trade],   \* the SELECT of _SUMMARIZE_SQL
     deleted : SUBSET Minute,          \* rows of _DELETE_CANDLES_SQL
     trimmed : SUBSET Time]            \* rows of _DELETE_METRICS_SQL

NoTransaction == [ts |-> 0, rolled |-> [d \in Day |-> {}],
                  deleted |-> {}, trimmed |-> {}]

\* WHERE window_start < NOW() - keep_days
MutantOldFor(ts) == {m \in Minute : m <= ts - Keep}
OldFor(ts) == {m \in Minute : m < ts - Keep}

Init ==
    /\ now = 0
    /\ ingested = {}
    /\ candles = [m \in Minute |-> {}]
    /\ summary = [d \in Day |-> {}]
    /\ metrics = {}
    /\ pc = [p \in Purger |-> "idle"]
    /\ txn = [p \in Purger |-> NoTransaction]
    /\ faults = 0

-----------------------------------------------------------------------------
(***************************************************************************)
(* The rest of the system: time, the stream's upserts (a candle is         *)
(* replaced by one computed from all its trades) and metrics rows.         *)
(***************************************************************************)
Tick ==
    /\ now < MaxNow
    /\ now' = now + 1
    /\ UNCHANGED <<ingested, candles, summary, metrics, pc, txn, faults>>

Upsert(t) ==
    LET m == MinuteOf[t] IN
    /\ t \notin ingested
    /\ m <= now /\ now <= m + UpsertDelay
    /\ \A p \in Purger : m \notin txn[p].deleted
    /\ ingested' = ingested \cup {t}
    /\ candles' = [candles EXCEPT ![m] = {s \in ingested' : MinuteOf[s] = m}]
    /\ UNCHANGED <<now, summary, metrics, pc, txn, faults>>

RecordMetrics ==
    /\ metrics' = metrics \cup {now}
    /\ UNCHANGED <<now, ingested, candles, summary, pc, txn, faults>>

-----------------------------------------------------------------------------
Begin(p) ==
    /\ pc[p] = "idle"
    /\ txn' = [txn EXCEPT ![p].ts = now]
    /\ pc' = [pc EXCEPT ![p] = IF SummarizeFirst THEN "summarize" ELSE "delete"]
    /\ UNCHANGED <<now, ingested, candles, summary, metrics, faults>>

(***************************************************************************)
(* INSERT INTO daily_summary SELECT ... GROUP BY: what it reads.           *)
(***************************************************************************)
RollUp(ts) ==
    [d \in Day |-> UNION {candles[m] : m \in {n \in OldFor(ts) : DayOf(n) = d}}]

ReadCandles(p) ==
    /\ pc[p] = "summarize"
    /\ txn' = [txn EXCEPT ![p].rolled = RollUp(txn[p].ts)]
    /\ pc' = [pc EXCEPT ![p] = "write"]
    /\ UNCHANGED <<now, ingested, candles, summary, metrics, faults>>

(***************************************************************************)
(* ... and its ON CONFLICT DO UPDATE, which waits for other transactions   *)
(* that wrote a summary of the same day.                                   *)
(***************************************************************************)
RolledDays(p) == {d \in Day : txn[p].rolled[d] # {}}

HasWritten(p) == pc[p] \in {"delete", "trim", "commit"}

WriteSummary(p) ==
    /\ pc[p] = "write"
    /\ \A r \in Purger : HasWritten(r) => RolledDays(r) \cap RolledDays(p) = {}
    /\ pc' = [pc EXCEPT ![p] = "delete"]
    /\ UNCHANGED <<now, ingested, candles, summary, metrics, txn, faults>>

(***************************************************************************)
(* DELETE FROM candles_1m, waiting for others that deleted the same rows.  *)
(***************************************************************************)
MutantDeleteByClock(p) ==
    LET rows == {m \in OldFor(now) : candles[m] # {}} IN
    /\ pc[p] = "delete"
    /\ \A r \in Purger : rows \cap txn[r].deleted = {}
    /\ txn' = [txn EXCEPT ![p].deleted = rows]
    /\ pc' = [pc EXCEPT ![p] = "trim"]
    /\ UNCHANGED <<now, ingested, candles, summary, metrics, faults>>

DeleteCandles(p) ==
    LET rows == {m \in OldFor(txn[p].ts) : candles[m] # {}} IN
    /\ pc[p] = "delete"
    /\ \A r \in Purger : rows \cap txn[r].deleted = {}
    /\ txn' = [txn EXCEPT ![p].deleted = rows]
    /\ pc' = [pc EXCEPT ![p] = "trim"]
    /\ UNCHANGED <<now, ingested, candles, summary, metrics, faults>>

DeleteMetrics(p) ==
    LET rows == {t \in metrics : t < txn[p].ts - MetricsKeep} IN
    /\ pc[p] = "trim"
    /\ \A r \in Purger : rows \cap txn[r].trimmed = {}
    /\ txn' = [txn EXCEPT ![p].trimmed = rows]
    /\ pc' = [pc EXCEPT ![p] = "commit"]
    /\ UNCHANGED <<now, ingested, candles, summary, metrics, faults>>

Commit(p) ==
    /\ pc[p] = "commit"
    /\ summary' = [d \in Day |-> IF d \in RolledDays(p) THEN txn[p].rolled[d]
                                                        ELSE summary[d]]
    /\ candles' = [m \in Minute |-> IF m \in txn[p].deleted THEN {} ELSE candles[m]]
    /\ metrics' = metrics \ txn[p].trimmed
    /\ txn' = [txn EXCEPT ![p] = NoTransaction]
    /\ pc' = [pc EXCEPT ![p] = "idle"]
    /\ UNCHANGED <<now, ingested, faults>>

(***************************************************************************)
(* A statement or the connection fails: the transaction is rolled back;    *)
(* the scheduler logs the exception and sleeps, Airflow retries.           *)
(***************************************************************************)
MutantAbortKeepsLocks(p) ==
    /\ pc[p] # "idle"
    /\ faults < MaxFaults
    /\ pc' = [pc EXCEPT ![p] = "idle"]
    /\ faults' = faults + 1
    /\ UNCHANGED <<now, ingested, candles, summary, metrics, txn>>

MutantAbortForGood(p) ==
    /\ pc[p] # "idle"
    /\ faults < MaxFaults
    /\ txn' = [txn EXCEPT ![p] = NoTransaction]
    /\ pc' = [pc EXCEPT ![p] = "ended"]
    /\ faults' = faults + 1
    /\ UNCHANGED <<now, ingested, candles, summary, metrics>>

Abort(p) ==
    /\ pc[p] # "idle"
    /\ faults < MaxFaults
    /\ txn' = [txn EXCEPT ![p] = NoTransaction]
    /\ pc' = [pc EXCEPT ![p] = "idle"]
    /\ faults' = faults + 1
    /\ UNCHANGED <<now, ingested, candles, summary, metrics>>

Purge(p) ==
    \/ Begin(p) \/ ReadCandles(p) \/ WriteSummary(p)
    \/ DeleteCandles(p) \/ DeleteMetrics(p) \/ Commit(p)

Next ==
    \/ Tick
    \/ \E t \in Trade : Upsert(t)
    \/ RecordMetrics
    \/ \E p \in Purger : Purge(p) \/ Abort(p)

Spec == Init /\ [][Next]_vars

(***************************************************************************)
(* A purger comes round again and again (the scheduler's loop, the DAG's   *)
(* schedule), its statements end, and time passes.                         *)
(***************************************************************************)
FairSpec == Spec /\ WF_vars(Tick) /\ \A p \in Purger : WF_vars(Purge(p))

-----------------------------------------------------------------------------
(***************************************************************************)
(* PROPERTIES                                                              *)
(***************************************************************************)

(* Tables and transactions keep their types.                               *)
TypeOK ==
    /\ now \in Time
    /\ ingested \in SUBSET Trade
    /\ candles \in [Minute -> SUBSET Trade]
    /\ summary \in [Day -> SUBSET Trade]
    /\ metrics \in SUBSET Time
    /\ pc \in [Purger -> Step]
    /\ txn \in [Purger -> Transaction]
    /\ faults \in 0..MaxFaults

(* purge_old_candles keeps keep_days of candles, whatever the purgers and  *)
(* the stream do while it runs; and it keeps the last day of metrics,      *)
(* which data_quality.py sums, however small metrics_keep_days is.         *)
RecentRowsKept ==
    [][/\ \A m \in Minute : candles[m] # {} /\ candles'[m] = {} => m < now - Keep
       /\ \A t \in metrics : t \notin metrics' => t < now - DayLen]_vars

(* "aggregate those rows into daily_summary first": no transaction deletes *)
(* a trade that its own summary, committed with the deletion, leaves out.  *)
(* Two purgers at once and a stream still writing do not break it.         *)
DeletedIsSummarized ==
    [][SummarizeFirst =>
          \A m \in Minute : candles[m] # {} /\ candles'[m] = {} =>
              candles[m] \subseteq summary'[DayOf(m)]]_vars

(* Every candle old enough is purged in the end, failed purges or not.     *)
OldCandlesPurged ==
    \A m \in Minute : (now > m + Keep) ~> (candles[m] = {})

-----------------------------------------------------------------------------
(***************************************************************************)
(* WHAT THE DOCUMENTATION SAYS AND THE CODE DOES NOT DO                    *)
(***************************************************************************)

(* retention.py:1: "roll up old 1m candles to daily_summary, then delete". *)
(* A trade would be in its candle or in the summary of its day.  But the   *)
(* cutoff falls inside a day, and the next purge replaces the summary of   *)
(* that day by one of the candles that were left.                          *)
NoTradeLost ==
    \A t \in ingested :
        t \in candles[MinuteOf[t]] \/ t \in summary[DayOf(MinuteOf[t])]
=============================================================================
