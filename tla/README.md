# Verification of the real-time crypto analytics pipeline

TLA+ modules, TLC configurations and TLAPS proofs for the pipeline in `src/`: a Binance
WebSocket producer, a Spark Structured Streaming job that turns trades into 1-minute candles,
batch jobs under Airflow, a retention service, and the Postgres tables they share.

Run a check with `tlc -config <cfg> <module>`; check proofs with `tlapm <module>.tla`.
`PROJECT.json` lists the runs, the mutants, the map from definitions to source lines, the
hazards and the theorems.

## 1. Inventory

| Component | State | Operations | Talks to |
|---|---|---|---|
| Producer (`services/producer`) | the coroutine's position, librdkafka's queue, `consecutive_failures` | connect, receive, validate, produce, back off, flush | exchange (frames) -> Kafka `crypto_trades`, `dead_letter_queue` |
| Validation contract (`shared/validation.py`, `spark_streaming/transforms.py`) | none | `validate_trade`, `validate_and_enrich` | called by producer, backfill, stream |
| Spark streaming job (`services/spark_streaming`) | per query: checkpoint (offset log, commit log); for candles also deduplication and aggregation state and watermark | plan or replay a batch; Parquet, DLQ, upsert, metrics; commit | Kafka -> Parquet archive, `dead_letter_queue`, `candles_1m`, `pipeline_metrics` |
| Retention (`shared/retention.py`, `services/retention`, DAG) | one Postgres transaction per purge | summarize, delete candles, delete metrics | `candles_1m`, `daily_summary`, `pipeline_metrics` |
| REST backfill (`spark_batch/backfill_*.py`, hourly DAG) | cursor of the pagination, pages, what it has still to write | fetch pages, validate, append, insert metrics | exchange REST -> Parquet archive, metrics |
| Compaction, daily summary (`spark_batch`, daily DAG, `batch_job.py` by hand) | files of a day in two directories, the summary's row | deduplicate and overwrite; pick a partition, summarize and upsert; insert metrics | archive -> compacted archive, `daily_summary`, metrics |
| Data quality gate (`shared/dq_quality.py`, `data_quality.py`, its DAG) | none | sum metrics rows, compare the ratio | `pipeline_metrics` -> task state |
| Feature preparation (`spark_batch/feature_prep.py`) | none | a stub | - |
| Reference aggregation (`shared/aggregation_ref.py`) | none | pure functions | unit tests only |
| Dashboard | none | queries | Postgres (read only) |
| Airflow, Docker Compose | restart policies, retries | start, restart | everything |

What is hard in it:

* two streaming queries read the same topic with a clock and a checkpoint each, and die together;
* every sink is written before Spark commits the batch, so every batch may be written again;
* three notions of time meet: the trade's, the wall clock (lateness, purge cutoff; the stream's shows
  whole seconds), the watermark;
* the topic deletes its records after seven days, and the stream reads on without an error;
* the retention service and an Airflow DAG run the same purge, unaware of each other, while the
  stream upserts;
* the batch tasks are retried from the start over writes that are not atomic: an append comes into
  place file by file, an overwrite deletes first;
* the gap fill pages through a list that grows while it is read, with a cursor made of time stamps
  that trades may share, takes any answer that is no list for the end, and moves its window with
  each attempt;
* an operator's job, the daily DAG, the gap fill, the stream and the quality gate meet at midnight
  on the same day's files and metrics rows, with no lock among them;
* the producer's only error handler is "disconnect, sleep, flush, reconnect", and its sends are
  asynchronous.

What makes each component correct:

* *Stream*: a record is archived or dead-lettered, never neither and never both; a trade counts
  once; a remembered trade is in a candle; a record that is in no candle was rejected or behind the
  watermark or gone from the topic; a closed candle is final; both queries advance, unless Postgres
  refuses a batch.
* *Producer*: each received record once, in order, in the topic of its verdict; nothing is lost
  but in the few ways that can lose; the loop always comes back.
* *Validation*: the two statements of the contract agree except where they must.
* *Retention*: nothing recent is deleted, what is deleted is summarized, old rows go in the end.
* *Backfill*: no trade is fetched twice and none missed but ties and what lies behind an answer that
  is no list; what is recorded is archived; only a lost run leaves a gap.
* *Batch*: a compacted day has each row once and only archived rows; a summary counts nothing
  oftener than it is archived; an archived day is summarized in the end.
* *Quality gate*: it fails a day of which too much was rejected; the code only does so up to a bound.

The hazards, each at its line with the properties that cover it, are in `PROJECT.json`.

## 2. Modules

| Module | Models | Lines of `src/` it follows |
|---|---|---|
| `CandleTable` | abstract: what the candles promise a reader (`Add`, `Close`) | - |
| `StreamJob` | the streaming job; `Table == INSTANCE CandleTable WITH ...` is its refinement mapping | `stream_job.py`, `transforms.py`, `sinks.py`, `pg_writer.py` |
| `StreamJobProofs`, `StreamCandlesProofs` | theorems about `StreamJob` | |
| `StreamContractProofs` | theorems about `StreamJob` and `Validation` together | |
| `MCStreamJob` | values of the constants for TLC | |
| `Producer` | the receive loop and librdkafka's queue | `producer/main.py`, `kafka_client.py`, `binance_ws.py` |
| `Validation` | both validations of one record | `validation.py`, `schema.py`, `transforms.py` |
| `Retention` | the purge, its two schedulers, the stream's upserts | `retention.py`, `runner.py`, the DAG |
| `RetentionProofs`, `MCRetention` | theorems; constants | |
| `Archive` | abstract: what the Parquet archive promises the jobs that read it | appends of `sinks.py`, `backfill_rest.py` |
| `Backfill` | the hourly gap fill under Airflow, next to the stream; `Archive == INSTANCE Archive` is its refinement | `backfill_rest.py`, `backfill_utils.py`, the hourly DAG |
| `Quality` | the gate's verdict | `dq_quality.py` |
| `Batch` | compaction and summary of one day; extends `Archive` and `Quality`, with whose environment and verdict it is composed | `compact_parquet.py`, `daily_summary.py`, `batch_job.py`, `common.py`, `data_quality.py`, the daily DAG |
| `ProducerProofs`, `ValidationProofs`, `BackfillProofs`, `BatchProofs` | theorems | |

### StreamJob

`log` is what was published to the Kafka topic, `deleted` how much of it retention has taken
(`cleanup.policy=delete`, `init-topics.sh`). The job reads with `failOnDataLoss=false`: records gone
between planning and reading, or between two attempts at one batch, are skipped silently, so `Batch(q)` is what is
left of the range `Planned(q)`. Each query `q` is at `pc[q]`: `idle`, a stage of its `foreachBatch`
function, `commit`, `failed`, `stopped`. `start`, `done`, `pending` and `plan` are its checkpoint
and survive everything; `seen`, `open`, `wm`, `wmNext` are the state store of the candles query and
change only when its batch is committed, as Spark's do. `raw`, `dlq`, `candles` and `metered` are
the sinks.

| Action | Code |
|---|---|
| `ResolveStart` | `read_kafka_trades`, `startingOffsets`, the first time a query runs: the topic's end, or the oldest record it still has |
| `Delete` | the topic's retention, at any moment, whether the record has been read or not |
| `PlanBatch`, `ReplayBatch` | Spark's trigger and offset log behind the two `writeStream ... start()` |
| `WriteRaw`, `WriteDlq`, `InsertMetrics("validated")` | `foreach_batch_validated`, in its order |
| `UpsertCandles`, `UpsertRejected`, `InsertMetrics("candles")` | `foreach_batch_valid`; Postgres refuses a NULL symbol |
| `CommitValidated`, `CommitCandles` | Spark's commit log; for candles also the state, the eviction of closed windows and the watermark |
| `Fail`, `Exit` | a step raises; `awaitAnyTermination()` ends the process, whatever the other query is doing |
| `Crash`, `Restart` | the container is killed; `restart: unless-stopped` |

A step that is interrupted leaves what it may have written: any subset of the files or messages of
an append, all or nothing of a transaction (`InFlight`). Records dropped behind the watermark use
Spark's lag of one batch (`wm` filters, `wmNext` evicts). Validation takes the whole seconds of a
batch's time stamp (`NowMs`).

Data is abstracted to what the properties tell apart. The topic is one log, as nothing said here
depends on partitions. A record is an `Event`, an event_id with its symbol and time; publishing an
event twice is a duplicate. A candle is the set of log offsets it was computed from, so a wrong
open, close, volume or count is a wrong set. Rounding, the DLQ envelope's fields and the debug log
are not modelled. All records without an event_id would be one `Event`: Spark's `dropDuplicates`
does treat them so.

### Producer

`pc` is where the coroutine is: `connecting`, `receiving`, `sleeping` (backoff), `flushing` (the
`finally`), `closing` (the same flush after a cancellation), `ended`. A frame is its number, and
`kinds` what it is: a trade, one `validate_trade` rejects, one whose normalization raises an
exception the code expects, one that raises another. `Handle` is one turn of the loop from `recv_json` to
`produce_json`; `HandleRaises` is the same turn ending in `except Exception`, also for a full queue
(`BufferError`). `Send` and `Drop` are librdkafka's thread; the idempotent producer sends in order
and once. Left out: the length of the backoff (and so `consecutive_failures`) and logged counters.

### Validation

A record with a class of numerals as price and as quantity is judged by `ValidateTrade` at one time and by
`ValidateAndEnrich` at a later one. The classes are those the two languages tell apart: absent,
blank, text, NaN, zero, and, positive and negative, those that round to zero in 12 decimals (`dust`), in 8
decimals only (`fine`), plain ones, those too large for `DECIMAL(20,8)` (`vast`) and those neither
DECIMAL holds or Spark cannot read (`unfit`: `1_000`, `Infinity`). `Cast` rounds and overflows as `DECIMAL(20,8)` and
`DECIMAL(38,12)` do. `conforms` is what only `TradeEvent` asks for: `event_id` and `trade_id`, the
types, no unknown field. The stream judges by `StreamClock`, whole seconds. SQL truth values are
`"true"`, `"false"`, `"NULL"`.

### Retention

`pc[p]` follows the statements of `purge_old_candles` for each purger `p`. A transaction's writes
are kept in `txn[p]` and appear on `Commit`; `ts` is its `NOW()`, fixed at `Begin`. The INSERT ... SELECT is two
steps because its SELECT reads a snapshot and its upsert may have to wait for another transaction's
row. Guards over other purgers are the row locks. One symbol is enough: the statements group by it.

### Archive and Backfill

`raw` counts the copies of each row in the archive. A row stands for its `event_id`. Rows of the stream
and of the backfill are different rows even when they are of the same trade: the producer builds the id from the
trade's number `t`, the backfill from the aggregate's number `a`.

`made` is the exchange's list of trades, in order, each with its time; it grows while a run pages
through it. A unit of time is the resolution of a time stamp, so that trades of the same
millisecond are simply trades of the same time. Run `n` is due at `n * Interval`, its attempts are over
`MaxDelay` later at most, and each of them reads the clock for the end of its window (`end`) and with it its begin.
An aggregate trade is one trade; one symbol, as the code fetches each by itself. `MaxDelay` is an
assumption about Airflow (`Tick` does not pass it): a run that is still going on when the next is due, or a
scheduler that is down for longer, which with `catchup=False` skips runs, is outside of the model.

| Action | Code |
|---|---|
| `Begin` | `run_hourly_backfill`, each attempt: `endTime` is now, `startTime` the look-back before it |
| `FetchPage`, `EndFetch` | a turn of the loop of `fetch_agg_trades`, with its ways out |
| `AnswerIsNoList` | `fetch_agg_trades_page`: an answer that is no list becomes `[]`, an empty page, wherever the loop is |
| `Validate` | `validate_backfill_rows`, and `if all_valid` |
| `AppendRaw(S)` | `write...mode("append")`; the files of `S` come into place |
| `RecordMetrics` | `insert_pipeline_metrics`; a run that was cut by such an answer is counted as `lost`, though Airflow sees a success |
| `Fail` | any step raises; Airflow starts the task again, `Retries` times, then the run is `lost` |
| `MakeTrade`, `StreamArchives`, `Tick` | the exchange, the stream's appends, the schedule |

`AppendRaw` may be cut off after any of its files, by `Fail`: Spark moves files one by one with the
commit algorithm the job runs with, and a retry appends everything again. That a failed attempt
leaves copies is therefore part of the model, and part of what `Archive` allows.

### Batch and Quality

The day that is over, with two workers: `"dag"` runs `compact_day` and `run_daily_summary`
as the daily DAG does, and is retried; `"operator"` runs `batch_job.py` once with one of its
jobs. `ArchiveNext` goes on: rows of the day still arrive.

| Action | Code |
|---|---|
| `ReadRaw`, `ReadRawRaises` | `spark.read.parquet`, and its `except Exception` that takes any failure for a day without data |
| `DeleteTarget`, `Publish(S)` | `dropDuplicates(["event_id"])...mode("overwrite")`: Spark deletes the target, then moves the new files into place |
| `RecordCompaction`, `RecordSummary` | the metrics rows, `records_in = count()` |
| `ReadForDay`, `ReadForDayRaises` | `read_trades_for_day`: compacted first, raw second, `except Exception: continue` |
| `Collect`, `FilesAreGone` | the actions that open the files listed before, which an overwrite may have deleted since |
| `Upsert` | `INSERT ... ON CONFLICT DO UPDATE` |
| `Fail` | any step raises or the process is killed |

A partition is the bag of its rows; one without rows does not exist. A summary is the bag of rows
its figures were computed from, so that a wrong volume, count or price is a wrong bag. `Gate` is
the verdict at any moment: `RecordsIn` and `RecordsDlq` are what stream and backfill have recorded
of the day, `OtherIn` the other rows of the 24 hours (the candles query's, the previous day's batch),
which reject none, `recorded` what the batch jobs have added. `early` remembers that an operator's summary has read
the day before the DAG's task was done with it.

## 3. Runs

| Run | Shows | Bounds |
|---|---|---|
| `stream_routing` | routing under a failure or crash anywhere, lateness changing between planning and replay, a batch that is refused, records deleted before they are read or between two attempts, `latest` | 2 records of 3 events (on time then late, invalid, without symbol), 1 deleted, clock to 2 in seconds of 2, 1 fault |
| `stream_candles` | candles under duplicates, any order, `earliest`; implements `CandleTable` | 3 records of 3 events in 2 minutes, 1 deleted once no planned batch has it, 1 fault |
| `stream_live` | `FairSpec`: both queries advance | 2 records of 3 events, 1 deleted at any time, 1 fault |
| `retention` | `FairSpec`: two purgers and the stream | 3 trades, 2 minutes of a 2-minute day, clock to 4, 1 fault |
| `validation` | all classes of records | all combinations; second verdict up to 4 units later, seconds of 2 units |
| `producer` | `FairSpec` | 4 frames, a queue of 2; faults unbounded |
| `backfill` | `FairSpec`: paging while trades are made, late runs and retries, answers that are no list, retries over partial appends; implements `Archive` | 3 trades (one invalid), pages of 2, a run every 2 units and up to 1 late, look-back of 4, clock to 5, 1 retry, 2 failures |
| `batch` | `FairSpec`: the DAG's task, an operator's summary, arriving rows, the gate | 2 rows, 1 retry, 3 faults; 1 reject in 10 records, 4 other rows, thresholds 4 % and 5 % |
| `stream_silent_drop` | *violation*: behind the watermark, not late by the clock | 2 records |
| `stream_rejected_in_candle` | *violation*: the queries disagree on one record | 1 record, clock to 2 |
| `stream_poison` | *violation*: a record without a symbol | 2 records |
| `summary_loss` | *violation*: a day summarized in two parts | 2 trades |

Why the bounds are enough for what they ask. Three records give a duplicate in the same batch, in a
later batch and after a replay, and an old minute after a newer one has closed it; one fault gives
every point of interruption of either query, and the replay that follows. The copies of a record in an append-only
sink are counted to two, since properties ask for none, one or more. Three trades in pages of two
give a full page cut between two trades of one time, a full page followed by another, and a last page; two
failures let a run lose both its attempts; as in the deployment the look-back is two intervals, so that the
next run makes up for some of the lost run's trades and not for others (`Covers`). One record deleted is enough to take from
a planned batch the record it is refused for, the one it has archived or the one its candle was made of. In `batch` two rows give a compacted
partition that is half in place, and three faults all attempts of the DAG and one of the operator; the ratio lies
exactly at the gate's threshold when the DAG's task and the operator have counted two rows. In `MCLive` time stands still:
it only changes verdicts, which routing covers. Deadlock is not checked because all models stop
when their bounded environment has stopped; the liveness properties cover what must not stop.

The names of bounds are `MaxLog`, `MaxDeleted`, `MaxNow`, `MaxFaults`, `MaxCopies` (StreamJob), `MaxNow`,
`MaxFaults` (Retention), `MaxReceived` (Producer), `MaxNow` (Validation), `MaxTrades`, `MaxNow`,
`MaxFaults`, `MaxCopies` (Backfill), `MaxFaults`, `MaxCopies` (Batch). `QueueMax` is a parameter of librdkafka.

### Fairness

* StreamJob: weak fairness of each query's next step, of the process's exit once a query has
  failed (`awaitAnyTermination` returns), and of the restart (Docker). Not of the producers, the
  clock, or faults, which are finitely many by `MaxFaults`.
* Retention: weak fairness of each purger (scheduler loop, DAG schedule) and of time.
* Producer: weak fairness of the end of a sleep, of a flush (it has a timeout) and of the restart;
  strong fairness of `Connect`: the exchange accepts a connection if asked again and again. Nothing
  is assumed of Kafka, except in `ReceivedIsDelivered`, where it is the premise.
* Backfill: weak fairness of the next step of a run that is due or running (Airflow's scheduler)
  and of time. Nothing is assumed of the exchange or the stream.
* Batch: weak fairness of the start of the DAG's task and of its next step; none of the operator,
  who may stop halfway, nor of arriving rows.

`KeepsPlanned` says that a planned batch is done with before the topic's retention (seven days) reaches its
records; deletions of what is not yet planned, or already committed, it leaves alone. `stream_routing` and `stream_live` run
without it. With it `FALSE`, TLC finds `CandlesMatchState`, `CandleNeverShrinks` and
`ImplementsCandleTable` violated: a batch upserted, interrupted before its commit and replayed without a
deleted record overwrites the candle with a poorer one. `NoTradeCountedTwice`, `RememberedTradeInCandle`,
`CandleFinalAfterWatermark` and `DroppedForCause` hold without it.

`GapFilled` and `OnlyLostRunsLeaveGaps` speak of the first trade of its time, as a page may cut later ones, and of the
runs that `Covers` names: due after the trade, and with a window that contains it even if the run is `MaxDelay` late. Of the
two runs whose nominal window holds a trade (look-back of two hours, hourly schedule) a late one may leave out
the oldest. So a trade may be missed though only one run has failed, and
the properties say no more than that: each run that covers a trade archives it or was lost.

`EveryRowSummarized` asks that the row is in the summary from some moment on for good. It excepts the ways the code has
to give up a day without an error that lasts: all attempts failed, a read error was taken for missing
data, or an operator's summary has read the day before the DAG's task was done with it and may overwrite the DAG's
later with the half it has read.

### Where code and documentation differ

1. **Records vanish** (`stream_silent_drop`). Lateness for the DLQ is measured against the clock
   (`LATE_EVENT_AFTER_MINUTES`), dropping behind the watermark against the newest trade
   (`WATERMARK_MINUTES`). A record between the two bounds is archived as valid and enters no candle.
   `DroppedForCause` shows that no other kind of record is lost so.
2. **In a candle and in the DLQ** (`stream_rejected_in_candle`). The queries judge at different times.
3. **A record without a symbol stops the stream** (`stream_poison`). `NOT (NULL IN (...))` is NULL,
   so it is valid; the upsert fails; the process ends; the replay fails again. The trace also
   shows that the failure of one sink ends the process and with it the other sinks, where README.md:46 promises
   recovery "isolated per sink". `RefusedBatchStays` shows that nothing ends this but the loss of the
   record: the topic's retention takes it after seven days, with every other record of that time that was not read.
4. **Summaries lose trades** (`summary_loss`). The cutoff falls inside a day and the second purge
   replaces the day's summary.

The rest are limits that the properties state instead of runs of their own:

5. README.md:49 has one validation schema that "eliminates producer-consumer
   schema drift". `validate_and_enrich` is a second implementation. A message that does not come from the
   producer needs no `event_id` and no `trade_id`, may have other fields, may have a quantity that is negative
   before it is rounded, and may be too old by a part of a second. `StreamAcceptsNoMore` shows that
   there is nothing else, but the missing symbol of 3; `StreamConfirmsProducer` says where the stream rejects what the
   producer has published.
6. README.md:109 and README.md:145 have the gate fail when more than 5 % are rejected. `records_in`
   is summed over all jobs (`data_quality.py:14`): the candles query, compaction and summary count the day's records
   again and reject none, the rows of the previous day's batch are in the 24 hours too, and a retried
   gate may pass the day its first attempt has failed. `DilutionIsBounded` says by how much the batch can make the gate
   milder: by two counts of the archived rows for each attempt, failed ones included, and one for an operator's summary.
7. README.md:107 calls the backfill a "gap-fill", and `normalize_agg_trade` (`backfill_utils.py:73`) says that its
   "event_id matches WebSocket producer format". The format matches; the number does not (`a`
   against `t`). A trade that both have archived stays twice in the compacted day and counts twice in
   its summary; hence rows, and not trades, are what `CompactedOnce` and `SummaryCountsOnce` count.
8. README.md:49 sends a record that fails validation "at any stage" to the DLQ.
   `validate_backfill_rows` only counts its rejects.
9. A full page that ends within a millisecond loses the rest of that millisecond, as the next begins
   one later, and an answer that is no list loses the rest of the window (`FetchMissesOnlyTies`); in both cases
   the run succeeds.
10. A read error counts as missing data in `compact_parquet.py:24` and `daily_summary.py:28`: the
    task succeeds, and the summary is made of the raw rows, of an earlier attempt's half
    partition, or not at all (`swallowed` in `EveryRowSummarized`).
11. With an operator's compaction in parallel to the DAG's (`OperatorJobs` with `"compact"` or `"all"`) the
    deletes and the files of both interleave: rows appear twice or not at all, and none of the five properties
    stated under `DagCompactsAlone` holds without that premise.
12. Rows backfilled after a day's compaction are archived, but no later run of the DAG compacts
    that day again.

## 4. Proofs

All theorems hold for every value of the constants that meets the named assumptions.

`StreamJobProofs` (`TimesAssumption`, `BoundsAssumption`, `EventAssumption`):

* `TypeCorrect`. `TypeOK` is not inductive: that offsets stay within the log needs `CheckpointOK`
  (start, committed end and planned end are in order and within the log; a query in a stage of a
  batch has it pending; nothing is done before the start is resolved). `Inv0 == TypeOK /\ CheckpointOK`.
* `RecordsAreRouted` and `ReplayRoutesAlike`, from `RoutingInv == SinkInv /\ StageInv`. `SinkInv`
  adds to the two properties that what a sink holds beyond the committed offsets belongs to the
  planned range and was judged by its timestamp: valid in `raw`, invalid in `dlq`. It speaks of the range and not
  of the batch, which shrinks when the topic loses records. Without it a
  replay could contradict what an interrupted batch has left behind. `StageInv` says what the
  stages already passed by the running batch have written, which the commit needs.
* `AppendedOnce`, from `OnceInv`. While no step has failed, no query is ever down or idle with a
  batch pending (`AttemptedOnce`), so there is no replay; what a sink holds is one copy of committed
  records and, once its stage is past, of the pending batch. That no upsert is refused needs the
  premise of the property, that every event has a symbol.

`StreamCandlesProofs` extends it:

* `CandleInv == ServedInv /\ StoreInv /\ UpsertedInv` holds whatever the topic loses, as it speaks of events and not of
  offsets. `ServedInv`: a candle's trades are of its minute and count once, and what is remembered is served. `StoreInv`:
  the state of an open window has every event of it that `seen` remembers, once, so that an upsert loses none.
  `UpsertedInv`: after the upsert every new trade of the batch is in its candle, so that what the commit
  will remember is served.
* `MatchInv` speaks of offsets and needs `KeepsPlanned`: the candle of an open window holds its state and nothing else
  but, while a batch is pending, that batch's contribution.
* Without that assumption: `TradesCountOnce`, `RememberedTradesAreServed` and `CandlesBecomeFinal`. With it: `TableMatchesState`,
  `CandlesNeverShrink`, `JobImplementsCandleTable`.
* `NothingElseDropped`, from the same invariant: at the commit of a batch, a valid record newer than the
  watermark and still in the topic is remembered, hence served, or another record of its event is accepted in its place
  (`FirstIsAccepted`: a nonempty set of offsets has a least one), and the upsert is past.
* `RefusedUntilDeleted`, from `PassedInv`: a batch is past its upsert only if Postgres has accepted it.
  Until its commit nothing but a deletion changes what a planned batch accepts, and a deletion takes one
  record, for which another of the same event, hence symbol, may step in; so a refused batch becomes acceptable only when that record
  was an accepted one without a symbol.
* `JobImplementsCandleTable`: initial states map to initial states; an upsert, completed or
  interrupted, maps to `Add`, the commit of a watermark to `Close`, every other step to a stutter.

`StreamContractProofs` composes it with `Validation`. `StreamJob` says only that an event is valid at a time or
is malformed; `Records(RecordOf)` says what that means: each event has a record with its time, and the malformed ones are
those whose record `validate_and_enrich` rejects at every time. Any choice of records determines
`Malformed`, so this assumes nothing of them.

* `IsValidIsContract`: `IsValid` of `StreamJob` is then the verdict of `ValidateAndEnrich`.
* `CandleFiguresDefined`, from `WellFormedInv`: no malformed event is in a candle, so every trade in
  one has a price and a quantity the stream's decimals hold, the price positive, the quantity not negative.

`ValidationProofs` (`ClockAssumption`), for any skew, lateness and times:

* `FirstFailureFacts`: the verdict is the code of the least failing check. From it `TradeVerdict` (when
  `validate_trade` accepts), `EnrichVerdict` (what each code of `validate_and_enrich` says of the record) and
  `StreamAcceptsExactly`; `CastFacts` says what rounding and overflow leave of each class, `ClockFacts` that
  the stream's clock lacks less than a second.
* `ContractsAgree` and `FiguresDefined`, from `ContractInv`. It adds `PublishedBefore`: what the producer
  published it accepted at a time not later than now. The clock only advances, so such a record is ahead of the
  stream's clock by no more than what that clock lacks; otherwise, if it is out of time, it is old.
* `NothingSlipsIn`, an action property, from the two verdicts. One of its exceptions, a record too old by less
  than a floored second, never occurs in the run, whose lateness bound lies inside of the skew, as in the
  deployment; the theorem holds for any two bounds.

`ProducerProofs` (`SizesAssumption`), for any queue size, frames and faults:

* `TypeCorrect`; the bound of the queue is part of the type.
* `LanesKeepOrder`, from `LaneInv`: a lane, which is what a topic has received and what is queued for it, is
  ascending and each of its records has the verdict that sends it there. `LaneStep` reduces all
  steps to three: the lanes stay (a delivery moves a record within its lane), one lane grows by the newest
  frame, or a mishap thins them (`Thinned`), which keeps their order.
* `MishapsAloneLose`, by the same three cases: only the third takes a record out.

`RetentionProofs` (`PurgeAssumption`, `DelayAssumption`):

* `IInv == TypeOK /\ TxnInv`. `TxnInv`: a transaction's time is not in the future, what it will
  delete is old by that time, and from its SELECT to its end every old candle is contained in what the
  SELECT read. The last part holds because other purgers only delete old candles and because, by
  `DelayAssumption`, the stream does not touch them.
* `TypeCorrect`, `RecentRowsSurvive`, `DeletedTradesSummarized`.

`DelayAssumption` is what the deployment has to provide: the stream no longer upserts a minute that
is old enough to be purged. With the defaults it stops after 30 minutes and rows are kept for a day.
It fails if `RETENTION_KEEP_DAYS` is 0 (which `max(0, ...)` admits) or if a planned batch is replayed after an
outage of a day.

`BackfillProofs` (`BackfillAssumption`):

* `TypeCorrect`.
* `PageFacts`: a page holds at most `Limit` trades, leaves none out before its last one, and is all
  there is if it is not full. It rests on the cardinality of the trades found before a trade, which
  grows with its number.
* `PagesInOrder` and `OnlyTiesMissed`, from `FetchInv`. The trades are ordered by time; what is fetched lies behind
  the cursor (`CursorAhead`), so a page ahead of it repeats nothing; behind the cursor only ties are
  missed (`MissesBehindCursor`), which becomes the property when the loop ends: at the window's end, at an empty page,
  or, `cut`, where an answer was no list. A trade made while the loop runs is not older than the window's end, so it is no miss.
* `GapsAreLostRuns`: each run that is over and covers a trade has archived it or is lost. The attempt that ends the
  run has a window that contains the trade, because it began between `Due(run)` and `MaxDelay` later; by
  `OnlyTiesMissed` it has fetched the first trade of that time unless it was cut, and by `WrittenOrPending` archived it.
* `MetricsFollowArchive`, from `WrittenOrPending`: a valid trade that was fetched is in the archive or still to be
  written, and nothing is still to be written when the metrics row is inserted.
* `ArchiveImplemented`: the stream's and the backfill's appends map to `AppendFile` of rows of
  valid trades, all other steps to stutters.

`BatchProofs` (`BatchAssumption`, whose finite `Row` the counts need, `ArchiveAssumption`,
`ThresholdAssumption`):

* `TypeCorrect`, again with `AttemptsLeft`.
* `DayIsCompactedOnce`, `SummariesStayWithinArchive` and `SummariesCountOnce`, from
  `DayInv == WithinArchive /\ DagCompacts`, under `DagCompactsAlone`. `WithinArchive`: partition, DataFrames
  and summary hold nothing oftener than the archive, which only grows. `DagCompacts` follows the
  one writer of the partition: what is in place and what is still to be put in place are disjoint
  and together the rows read, so a retry that deletes and begins anew cannot add to what a killed
  attempt has left.
* `DilutionStaysBounded`, from `TallyInv`, again under `DagCompactsAlone`: what the jobs have
  recorded is at most `Turns` counts of the archived day. `Turns` charges two counts to each failed
  attempt of the DAG, whether it got as far as its metrics rows or not, up to two to the present attempt by
  the step it is at, and one to the operator's finished summary. Each count is of rows within the
  archive (`WithinArchive` from `DayInv`), which grows, so that an earlier count is never above
  a later one (`CountGrows`).

Every safety property and action property that a run checks, and both refinements, are proved. Only
model-checked: liveness (`StreamContinues`, `OldCandlesPurged`, `ReceivesAgain`, `ReceivedIsDelivered`, `GapFilled`,
`EveryRowSummarized`), which TLAPS cannot reach. The numerals of `Validation` are classes, so its
theorems hold for all records as far as the classes are what Python and Spark tell apart.

## 5. Plan

1. Theorems: what `CandleTable` promises follows from its specification alone.
2. `CheckpointReset`: `StreamJob` with a step that loses checkpoints while Postgres keeps its rows.
3. `Pipeline`: `Producer`, `StreamJob` and `Retention` composed: from frame to candle to summary.
4. The purge as a second writer of `daily_summary` next to `Batch`, and `Retention` with
   `keep_days = 0`.

## 6. Not modelled

The dashboard (reads only), feature preparation (a stub), the script that resets checkpoints
(`StreamJob` assumes that they last), two Spark applications sharing one output directory's
`_temporary`, the order `min_by` gives to trades of one time, logging and the debug log, DAG definitions other than their retries and
schedules, Kafka and Zookeeper themselves (a topic is a log), the unit tests' re-implementation of
the aggregation, arithmetic on prices.
