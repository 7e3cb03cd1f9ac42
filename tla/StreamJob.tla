----------------------------- MODULE StreamJob -----------------------------
(***************************************************************************)
(* The Spark streaming job: services/spark_streaming.                      *)
(*                                                                         *)
(* One process runs two streaming queries over the Kafka topic             *)
(* crypto_trades:                                                          *)
(*   "validated"  archives valid records as raw Parquet, sends the others  *)
(*                to the dead letter queue (foreach_batch_validated);      *)
(*   "candles"    deduplicates the valid records, aggregates them by       *)
(*                symbol and minute and upserts the changed candles into   *)
(*                Postgres (foreach_batch_valid).                          *)
(* Each query has its own checkpoint: where it started, the batch it has   *)
(* planned (offset log), the batch it has committed (commit log).  A batch *)
(* that was planned and not committed is run again with the same end and   *)
(* the same timestamp.  If either query fails the process ends, because    *)
(* main() waits in awaitAnyTermination(), and Docker starts it again.      *)
(*                                                                         *)
(* Abstractions.  The topic is one log (its partitions matter to nothing   *)
(* said here) from which retention deletes the oldest records; a record is *)
(* an Event, which stands for an event_id with its symbol and time; the    *)
(* figures of a candle are the set of log offsets aggregated into it, so a *)
(* wrong price or volume is a wrong set.                                   *)
(***************************************************************************)
EXTENDS Integers, Sequences, FiniteSets

CONSTANTS
    Event,            \* what can be published, by event_id
    SymbolOf,         \* [Event -> symbols]
    TimeOf,           \* [Event -> Int], trade_time_ms
    NoSymbol,         \* the symbol of a record without one (SQL NULL)
    Malformed,        \* events invalid whatever the time is
    WindowLen,        \* one minute
    WatermarkDelay,   \* WATERMARK_MINUTES
    LateAfter,        \* LATE_EVENT_AFTER_MINUTES
    MaxSkew,          \* MAX_TIME_SKEW_MS
    Second,           \* a second: validation knows the time to no less
    StartingOffsets,  \* STARTING_OFFSETS: "latest" or "earliest"
    KeepsPlanned,     \* BOOLEAN: a planned batch is done with in less time
                      \* than the topic keeps its records
    MaxLog,           \* bound: records published
    MaxDeleted,       \* bound: records deleted from the topic
    MaxNow,           \* bound: clock
    MaxFaults,        \* bound: failed steps and crashes
    MaxCopies         \* bound: copies of a record told apart in a sink

ASSUME TimesAssumption ==
    /\ TimeOf \in [Event -> Int]
    /\ WindowLen \in Nat \ {0}
    /\ WatermarkDelay \in Nat
    /\ LateAfter \in Nat
    /\ MaxSkew \in Nat
    /\ Second \in Nat \ {0}

ASSUME BoundsAssumption ==
    /\ MaxLog \in Nat
    /\ MaxDeleted \in Nat
    /\ MaxNow \in Nat
    /\ MaxFaults \in Nat
    /\ MaxCopies \in Nat \ {0}

ASSUME EventAssumption ==
    /\ SymbolOf \in [Event -> {SymbolOf[e] : e \in Event}]
    /\ Malformed \subseteq Event
    /\ StartingOffsets \in {"latest", "earliest"}
    /\ KeepsPlanned \in BOOLEAN

VARIABLES
    log,      \* what was published to the topic: a sequence of events
    deleted,  \* the topic has lost its records up to this offset
    now,      \* wall clock
    pc,       \* [Query -> Stage]: what each query is doing
    \* checkpoint, one per query
    start,    \* first offset minus one; -1 while there is no checkpoint
    done,     \* end offset of the last committed batch
    pending,  \* queries with a planned, uncommitted batch
    plan,     \* that batch: its end offset and its timestamp
    \* state store of "candles"
    seen,     \* event_ids of dropDuplicates
    open,     \* [Key -> SUBSET Offset]: aggregation state
    wm,       \* records up to this time are late for the next batch
    wmNext,   \* windows up to this time are evicted by the next batch
    \* sinks
    raw,      \* [Offset -> Copies]: rows in the Parquet archive
    dlq,      \* [Offset -> Copies]: envelopes in dead_letter_queue
    candles,  \* [Key -> SUBSET Offset]: analytics.candles_1m
    metered,  \* [Query -> [Offset -> Copies]]: pipeline_metrics rows
    faults    \* how many steps failed or processes crashed

checkpoint == <<start, done, pending, plan>>
store      == <<seen, open, wm, wmNext>>
sinks      == <<raw, dlq, candles, metered>>
vars == <<log, deleted, now, pc, checkpoint, store, sinks, faults>>

-----------------------------------------------------------------------------
Query  == {"validated", "candles"}
Stage  == {"stopped", "idle", "parquet", "dlq", "upsert", "metrics", "commit",
           "failed"}
Offset == 1..MaxLog
Copies == 0..MaxCopies

WindowEnd(t) == (t \div WindowLen + 1) * WindowLen

KeyOf(e) == <<SymbolOf[e], WindowEnd(TimeOf[e])>>
Key      == {KeyOf(e) : e \in Event}
EndOf(k) == k[2]

(***************************************************************************)
(* validate_and_enrich: is_valid, with current_timestamp = ts, of which it *)
(* takes the whole seconds.  A record without a symbol is valid: NOT (NULL *)
(* IN (...)) is NULL, so the INVALID_SYMBOL branch of the CASE is not      *)
(* taken.  Which error code wins is the business of module Validation.     *)
(***************************************************************************)
NowMs(ts) == ts - (ts % Second)

IsLate(e, ts) == TimeOf[e] < NowMs(ts) - LateAfter

IsValid(e, ts) ==
    /\ e \notin Malformed
    /\ TimeOf[e] > 0
    /\ TimeOf[e] >= NowMs(ts) - MaxSkew
    /\ TimeOf[e] <= NowMs(ts) + MaxSkew
    /\ ~IsLate(e, ts)

(***************************************************************************)
(* The range of offsets a query has planned, and the batch it reads: with  *)
(* failOnDataLoss=false the records that the topic has lost are skipped    *)
(* without an error.  Every step reads the batch again, as it is then.     *)
(***************************************************************************)
Planned(q) == {o \in Offset : done[q] < o /\ o <= plan[q].to}

Batch(q)   == {o \in Planned(q) : deleted < o}
Valid(q)   == {o \in Batch(q) : IsValid(log[o], plan[q].ts)}
Invalid(q) == {o \in Batch(q) : ~IsValid(log[o], plan[q].ts)}

(***************************************************************************)
(* dedup_and_watermark: records not newer than the late-record watermark   *)
(* are dropped without a trace, then all but one record of an event_id,    *)
(* which is remembered for ever (event_id is not an event time, so the     *)
(* store never forgets it).                                                *)
(***************************************************************************)
MutantFreshForgetful == {o \in Valid("candles") : TimeOf[log[o]] > wm}
MutantFreshNoWatermark == {o \in Valid("candles") : log[o] \notin seen}
MutantFreshNextWatermark ==
    {o \in Valid("candles") : TimeOf[log[o]] > wmNext /\ log[o] \notin seen}

Fresh == {o \in Valid("candles") : TimeOf[log[o]] > wm /\ log[o] \notin seen}

MutantAcceptedRepeats == Fresh

Accepted == {o \in Fresh : \A p \in Fresh : log[p] = log[o] => o <= p}

(***************************************************************************)
(* aggregate_1m_ohlc: the candles this batch changes (outputMode "update") *)
(* and what they are recomputed from.                                      *)
(***************************************************************************)
Contribution(k) == {o \in Accepted : KeyOf(log[o]) = k}
Updated         == {KeyOf(log[o]) : o \in Accepted}
MutantAggregateOfBatch(k) == Contribution(k)
Aggregate(k)    == open[k] \cup Contribution(k)

Copied(f, S) ==
    [o \in Offset |-> IF o \in S /\ f[o] < MaxCopies THEN f[o] + 1 ELSE f[o]]

(***************************************************************************)
(* upsert_candles_1m: INSERT ... ON CONFLICT DO UPDATE of every changed    *)
(* candle in one transaction.  symbol is NOT NULL in the table, so a       *)
(* candle without a symbol fails the whole statement.                      *)
(***************************************************************************)
MutantUpsertDoNothing ==
    [k \in Key |-> IF k \in Updated /\ candles[k] = {} THEN Aggregate(k)
                                                      ELSE candles[k]]

Upserted == [k \in Key |-> IF k \in Updated THEN Aggregate(k) ELSE candles[k]]

UpsertAccepted == \A k \in Updated : k[1] # NoSymbol

-----------------------------------------------------------------------------
Init ==
    /\ log = <<>>
    /\ deleted = 0
    /\ now = 0
    /\ pc = [q \in Query |-> "idle"]
    /\ start = [q \in Query |-> -1]
    /\ done = [q \in Query |-> 0]
    /\ pending = {}
    /\ plan = [q \in Query |-> [to |-> 0, ts |-> 0]]
    /\ seen = {}
    /\ open = [k \in Key |-> {}]
    /\ wm = 0
    /\ wmNext = 0
    /\ raw = [o \in Offset |-> 0]
    /\ dlq = [o \in Offset |-> 0]
    /\ candles = [k \in Key |-> {}]
    /\ metered = [q \in Query |-> [o \in Offset |-> 0]]
    /\ faults = 0

(***************************************************************************)
(* The environment: producers write to the topic, in any order and more    *)
(* than once; retention (cleanup.policy=delete) takes its oldest records,  *)
(* read or not; time passes.                                               *)
(***************************************************************************)
Publish(e) ==
    /\ Len(log) < MaxLog
    /\ log' = Append(log, e)
    /\ UNCHANGED <<deleted, now, pc, checkpoint, store, sinks, faults>>

Delete ==
    /\ deleted < Len(log) /\ deleted < MaxDeleted
    /\ KeepsPlanned => \A q \in pending : deleted < done[q]
    /\ deleted' = deleted + 1
    /\ UNCHANGED <<log, now, pc, checkpoint, store, sinks, faults>>

Tick ==
    /\ now < MaxNow
    /\ now' = now + 1
    /\ UNCHANGED <<log, deleted, pc, checkpoint, store, sinks, faults>>

-----------------------------------------------------------------------------
(***************************************************************************)
(* A query without a checkpoint resolves where it starts, once: at the end *)
(* of the topic or at the oldest record it still has.                      *)
(***************************************************************************)
ResolveStart(q) ==
    /\ pc[q] = "idle"
    /\ start[q] = -1
    /\ LET o == IF StartingOffsets = "latest" THEN Len(log) ELSE deleted
       IN  /\ start' = [start EXCEPT ![q] = o]
           /\ done' = [done EXCEPT ![q] = o]
    /\ UNCHANGED <<log, deleted, now, pc, pending, plan, store, sinks, faults>>

FirstStage(q) == IF q = "validated" THEN "parquet" ELSE "upsert"

(***************************************************************************)
(* A trigger plans a batch of whatever is new and logs it.  "candles" also *)
(* plans an empty batch when its watermark has advanced, to evict.         *)
(***************************************************************************)
MutantPlanPastEnd(q) ==
    /\ pc[q] = "idle"
    /\ start[q] # -1
    /\ q \notin pending
    /\ Len(log) > done[q]
    /\ plan' = [plan EXCEPT ![q] = [to |-> done[q] + MaxLog, ts |-> now]]
    /\ pending' = pending \cup {q}
    /\ pc' = [pc EXCEPT ![q] = FirstStage(q)]
    /\ UNCHANGED <<log, deleted, now, start, done, store, sinks, faults>>

PlanBatch(q) ==
    /\ pc[q] = "idle"
    /\ start[q] # -1
    /\ q \notin pending
    /\ \/ Len(log) > done[q]
       \/ q = "candles" /\ wmNext > wm
    /\ plan' = [plan EXCEPT ![q] = [to |-> Len(log), ts |-> now]]
    /\ pending' = pending \cup {q}
    /\ pc' = [pc EXCEPT ![q] = FirstStage(q)]
    /\ UNCHANGED <<log, deleted, now, start, done, store, sinks, faults>>

(***************************************************************************)
(* After a restart the logged batch is run again as it was planned.        *)
(***************************************************************************)
MutantReplayRetimed(q) ==
    /\ pc[q] = "idle"
    /\ q \in pending
    /\ plan' = [plan EXCEPT ![q].ts = now]
    /\ pc' = [pc EXCEPT ![q] = FirstStage(q)]
    /\ UNCHANGED <<log, deleted, now, start, done, pending, store, sinks, faults>>

MutantReplayAsDone(q) ==
    /\ pc[q] = "idle"
    /\ q \in pending
    /\ pc' = [pc EXCEPT ![q] = "commit"]
    /\ UNCHANGED <<log, deleted, now, checkpoint, store, sinks, faults>>

MutantReplayIfNothingNew(q) ==
    /\ pc[q] = "idle"
    /\ q \in pending
    /\ plan[q].to = Len(log)
    /\ pc' = [pc EXCEPT ![q] = FirstStage(q)]
    /\ UNCHANGED <<log, deleted, now, checkpoint, store, sinks, faults>>

ReplayBatch(q) ==
    /\ pc[q] = "idle"
    /\ q \in pending
    /\ pc' = [pc EXCEPT ![q] = FirstStage(q)]
    /\ UNCHANGED <<log, deleted, now, checkpoint, store, sinks, faults>>

-----------------------------------------------------------------------------
(***************************************************************************)
(* foreach_batch_validated: Parquet, then the dead letter queue, then the  *)
(* metrics row; then Spark commits the batch.                              *)
(***************************************************************************)
WriteRaw ==
    /\ pc["validated"] = "parquet"
    /\ raw' = Copied(raw, Valid("validated"))
    /\ pc' = [pc EXCEPT !["validated"] = "dlq"]
    /\ UNCHANGED <<log, deleted, now, checkpoint, store, dlq, candles, metered, faults>>

WriteDlq ==
    /\ pc["validated"] = "dlq"
    /\ dlq' = Copied(dlq, Invalid("validated"))
    /\ pc' = [pc EXCEPT !["validated"] = "metrics"]
    /\ UNCHANGED <<log, deleted, now, checkpoint, store, raw, candles, metered, faults>>

(***************************************************************************)
(* foreach_batch_valid: the upsert, then the metrics row; then Spark       *)
(* commits the batch and its state.                                        *)
(***************************************************************************)
UpsertCandles ==
    /\ pc["candles"] = "upsert"
    /\ UpsertAccepted
    /\ candles' = Upserted
    /\ pc' = [pc EXCEPT !["candles"] = "metrics"]
    /\ UNCHANGED <<log, deleted, now, checkpoint, store, raw, dlq, metered, faults>>

MutantUpsertRejectedIgnored ==
    /\ pc["candles"] = "upsert"
    /\ ~UpsertAccepted
    /\ pc' = [pc EXCEPT !["candles"] = "metrics"]
    /\ UNCHANGED <<log, deleted, now, checkpoint, store, sinks, faults>>

UpsertRejected ==
    /\ pc["candles"] = "upsert"
    /\ ~UpsertAccepted
    /\ pc' = [pc EXCEPT !["candles"] = "failed"]
    /\ UNCHANGED <<log, deleted, now, checkpoint, store, sinks, faults>>

(***************************************************************************)
(* insert_pipeline_metrics.  Which records a row counts is kept, not the   *)
(* figures in it.                                                          *)
(***************************************************************************)
InsertMetrics(q) ==
    /\ pc[q] = "metrics"
    /\ metered' = [metered EXCEPT ![q] = Copied(@, Batch(q))]
    /\ pc' = [pc EXCEPT ![q] = "commit"]
    /\ UNCHANGED <<log, deleted, now, checkpoint, store, raw, dlq, candles, faults>>

MutantCommitToEnd ==
    /\ pc["validated"] = "commit"
    /\ done' = [done EXCEPT !["validated"] = Len(log)]
    /\ pending' = pending \ {"validated"}
    /\ pc' = [pc EXCEPT !["validated"] = "idle"]
    /\ UNCHANGED <<log, deleted, now, start, plan, store, sinks, faults>>

MutantCommitNoOffset ==
    /\ pc["validated"] = "commit"
    /\ pending' = pending \ {"validated"}
    /\ pc' = [pc EXCEPT !["validated"] = "idle"]
    /\ UNCHANGED <<log, deleted, now, start, done, plan, store, sinks, faults>>

CommitValidated ==
    /\ pc["validated"] = "commit"
    /\ done' = [done EXCEPT !["validated"] = plan["validated"].to]
    /\ pending' = pending \ {"validated"}
    /\ pc' = [pc EXCEPT !["validated"] = "idle"]
    /\ UNCHANGED <<log, deleted, now, start, plan, store, sinks, faults>>

(***************************************************************************)
(* The watermark after a batch: the newest valid record less the delay, if *)
(* that is an advance.                                                     *)
(***************************************************************************)
WatermarkCandidates ==
    {wmNext} \cup {TimeOf[log[o]] - WatermarkDelay : o \in Valid("candles")}

EvictedBy(t) == [k \in Key |-> IF EndOf(k) <= t THEN {} ELSE Aggregate(k)]

CommitCandles ==
    /\ pc["candles"] = "commit"
    /\ done' = [done EXCEPT !["candles"] = plan["candles"].to]
    /\ pending' = pending \ {"candles"}
    /\ pc' = [pc EXCEPT !["candles"] = "idle"]
    /\ seen' = seen \cup {log[o] : o \in Accepted}
    /\ open' = EvictedBy(wmNext)
    /\ wm' = wmNext
    /\ wmNext' \in WatermarkCandidates
    /\ \A w \in WatermarkCandidates : w <= wmNext'
    /\ UNCHANGED <<log, deleted, now, start, plan, sinks, faults>>

-----------------------------------------------------------------------------
(***************************************************************************)
(* What can be left behind when the queries Q are interrupted: some of the *)
(* files or messages being written; the whole transaction or none of it.   *)
(***************************************************************************)
Interrupted(Q, q, stage) == q \in Q /\ pc[q] = stage

InFlight(Q) ==
    /\ \E S \in SUBSET Valid("validated") :
          /\ S # {} => Interrupted(Q, "validated", "parquet")
          /\ raw' = Copied(raw, S)
    /\ \E S \in SUBSET Invalid("validated") :
          /\ S # {} => Interrupted(Q, "validated", "dlq")
          /\ dlq' = Copied(dlq, S)
    /\ \/ UNCHANGED candles
       \/ /\ Interrupted(Q, "candles", "upsert") /\ UpsertAccepted
          /\ candles' = Upserted
    /\ \E R \in SUBSET {q \in Query : Interrupted(Q, q, "metrics")} :
          metered' = [q \in Query |-> IF q \in R THEN Copied(metered[q], Batch(q))
                                                 ELSE metered[q]]

Running(q) == pc[q] \notin {"stopped", "failed", "idle"}

(***************************************************************************)
(* A step of a batch raises: Postgres, Kafka or the disk is unavailable.   *)
(***************************************************************************)
Fail(q) ==
    /\ Running(q)
    /\ faults < MaxFaults
    /\ InFlight({q})
    /\ pc' = [pc EXCEPT ![q] = "failed"]
    /\ faults' = faults + 1
    /\ UNCHANGED <<log, deleted, now, checkpoint, store>>

(***************************************************************************)
(* awaitAnyTermination raises what the failed query raised: main() and the *)
(* process end, and the other query with them, wherever it is.             *)
(***************************************************************************)
Exit ==
    /\ \E q \in Query : pc[q] = "failed"
    /\ InFlight(Query)
    /\ pc' = [q \in Query |-> "stopped"]
    /\ UNCHANGED <<log, deleted, now, checkpoint, store, faults>>

(***************************************************************************)
(* The process is killed (docker stop, out of memory).                     *)
(***************************************************************************)
Crash ==
    /\ \E q \in Query : pc[q] # "stopped"
    /\ faults < MaxFaults
    /\ InFlight(Query)
    /\ pc' = [q \in Query |-> "stopped"]
    /\ faults' = faults + 1
    /\ UNCHANGED <<log, deleted, now, checkpoint, store>>

(***************************************************************************)
(* restart: unless-stopped.                                                *)
(***************************************************************************)
Restart ==
    /\ pc = [q \in Query |-> "stopped"]
    /\ pc' = [q \in Query |-> "idle"]
    /\ UNCHANGED <<log, deleted, now, checkpoint, store, sinks, faults>>

-----------------------------------------------------------------------------
ValidatedStep ==
    \/ ResolveStart("validated") \/ PlanBatch("validated")
    \/ ReplayBatch("validated")
    \/ WriteRaw \/ WriteDlq \/ InsertMetrics("validated") \/ CommitValidated

CandlesStep ==
    \/ ResolveStart("candles") \/ PlanBatch("candles") \/ ReplayBatch("candles")
    \/ UpsertCandles \/ UpsertRejected \/ InsertMetrics("candles")
    \/ CommitCandles

Next ==
    \/ \E e \in Event : Publish(e)
    \/ Delete
    \/ Tick
    \/ ValidatedStep
    \/ CandlesStep
    \/ \E q \in Query : Fail(q)
    \/ Exit
    \/ Crash
    \/ Restart

Spec == Init /\ [][Next]_vars

(***************************************************************************)
(* Spark's micro-batch threads keep running, a failed query does end the   *)
(* process, Docker does restart it.  Nothing is assumed of the producers,  *)
(* of the clock, of retention or of failures, except that failures are     *)
(* finitely many.                                                          *)
(***************************************************************************)
Fairness ==
    /\ WF_vars(ValidatedStep)
    /\ WF_vars(CandlesStep)
    /\ WF_vars(Exit)
    /\ WF_vars(Restart)

FairSpec == Spec /\ Fairness

-----------------------------------------------------------------------------
(***************************************************************************)
(* PROPERTIES                                                              *)
(***************************************************************************)

(* Every variable of the job keeps its type: no step of the two queries    *)
(* plans, commits or writes what is not an offset of the topic.            *)
TypeOK ==
    /\ log \in Seq(Event) /\ Len(log) <= MaxLog
    /\ deleted \in 0..MaxLog
    /\ now \in 0..MaxNow
    /\ pc \in [Query -> Stage]
    /\ start \in [Query -> -1..MaxLog]
    /\ done \in [Query -> 0..MaxLog]
    /\ pending \in SUBSET Query
    /\ plan \in [Query -> [to : 0..MaxLog, ts : 0..MaxNow]]
    /\ seen \in SUBSET Event
    /\ open \in [Key -> SUBSET Offset]
    /\ wm \in Int
    /\ wmNext \in Int
    /\ raw \in [Offset -> Copies]
    /\ dlq \in [Offset -> Copies]
    /\ candles \in [Key -> SUBSET Offset]
    /\ metered \in [Query -> [Offset -> Copies]]
    /\ faults \in 0..MaxFaults

(* foreach_batch_validated: once "validated" has committed past a record   *)
(* that the topic kept until then, the record is in the archive or in the  *)
(* dead letter queue, whatever failed on the way, and is counted in        *)
(* pipeline_metrics.                                                       *)
EveryRecordRouted ==
    \A o \in Offset :
        start["validated"] < o /\ deleted < o /\ o <= done["validated"] =>
            (raw[o] > 0 \/ dlq[o] > 0) /\ metered["validated"][o] > 0

(* foreach_batch_validated, replayed after a crash later than it was       *)
(* planned, sends every record the same way again: no record is both in    *)
(* the archive and in the dead letter queue.                               *)
RawOrDlqNotBoth == \A o \in Offset : raw[o] = 0 \/ dlq[o] = 0

(* The sinks of "validated" only append, so a replay writes a record       *)
(* twice.  Without failures there is no replay: one row, one envelope, one *)
(* count per record.                                                       *)
OnceWithoutFailure ==
    (faults = 0 /\ \A e \in Event : SymbolOf[e] # NoSymbol) =>
        \A o \in Offset :
            raw[o] <= 1 /\ dlq[o] <= 1 /\ \A q \in Query : metered[q][o] <= 1

(* dropDuplicates with ON CONFLICT DO UPDATE: however often a trade was    *)
(* published and a batch replayed, it counts once, in one candle.          *)
NoTradeCountedTwice ==
    \A k, l \in Key : \A o \in candles[k], p \in candles[l] :
        log[o] = log[p] => o = p /\ k = l

(* A candle is computed from trades of its own symbol and minute only.     *)
CandlesOfTheirWindow ==
    \A k \in Key : \A o \in candles[k] : o <= Len(log) /\ KeyOf(log[o]) = k

(* Between batches the serving table and the aggregation state agree: a    *)
(* replay that upserts an older or newer aggregate would leave a candle    *)
(* that no later batch repairs.  (With KeepsPlanned: a replay from which   *)
(* retention has taken a record can bring the two apart.)                  *)
CandlesMatchState ==
    "candles" \notin pending =>
        \A k \in Key : open[k] # {} => candles[k] = open[k]

(* The deduplication state and the serving table never drift apart: an     *)
(* event_id that dropDuplicates remembers is in the candle of its minute.  *)
(* Were it not, every later delivery would be dropped as a duplicate and   *)
(* the trade be lost for good.                                             *)
RememberedTradeInCandle ==
    \A e \in seen : \E o \in candles[KeyOf(e)] : log[o] = e

(* An upsert never takes a trade out of a candle that a reader has seen.   *)
(* (With KeepsPlanned, as above.)                                          *)
CandleNeverShrinks ==
    [][\A k \in Key : candles[k] \subseteq candles'[k]]_vars

(* Once the watermark has passed the end of a minute its candle is final,  *)
(* restarts and replays included.                                          *)
CandleFinalAfterWatermark ==
    [][\A k \in Key : EndOf(k) <= wm => candles'[k] = candles[k]]_vars

(* What the dead letter queue is not told of: a record that "candles" gets *)
(* past without a candle for its trade is behind the watermark, or fails   *)
(* validation at the timestamp of its batch, or is gone from the topic.    *)
(* No crash, replay or repeated delivery drops a trade for another reason. *)
DroppedForCause ==
    [][\A o \in Offset :
          start["candles"] # -1 /\ done["candles"] < o /\ o <= done'["candles"] =>
              \/ \E p \in candles[KeyOf(log[o])] : log[p] = log[o]
              \/ TimeOf[log[o]] <= wm
              \/ ~IsValid(log[o], plan["candles"].ts)
              \/ o <= deleted]_vars

(* A batch that Postgres refuses stays planned, through restarts, replays  *)
(* and whatever is published or fails, and is refused again, until the     *)
(* topic loses the last record it is refused for: only then can "candles"  *)
(* get past it.                                                            *)
RefusedBatchStays ==
    [][("candles" \in pending /\ ~UpsertAccepted) =>
           /\ "candles" \in pending' /\ done'["candles"] = done["candles"]
           /\ UpsertAccepted' =>
                  deleted' \in Accepted \ Accepted'
                  /\ SymbolOf[log[deleted']] = NoSymbol]_vars

(* Each query gets past every record it has to read, through failures,     *)
(* restarts and replays, and through the loss of records by the topic.     *)
StreamContinues ==
    \A q \in Query : \A o \in Offset :
        (start[q] # -1 /\ Len(log) >= o) ~> (done[q] >= o)

-----------------------------------------------------------------------------
(***************************************************************************)
(* WHAT THE DOCUMENTATION SAYS AND THE CODE DOES NOT DO                    *)
(* (each is shown violated by a run of its own)                            *)
(***************************************************************************)

(* transforms.py:82: late events are "routed to the DLQ".  A record both   *)
(* queries are done with would be in the dead letter queue, or its trade   *)
(* in a candle.  But LATE_EVENT compares with the clock, the watermark     *)
(* with the newest trade.                                                  *)
NoSilentDrop ==
    \A o \in Offset :
        (deleted < o /\ \A q \in Query : start[q] < o /\ o <= done[q]) =>
            \/ dlq[o] > 0
            \/ \E k \in Key : \E p \in candles[k] : log[p] = log[o]

(* README.md:49: a record that fails validation "is routed to the Kafka    *)
(* DLQ for audit rather than silently corrupting downstream tables".  But  *)
(* the two queries judge a record at the timestamps of their own batches.  *)
RejectedNotInCandles ==
    \A o \in Offset : dlq[o] > 0 => \A k \in Key : o \notin candles[k]

-----------------------------------------------------------------------------
(* The job implements the table of module CandleTable.                     *)
KeyOfTrade(t)   == KeyOf(t[2])
EventOfTrade(t) == t[2]

Table == INSTANCE CandleTable WITH
    Trade <- Offset \X Event,
    table <- [k \in Key |-> {<<o, log[o]>> : o \in candles[k]}],
    closed <- {k \in Key : EndOf(k) <= wm}

ImplementsCandleTable == Table!Spec
=============================================================================
