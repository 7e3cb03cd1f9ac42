------------------------------- MODULE Batch -------------------------------
(***************************************************************************)
(* The daily batch on one day of the archive: compaction                   *)
(* (compact_parquet.py) and daily summary (daily_summary.py).              *)
(*                                                                         *)
(* "dag" is the task of crypto_daily_batch: compact_day, run_daily_summary.*)
(* "operator" is batch_job.py with one of its jobs, started by hand.  Both *)
(* work on the same directories, while stream and backfill still append to *)
(* the day (Archive).                                                      *)
(* The data quality gate, a DAG due at the same midnight, judges the rows  *)
(* of pipeline_metrics of the last 24 hours: those of stream and backfill, *)
(* those these jobs record, and others.                                    *)
(*                                                                         *)
(* Abstractions.  A partition is the bag of its rows; one without rows is  *)
(* one that does not exist, which Spark fails to read.  The figures of a   *)
(* summary are the bag of rows they were computed from.                    *)
(***************************************************************************)
EXTENDS Archive, Quality, FiniteSets

CONSTANTS
    Retries,      \* "retries" of the DAG
    OperatorJobs, \* what the operator may start: compact, daily, all
    RecordsIn,    \* of the day's metrics rows by stream and backfill: the sum
    RecordsDlq,   \* of records_in and that of records_dlq
    OtherIn,      \* of the 24 hours' other rows (the candles query, the batch
                  \* of the day before): the sum of records_in; they reject none
    MaxFaults     \* bound: steps that raise

ASSUME BatchAssumption ==
    /\ IsFiniteSet(Row)
    /\ Retries \in Nat /\ MaxFaults \in Nat
    /\ RecordsIn \in Nat /\ RecordsDlq \in 0..RecordsIn /\ OtherIn \in Nat
    /\ OperatorJobs \subseteq {"compact", "daily", "all"}

VARIABLES
    compacted,    \* Rows: the day in RAW_DATA_COMPACTED_DIR
    summary,      \* Rows: the day in analytics.daily_summary
    at,           \* [Worker -> Step]
    todo,         \* [Worker -> what is left after this job]: summarize or nothing
    df,           \* [Worker -> Rows]: compact_day's DataFrame
    unpublished,  \* [Worker -> SUBSET Row]: rows whose file is not in place
    sourceDf,     \* [Worker -> Rows]: run_daily_summary's DataFrame
    path,         \* [Worker -> where the files of sourceDf are]
    failures,     \* attempts of the dag's task that failed
    swallowed,    \* a read has raised and was taken for missing data
    early,        \* an operator's summary read the day before the dag was done
    faults,       \* steps that raised
    recorded      \* sum of records_in of the metrics rows of these jobs

locals == <<df, unpublished, sourceDf, path>>
tally  == <<failures, swallowed, early, faults, recorded>>
vars   == <<raw, compacted, summary, at, todo, locals, tally>>

Worker == {"dag", "operator"}

Compacting  == {"compact", "delete", "publish", "compact metrics"}
Summarizing == {"read", "collect", "upsert", "summary metrics"}
Step == Compacting \cup Summarizing \cup {"idle", "done", "failed"}
Path == {"none", "compacted", "raw", "deleted"}

\* dropDuplicates(["event_id"])
MutantDistinct(b) == b

Distinct(b) == [r \in Row |-> IF b[r] > 0 THEN 1 ELSE 0]

Plus(b, c) ==
    [r \in Row |-> IF b[r] + c[r] <= MaxCopies THEN b[r] + c[r] ELSE MaxCopies]

\* df.count()
Count(b) == Cardinality({x \in Row \X (1..MaxCopies) : x[2] <= b[x[1]]})

Init ==
    /\ ArchiveInit
    /\ compacted = NoRows
    /\ summary = NoRows
    /\ at = [a \in Worker |-> "idle"]
    /\ todo = [a \in Worker |-> "done"]
    /\ df = [a \in Worker |-> NoRows]
    /\ unpublished = [a \in Worker |-> {}]
    /\ sourceDf = [a \in Worker |-> NoRows]
    /\ path = [a \in Worker |-> "none"]
    /\ failures = 0
    /\ swallowed = FALSE
    /\ early = FALSE
    /\ faults = 0
    /\ recorded = 0

Goto(a, step) == at' = [at EXCEPT ![a] = step]

-----------------------------------------------------------------------------
(***************************************************************************)
(* The day is over: Airflow starts the task, an operator starts a job, and *)
(* the last rows still come in.                                            *)
(***************************************************************************)
Archive ==
    /\ ArchiveNext
    /\ UNCHANGED <<compacted, summary, at, todo, locals, tally>>

Start(a, job) ==
    /\ at[a] = "idle"
    /\ Goto(a, IF job = "daily" THEN "read" ELSE "compact")
    /\ todo' = [todo EXCEPT ![a] = IF job = "compact" THEN "done" ELSE "read"]
    /\ UNCHANGED <<raw, compacted, summary, locals, tally>>

(***************************************************************************)
(* compact_day                                                             *)
(***************************************************************************)
ReadRaw(a) ==
    /\ at[a] = "compact"
    /\ df' = [df EXCEPT ![a] = raw]
    /\ Goto(a, IF raw = NoRows THEN todo[a] ELSE "delete")
    /\ UNCHANGED <<raw, compacted, summary, todo, unpublished, sourceDf, path,
                   tally>>

\* "except Exception": any failure to read is taken for a day without data.
ReadRawRaises(a) ==
    /\ at[a] = "compact"
    /\ faults < MaxFaults
    /\ faults' = faults + 1
    /\ swallowed' = TRUE
    /\ Goto(a, todo[a])
    /\ UNCHANGED <<raw, compacted, summary, todo, locals, failures, early, recorded>>

\* mode("overwrite") deletes what is there, also what others are reading ...
MutantDeleteTarget(a) ==
    /\ at[a] = "delete"
    /\ unpublished' = [unpublished EXCEPT ![a] = Held(df[a])]
    /\ Goto(a, "publish")
    /\ UNCHANGED <<raw, compacted, path, summary, todo, df, sourceDf, tally>>

DeleteTarget(a) ==
    /\ at[a] = "delete"
    /\ compacted' = NoRows
    /\ path' = [w \in Worker |-> IF path[w] = "compacted" THEN "deleted" ELSE path[w]]
    /\ unpublished' = [unpublished EXCEPT ![a] = Held(df[a])]
    /\ Goto(a, "publish")
    /\ UNCHANGED <<raw, summary, todo, df, sourceDf, tally>>

\* ... and then its files come into place one after another.
Publish(a, S) ==
    /\ at[a] = "publish"
    /\ S # {}
    /\ compacted' = Plus(compacted, [r \in Row |-> IF r \in S THEN Distinct(df[a])[r]
                                                  ELSE 0])
    /\ unpublished' = [unpublished EXCEPT ![a] = @ \ S]
    /\ Goto(a, IF S = unpublished[a] THEN "compact metrics" ELSE "publish")
    /\ UNCHANGED <<raw, summary, todo, df, sourceDf, path, tally>>

MutantRecordCompaction(a) ==
    /\ at[a] = "compact metrics"
    /\ recorded' = recorded + Count(df[a]) + Count(compacted)
    /\ Goto(a, todo[a])
    /\ UNCHANGED <<raw, compacted, summary, todo, locals, failures, swallowed, early,
                   faults>>

RecordCompaction(a) ==
    /\ at[a] = "compact metrics"
    /\ recorded' = recorded + Count(df[a])
    /\ Goto(a, todo[a])
    /\ UNCHANGED <<raw, compacted, summary, todo, locals, failures, swallowed, early,
                   faults>>

(***************************************************************************)
(* run_daily_summary                                                       *)
(***************************************************************************)
ReadTrades(a, from, rows) ==
    /\ at[a] = "read"
    /\ sourceDf' = [sourceDf EXCEPT ![a] = rows]
    /\ path' = [path EXCEPT ![a] = from]
    /\ Goto(a, IF rows = NoRows THEN "done" ELSE "collect")
    /\ early' = (early \/ (a = "operator" /\ at["dag"] # "done"))
    /\ UNCHANGED <<raw, compacted, summary, todo, df, unpublished, failures, recorded>>

\* read_trades_for_day: the compacted partition, or else the raw one.
ReadForDay(a) ==
    /\ IF compacted # NoRows THEN ReadTrades(a, "compacted", compacted)
                             ELSE ReadTrades(a, "raw", raw)
    /\ UNCHANGED <<swallowed, faults>>

\* "except Exception: continue": a failing read is as good as no partition.
ReadForDayRaises(a) ==
    /\ faults < MaxFaults
    /\ faults' = faults + 1
    /\ swallowed' = TRUE
    /\ IF compacted # NoRows THEN ReadTrades(a, "raw", raw)
                             ELSE ReadTrades(a, "none", NoRows)

\* count() and collect() open the files that were listed.
Collect(a) ==
    /\ at[a] = "collect"
    /\ path[a] # "deleted"
    /\ Goto(a, "upsert")
    /\ UNCHANGED <<raw, compacted, summary, todo, locals, tally>>

MutantUpsert(a) ==
    /\ at[a] = "upsert"
    /\ summary' = Plus(summary, sourceDf[a])
    /\ Goto(a, "summary metrics")
    /\ UNCHANGED <<raw, compacted, todo, locals, tally>>

Upsert(a) ==
    /\ at[a] = "upsert"
    /\ summary' = sourceDf[a]
    /\ Goto(a, "summary metrics")
    /\ UNCHANGED <<raw, compacted, todo, locals, tally>>

Forget(a) ==
    /\ df' = [df EXCEPT ![a] = NoRows]
    /\ unpublished' = [unpublished EXCEPT ![a] = {}]
    /\ sourceDf' = [sourceDf EXCEPT ![a] = NoRows]
    /\ path' = [path EXCEPT ![a] = "none"]

RecordSummary(a) ==
    /\ at[a] = "summary metrics"
    /\ recorded' = recorded + Count(sourceDf[a])
    /\ Goto(a, "done")
    /\ Forget(a)
    /\ UNCHANGED <<raw, compacted, summary, todo, failures, swallowed, early, faults>>

(***************************************************************************)
(* A step raises, or the process is killed.  What has been deleted, put in *)
(* place or committed stays.  Airflow tries its task again from the start. *)
(***************************************************************************)
MutantAbandon(a) ==
    /\ Goto(a, IF a = "dag" /\ failures <= Retries THEN "compact" ELSE "failed")
    /\ failures' = IF a = "dag" THEN failures + 1 ELSE failures
    /\ Forget(a)
    /\ UNCHANGED <<raw, compacted, summary, todo, swallowed, early, recorded>>

MutantAbandonResume(a) ==
    /\ Goto(a, IF a = "dag" /\ failures < Retries THEN "read" ELSE "failed")
    /\ failures' = IF a = "dag" THEN failures + 1 ELSE failures
    /\ Forget(a)
    /\ UNCHANGED <<raw, compacted, summary, todo, swallowed, early, recorded>>

Abandon(a) ==
    /\ Goto(a, IF a = "dag" /\ failures < Retries THEN "compact" ELSE "failed")
    /\ failures' = IF a = "dag" THEN failures + 1 ELSE failures
    /\ Forget(a)
    /\ UNCHANGED <<raw, compacted, summary, todo, swallowed, early, recorded>>

FilesAreGone(a) ==
    /\ at[a] = "collect" /\ path[a] = "deleted"
    /\ Abandon(a)
    /\ UNCHANGED faults

Fail(a) ==
    /\ at[a] \in Compacting \cup Summarizing
    /\ faults < MaxFaults
    /\ faults' = faults + 1
    /\ Abandon(a)

Advance(a) ==
    \/ ReadRaw(a) \/ DeleteTarget(a)
    \/ \E S \in SUBSET unpublished[a] : Publish(a, S)
    \/ RecordCompaction(a)
    \/ ReadForDay(a) \/ Collect(a) \/ Upsert(a) \/ RecordSummary(a)
    \/ FilesAreGone(a)

Next ==
    \/ Archive
    \/ Start("dag", "all")
    \/ \E job \in OperatorJobs : Start("operator", job)
    \/ \E a \in Worker :
           Advance(a) \/ ReadRawRaises(a) \/ ReadForDayRaises(a) \/ Fail(a)

Spec == Init /\ [][Next]_vars

(***************************************************************************)
(* Airflow starts the task of the day and its steps end.                   *)
(***************************************************************************)
FairSpec == Spec /\ WF_vars(Start("dag", "all")) /\ WF_vars(Advance("dag"))

\* What run_dlq_quality_check returns at this moment.
Gate == Status(RecordsIn + OtherIn + recorded, RecordsDlq)

-----------------------------------------------------------------------------
(***************************************************************************)
(* PROPERTIES                                                              *)
(***************************************************************************)

(* Partition, summary and the workers' variables keep their types.         *)
TypeOK ==
    /\ raw \in Rows /\ compacted \in Rows /\ summary \in Rows
    /\ at \in [Worker -> Step]
    /\ todo \in [Worker -> {"read", "done"}]
    /\ df \in [Worker -> Rows] /\ sourceDf \in [Worker -> Rows]
    /\ unpublished \in [Worker -> SUBSET Row]
    /\ path \in [Worker -> Path]
    /\ failures \in 0..Retries + 1
    /\ swallowed \in BOOLEAN /\ early \in BOOLEAN
    /\ faults \in 0..MaxFaults
    /\ recorded \in Nat

(* While the DAG alone compacts, the compacted day holds a row at most     *)
(* once and only rows of the archive, whatever attempts have failed halfway *)
(* through it.                                                             *)
DagCompactsAlone == OperatorJobs \subseteq {"daily"}

CompactedOnce ==
    DagCompactsAlone =>
        \A r \in Row : compacted[r] <= 1 /\ compacted[r] <= raw[r]

(* The summary of a day never counts a row oftener than the archive holds  *)
(* it, whoever computed it from whichever partition.                       *)
SummaryWithinArchive ==
    DagCompactsAlone => \A r \in Row : summary[r] <= raw[r]

(* An attempt of the DAG that has compacted the day and reads the compacted *)
(* partition counts every row that the archive held when it began exactly  *)
(* once: rows left by a killed attempt, and copies made by retries of the  *)
(* backfill and replays of the stream, do not show.                        *)
SummaryCountsOnce ==
    [][DagCompactsAlone /\ Upsert("dag")
       /\ df["dag"] # NoRows /\ path["dag"] = "compacted"
          => \A r \in Row : summary'[r] = IF df["dag"][r] > 0 THEN 1 ELSE 0]_vars

(* A row that is archived before the task of the day starts is in the      *)
(* summary from some moment on for good, unless all attempts fail, a read  *)
(* error has been taken for missing data, or an operator's summary has     *)
(* read the day before the task was done with it: that one may upsert what *)
(* it read, half of the day, after the DAG.                                *)
EveryRowSummarized ==
    DagCompactsAlone =>
        \A r \in Row :
            raw[r] > 0 /\ at["dag"] = "idle"
                ~> \/ [](summary[r] > 0)
                   \/ at["dag"] = "failed" \/ swallowed \/ early

(* README.md has the gate fail a day of which more than 5 % were rejected. *)
(* It divides by the records_in of all jobs' rows, but what the batch adds *)
(* to them is bounded: each attempt of the DAG, those that failed included, *)
(* counts the archived rows twice and an operator's summary once.  A day   *)
(* that is bad even so fails, at whatever moment the gate is asked.        *)
Dilution == (2 * failures + 3) * Count(raw)

DilutionIsBounded ==
    DagCompactsAlone /\ RecordsDlq > 0
    /\ 100 * RecordsDlq >= FailPercent * (RecordsIn + OtherIn + Dilution)
        => Gate = "fail"
=============================================================================
