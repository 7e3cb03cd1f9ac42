------------------------------ MODULE Backfill ------------------------------
(***************************************************************************)
(* The hourly gap fill: services/spark_batch/backfill_rest.py and          *)
(* backfill_utils.py under the DAG crypto_hourly_backfill.                 *)
(*                                                                         *)
(* A task pages through the exchange's aggregate trades of the last hours, *)
(* validates them, appends the valid ones to the Parquet archive the       *)
(* stream also writes, and records its metrics.  A step that raises fails  *)
(* the task and Airflow runs it again from the start, with a window that   *)
(* ends at the time of the new attempt.                                    *)
(*                                                                         *)
(* Abstractions.  One symbol.  The unit of time is the resolution of a     *)
(* trade's time stamp; a run and its retries, minutes apart, are over      *)
(* MaxDelay after the run was due, before the next is.  An aggregate       *)
(* trade is one trade.  A row of the archive is who wrote it and the trade *)
(* it is of, which is all its event_id depends on: the producer numbers    *)
(* trades ("t"), the backfill aggregates ("a").                            *)
(***************************************************************************)
EXTENDS Integers, Sequences, FiniteSets

CONSTANTS
    Limit,      \* trades in a page
    Lookback,   \* BACKFILL_LOOKBACK_HOURS
    Interval,   \* "schedule" of the DAG
    MaxDelay,   \* how long after it was due a run may still be going on
    Retries,    \* "retries" of the DAG
    Invalid,    \* the trades validate_trade rejects
    MaxTrades,  \* bound: trades made
    MaxNow,     \* bound: clock
    MaxFaults,  \* bound: attempts that fail
    MaxCopies   \* bound: copies of a row that are told apart

ASSUME BackfillAssumption ==
    /\ Limit \in Nat \ {0}
    /\ Lookback \in Nat
    /\ Interval \in Nat \ {0} /\ MaxDelay \in Nat /\ MaxDelay < Interval
    /\ Retries \in Nat
    /\ MaxTrades \in Nat /\ MaxNow \in Nat /\ MaxFaults \in Nat
    /\ MaxCopies \in Nat \ {0}
    /\ Invalid \subseteq 1..MaxTrades

VARIABLES
    now,        \* wall clock
    made,       \* time of each trade made at the exchange, in order
    raw,        \* [Row -> copies]: the Parquet archive
    run,        \* the run that is going on or due next; they count from 0
    pc,         \* where its task is
    failures,   \* attempts of this run that failed
    end,        \* end_ms of this attempt
    cursor,     \* fetch_agg_trades: the next startTime
    pages,      \* fetch_agg_trades: the pages in all_trades
    cut,        \* this attempt has taken an answer that is no list for the end
    unwritten,  \* valid trades whose file is not in the archive yet
    lost,       \* runs that failed every attempt, or ended well after a cut
    faults      \* failed attempts and answers that are no list, in all runs

world   == <<now, made>>
attempt == <<end, cursor, pages, cut>>
airflow == <<run, failures, lost, faults>>
vars    == <<world, raw, pc, attempt, unwritten, airflow>>

Trade  == 1..MaxTrades
Time   == 0..MaxNow
Source == {"binance_ws", "binance_rest"}
Row    == Source \X Trade
Archivable == Source \X (Trade \ Invalid)

Archive == INSTANCE Archive

Init ==
    /\ now = 0
    /\ made = <<>>
    /\ Archive!ArchiveInit
    /\ run = 0
    /\ pc = "due"
    /\ failures = 0
    /\ end = 0
    /\ cursor = 0
    /\ pages = <<>>
    /\ cut = FALSE
    /\ unwritten = {}
    /\ lost = {}
    /\ faults = 0

\* When a run is due.
Due(n) == n * Interval

-----------------------------------------------------------------------------
(***************************************************************************)
(* The rest of the world: the exchange, the stream (which may be           *)
(* disconnected, and may archive a trade twice) and the clock, which does  *)
(* not pass the time by which the run is over.                             *)
(***************************************************************************)
MakeTrade ==
    /\ Len(made) < MaxTrades
    /\ made' = Append(made, now)
    /\ UNCHANGED <<now, raw, pc, attempt, unwritten, airflow>>

StreamArchives(k) ==
    /\ k \in DOMAIN made /\ k \notin Invalid
    /\ Archive!AppendFile({<<"binance_ws", k>>})
    /\ UNCHANGED <<world, pc, attempt, unwritten, airflow>>

Tick ==
    /\ now < MaxNow
    /\ now < Due(run) + MaxDelay
    /\ now' = now + 1
    /\ UNCHANGED <<made, raw, pc, attempt, unwritten, airflow>>

-----------------------------------------------------------------------------
(***************************************************************************)
(* run_hourly_backfill.  Every attempt reads the clock.                    *)
(***************************************************************************)
MutantWindowStart == end - Lookback + 1

WindowStart == end - Lookback

Begin ==
    /\ pc = "due"
    /\ now >= Due(run)
    /\ end' = now
    /\ cursor' = WindowStart'
    /\ pages' = <<>>
    /\ cut' = FALSE
    /\ pc' = "fetch"
    /\ UNCHANGED <<world, raw, unwritten, airflow>>

\* GET /api/v3/aggTrades: the first trades from startTime to endTime.
Page(start) ==
    LET found == {k \in DOMAIN made : start <= made[k] /\ made[k] <= end} IN
    {k \in found : Cardinality({j \in found : j < k}) < Limit}

LastOf(page) == CHOOSE k \in page : \A j \in page : j <= k

Fetched == UNION {pages[i] : i \in DOMAIN pages}

\* A turn of the loop that gets a page; a page that is not full is the last.
MutantFetchPage ==
    LET page == Page(cursor)
        next == made[LastOf(page)] + 2 IN
    /\ pc = "fetch" /\ cursor < end
    /\ page # {}
    /\ pages' = Append(pages, page)
    /\ IF Cardinality(page) < Limit \/ next <= cursor
       THEN pc' = "validate" /\ UNCHANGED cursor
       ELSE cursor' = next /\ UNCHANGED pc
    /\ UNCHANGED <<world, raw, end, cut, unwritten, airflow>>

MutantFetchPageAgain ==
    LET page == Page(cursor)
        next == made[LastOf(page)] IN
    /\ pc = "fetch" /\ cursor < end
    /\ page # {}
    /\ pages' = Append(pages, page)
    /\ IF Cardinality(page) < Limit \/ next <= cursor
       THEN pc' = "validate" /\ UNCHANGED cursor
       ELSE cursor' = next /\ UNCHANGED pc
    /\ UNCHANGED <<world, raw, end, cut, unwritten, airflow>>

FetchPage ==
    LET page == Page(cursor)
        next == made[LastOf(page)] + 1 IN
    /\ pc = "fetch" /\ cursor < end
    /\ page # {}
    /\ pages' = Append(pages, page)
    /\ IF Cardinality(page) < Limit \/ next <= cursor
       THEN pc' = "validate" /\ UNCHANGED cursor
       ELSE cursor' = next /\ UNCHANGED pc
    /\ UNCHANGED <<world, raw, end, cut, unwritten, airflow>>

\* The loop ends at the end of the window or with an empty page ...
EndFetch ==
    /\ pc = "fetch"
    /\ cursor >= end \/ Page(cursor) = {}
    /\ pc' = "validate"
    /\ UNCHANGED <<world, raw, attempt, unwritten, airflow>>

\* ... and an answer that is no list, an error object say, passes for one.
AnswerIsNoList ==
    /\ pc = "fetch" /\ cursor < end
    /\ faults < MaxFaults
    /\ faults' = faults + 1
    /\ cut' = TRUE
    /\ pc' = "validate"
    /\ UNCHANGED <<world, raw, end, cursor, pages, unwritten, run, failures, lost>>

MutantValidate ==
    /\ pc = "validate"
    /\ unwritten' = Fetched
    /\ pc' = IF unwritten' = {} THEN "metrics" ELSE "append"
    /\ UNCHANGED <<world, raw, attempt, airflow>>

Validate ==
    /\ pc = "validate"
    /\ unwritten' = Fetched \ Invalid
    /\ pc' = IF unwritten' = {} THEN "metrics" ELSE "append"
    /\ UNCHANGED <<world, raw, attempt, airflow>>

\* The files of the append come into place one after another.
MutantAppendRaw(S) ==
    /\ pc = "append"
    /\ S # {}
    /\ Archive!AppendFile({<<"binance_rest", k>> : k \in S})
    /\ unwritten' = unwritten \ S
    /\ pc' = "metrics"
    /\ UNCHANGED <<world, attempt, airflow>>

AppendRaw(S) ==
    /\ pc = "append"
    /\ S # {}
    /\ Archive!AppendFile({<<"binance_rest", k>> : k \in S})
    /\ unwritten' = unwritten \ S
    /\ pc' = IF unwritten' = {} THEN "metrics" ELSE pc
    /\ UNCHANGED <<world, attempt, airflow>>

\* What an attempt knows is gone when it ends.
ForgetAttempt == end' = 0 /\ cursor' = 0 /\ pages' = <<>> /\ cut' = FALSE

\* The run is over; the next one is an interval later.
NextRun == run' = run + 1 /\ failures' = 0

RecordMetrics ==
    /\ pc = "metrics"
    /\ pc' = "due"
    /\ NextRun
    /\ lost' = IF cut THEN lost \cup {run} ELSE lost
    /\ ForgetAttempt
    /\ UNCHANGED <<world, raw, unwritten, faults>>

(***************************************************************************)
(* A request, the write, the insert or the process fails.  Airflow tries   *)
(* again from the start, a limited number of times.                        *)
(***************************************************************************)
MutantFail ==
    /\ pc \in {"fetch", "validate", "append", "metrics"}
    /\ faults < MaxFaults
    /\ faults' = faults + 1
    /\ unwritten' = {}
    /\ pc' = IF failures < Retries THEN "due" ELSE "metrics"
    /\ failures' = IF failures < Retries THEN failures + 1 ELSE failures
    /\ ForgetAttempt
    /\ UNCHANGED <<world, raw, run, lost>>

Fail ==
    /\ pc \in {"fetch", "validate", "append", "metrics"}
    /\ faults < MaxFaults
    /\ faults' = faults + 1
    /\ pc' = "due"
    /\ \/ failures < Retries /\ failures' = failures + 1 /\ UNCHANGED <<run, lost>>
       \/ failures = Retries /\ NextRun /\ lost' = lost \cup {run}
    /\ ForgetAttempt /\ unwritten' = {}
    /\ UNCHANGED <<world, raw>>

Run ==
    \/ Begin \/ FetchPage \/ EndFetch \/ Validate
    \/ \E S \in SUBSET unwritten : AppendRaw(S)
    \/ RecordMetrics

Next ==
    \/ MakeTrade
    \/ \E k \in Trade : StreamArchives(k)
    \/ Tick
    \/ Run
    \/ AnswerIsNoList
    \/ Fail

Spec == Init /\ [][Next]_vars

(***************************************************************************)
(* Time passes, Airflow starts the run that is due and its steps end.      *)
(* Nothing is assumed of the exchange and the stream.                      *)
(***************************************************************************)
FairSpec == Spec /\ WF_vars(Tick) /\ WF_vars(Run)

-----------------------------------------------------------------------------
(***************************************************************************)
(* PROPERTIES                                                              *)
(***************************************************************************)

(* Clock, archive and the task's variables keep their types.               *)
TypeOK ==
    /\ now \in Time
    /\ made \in Seq(Time) /\ Len(made) <= MaxTrades
    /\ raw \in Archive!Rows
    /\ run \in Nat
    /\ pc \in {"due", "fetch", "validate", "append", "metrics"}
    /\ failures \in 0..Retries
    /\ end \in Time
    /\ cursor \in Int
    /\ pages \in Seq(SUBSET Trade)
    /\ cut \in BOOLEAN
    /\ unwritten \in SUBSET (Trade \ Invalid)
    /\ lost \in SUBSET Nat
    /\ faults \in 0..MaxFaults

(* fetch_agg_trades returns no trade twice, in the exchange's order, and   *)
(* none from outside of the window, however the pages cut it and while     *)
(* new trades are made.                                                    *)
FetchedOnceInOrder ==
    /\ \A i, j \in DOMAIN pages : i < j =>
           \A k \in pages[i], l \in pages[j] : k < l
    /\ \A k \in Fetched : WindowStart <= made[k] /\ made[k] <= end

(* Of the window's trades it misses those that share the time of the last  *)
(* trade of a full page, because the next page begins after that time,     *)
(* and, if an answer was no list, those from where the loop then was.  No  *)
(* others (those made at the very end of the window are the next run's).   *)
CutBy(page, k) ==
    /\ Cardinality(page) = Limit
    /\ made[k] = made[LastOf(page)]
    /\ LastOf(page) < k

FetchMissesOnlyTies ==
    pc \in {"validate", "append", "metrics"} =>
        \A k \in DOMAIN made :
            WindowStart <= made[k] /\ made[k] < end /\ k \notin Fetched =>
                \/ \E i \in DOMAIN pages : CutBy(pages[i], k)
                \/ cut /\ cursor <= made[k]

(* When a run records its metrics, every valid trade it has fetched is in  *)
(* the archive, whatever earlier attempts have left there.                 *)
RecordedIsArchived ==
    [][RecordMetrics =>
          \A k \in Fetched \ Invalid : raw[<<"binance_rest", k>>] > 0]_vars

(* For the readers of the archive, backfill and stream together implement  *)
(* Archive: rows of valid trades, added file by file, and never removed.   *)
ImplementsArchive == Archive!ArchiveSpec

(* A run covers a trade if the window of its last attempt must contain it: *)
(* it was due after the trade was made, and however long it and its        *)
(* retries take the window does not move past it.                          *)
Covers(n, k) == made[k] < Due(n) /\ Due(n) + MaxDelay <= made[k] + Lookback

FirstOfItsTime(k) ==
    k \in DOMAIN made /\ \A j \in DOMAIN made : made[j] = made[k] => k <= j

(* If a valid trade, the first of its time, is not in the archive, then    *)
(* each run over by now that covers it has failed all its attempts or was  *)
(* cut by an answer that is no list: neither the clock that moves between  *)
(* the attempts nor the pages open a gap.                                  *)
OnlyLostRunsLeaveGaps ==
    \A k \in Trade \ Invalid :
        FirstOfItsTime(k) /\ raw[<<"binance_rest", k>>] = 0 =>
            \A n \in 0..run - 1 : Covers(n, k) => n \in lost

(* "Gap-fill": a valid trade that the stream may have missed, the first of *)
(* its time, is archived in the end, or the run that covers it is lost.    *)
GapFilled ==
    \A k \in Trade \ Invalid, n \in {i \in Time : Due(i) <= MaxNow} :
        FirstOfItsTime(k) /\ Covers(n, k)
            ~> raw[<<"binance_rest", k>>] > 0 \/ n \in lost
=============================================================================
