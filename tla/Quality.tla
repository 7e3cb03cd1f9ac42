------------------------------ MODULE Quality ------------------------------
(***************************************************************************)
(* The verdict of the data quality gate: shared/dq_quality.py, which the   *)
(* DAG crypto_data_quality and the dashboard apply to the sums of the last *)
(* day's rows of pipeline_metrics.                                         *)
(*                                                                         *)
(* A ratio is compared by multiplying out; thresholds are in percent.      *)
(***************************************************************************)
EXTENDS Integers

CONSTANTS
    WarnPercent,  \* DLQ_WARN_RATIO
    FailPercent   \* DLQ_FAIL_RATIO

ASSUME ThresholdAssumption ==
    /\ WarnPercent \in Nat /\ FailPercent \in Nat
    /\ 0 < WarnPercent /\ WarnPercent <= FailPercent

\* compute_dlq_ratio(in, dlq) >= percent: without input the ratio is 0.
Reaches(in, dlq, percent) == in > 0 /\ 100 * dlq >= percent * in

\* evaluate_dlq_ratio
Status(in, dlq) ==
    IF Reaches(in, dlq, FailPercent) THEN "fail"
    ELSE IF Reaches(in, dlq, WarnPercent) THEN "warn"
    ELSE "ok"
=============================================================================
