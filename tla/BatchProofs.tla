----------------------------- MODULE BatchProofs -----------------------------
(***************************************************************************)
(* What the daily batch makes of a day, for any set of rows, any number of *)
(* retries and failures.                                                   *)
(***************************************************************************)
EXTENDS Batch, FiniteSetTheorems, TLAPS

(***************************************************************************)
(* Bags of rows                                                            *)
(***************************************************************************)
Within(b, c) == \A r \in Row : b[r] <= c[r]

LEMMA BagFacts ==
    /\ NoRows \in Rows
    /\ \A b, c \in Rows : Plus(b, c) \in Rows
    /\ \A b \in Rows, S \in SUBSET Row : Appended(b, S) \in Rows /\ Within(b, Appended(b, S))
    /\ \A b \in Rows : Distinct(b) \in Rows /\ Within(Distinct(b), b)
  BY ArchiveAssumption DEF Rows, NoRows, Plus, Appended, Distinct, Within

LEMMA CountIsNat == \A b \in Rows : Count(b) \in Nat
  <1> SUFFICES ASSUME NEW b \in Rows
               PROVE  Count(b) \in Nat
    OBVIOUS
  <1>1. IsFiniteSet(1..MaxCopies)
    BY FS_Interval, ArchiveAssumption
  <1>2. IsFiniteSet(Row \X (1..MaxCopies))
    BY <1>1, FS_Product, BatchAssumption
  <1>3. IsFiniteSet({x \in Row \X (1..MaxCopies) : x[2] <= b[x[1]]})
    BY <1>2, FS_Subset
  <1>4. QED
    BY <1>3, FS_CardinalityType DEF Count

-----------------------------------------------------------------------------
(***************************************************************************)
(* Types                                                                   *)
(***************************************************************************)
\* The task does not run after its last attempt.
AttemptsLeft ==
    at["dag"] \in Compacting \cup Summarizing \cup {"idle"} => failures <= Retries

TypeInv == TypeOK /\ AttemptsLeft

LEMMA TypeInit == Init => TypeInv
  <1> SUFFICES ASSUME Init
               PROVE  TypeInv
    OBVIOUS
  <1>1. raw \in Rows /\ compacted \in Rows /\ summary \in Rows
    BY BagFacts DEF Init, ArchiveInit
  <1>2. df \in [Worker -> Rows] /\ sourceDf \in [Worker -> Rows]
    BY BagFacts DEF Init
  <1>3. at \in [Worker -> Step] /\ todo \in [Worker -> {"read", "done"}]
    BY DEF Init, Step
  <1>4. unpublished \in [Worker -> SUBSET Row] /\ path \in [Worker -> Path]
    BY DEF Init, Path
  <1>5. failures = 0 /\ swallowed = FALSE /\ early = FALSE /\ faults = 0 /\ recorded = 0
    BY DEF Init
  <1>6. /\ failures \in 0..Retries + 1 /\ failures <= Retries
        /\ faults \in 0..MaxFaults /\ recorded \in Nat
    BY <1>5, BatchAssumption
  <1>7. swallowed \in BOOLEAN /\ early \in BOOLEAN
    BY <1>5
  <1>8. QED
    BY <1>1, <1>2, <1>3, <1>4, <1>6, <1>7 DEF TypeInv, TypeOK, AttemptsLeft

LEMMA ForgetKeepsTypes ==
    ASSUME TypeOK, NEW a \in Worker, Forget(a)
    PROVE  /\ df' \in [Worker -> Rows] /\ sourceDf' \in [Worker -> Rows]
           /\ unpublished' \in [Worker -> SUBSET Row]
           /\ path' \in [Worker -> Path]
  BY BagFacts DEF TypeOK, Forget, Path

LEMMA AbandonKeepsTypes ==
    ASSUME TypeInv, NEW a \in Worker, Abandon(a), faults' \in 0..MaxFaults,
           at[a] \in Compacting \cup Summarizing
    PROVE  TypeInv'
  <1> USE DEF TypeInv
  <1>1. at' \in [Worker -> Step]
    BY DEF TypeOK, Abandon, Goto, Step, Compacting
  <1>2. failures \in 0..Retries + 1 /\ Retries \in Nat
    BY BatchAssumption DEF TypeOK
  <1>3. a = "dag" => failures <= Retries
    BY DEF AttemptsLeft
  <1>4. failures' = IF a = "dag" THEN failures + 1 ELSE failures
    BY DEF Abandon
  <1>5. failures' \in 0..Retries + 1
    BY <1>2, <1>3, <1>4
  <1>6. Forget(a) /\ UNCHANGED <<raw, compacted, summary, todo, swallowed, early, recorded>>
    BY DEF Abandon
  <1>7. TypeOK'
    BY <1>1, <1>5, <1>6, ForgetKeepsTypes DEF TypeOK
  <1>8. AttemptsLeft'
    <2>1. CASE a = "dag"
      <3>1. at'["dag"] = IF failures < Retries THEN "compact" ELSE "failed"
        BY <2>1 DEF Abandon, Goto, TypeOK, Worker
      <3>2. failures < Retries => failures' <= Retries
        BY <2>1, <1>2, <1>4
      <3>3. "failed" \notin Compacting \cup Summarizing \cup {"idle"}
        BY DEF Compacting, Summarizing
      <3>4. QED
        BY <3>1, <3>2, <3>3 DEF AttemptsLeft
    <2>2. CASE a # "dag"
      <3>1. at'["dag"] = at["dag"]
        BY <2>2 DEF Abandon, Goto, TypeOK, Worker
      <3>2. QED
        BY <3>1, <2>2, <1>4 DEF AttemptsLeft
    <2>3. QED
      BY <2>1, <2>2
  <1>9. QED
    BY <1>7, <1>8

LEMMA StepKeepsTypes ==
    ASSUME TypeInv, NEW a \in Worker,
           Advance(a) \/ ReadRawRaises(a) \/ ReadForDayRaises(a) \/ Fail(a)
    PROVE  TypeInv'
  <1> USE DEF TypeInv
  <1>g. ASSUME NEW step \in Compacting \cup Summarizing \cup {"done"}, Goto(a, step),
               at[a] \in Compacting \cup Summarizing, UNCHANGED failures
        PROVE  at' \in [Worker -> Step] /\ AttemptsLeft'
    <2>1. at' \in [Worker -> Step]
      BY <1>g DEF Goto, TypeOK, Step
    <2>2. at'["dag"] \in Compacting \cup Summarizing \cup {"idle"}
             => at["dag"] \in Compacting \cup Summarizing \cup {"idle"}
      BY <1>g DEF Goto, TypeOK, Worker
    <2>3. QED
      BY <1>g, <2>1, <2>2 DEF AttemptsLeft
  <1>t. todo[a] \in {"read", "done"}
    BY DEF TypeOK
  <1>s. /\ {"compact", "delete", "publish", "compact metrics"} \subseteq Compacting
        /\ {"read", "collect", "upsert", "summary metrics"} \subseteq Summarizing
    BY DEF Compacting, Summarizing
  <1>f. MaxFaults \in Nat /\ (faults < MaxFaults /\ faults' = faults + 1 => faults' \in 0..MaxFaults)
    BY BatchAssumption DEF TypeOK
  <1>1. CASE ReadRaw(a)
    <2>1. at' \in [Worker -> Step] /\ AttemptsLeft'
      BY <1>1, <1>g, <1>t, <1>s DEF ReadRaw, tally
    <2>2. df' \in [Worker -> Rows]
      BY <1>1 DEF ReadRaw, TypeOK
    <2>3. QED
      BY <1>1, <2>1, <2>2 DEF ReadRaw, TypeOK, tally
  <1>2. CASE DeleteTarget(a)
    <2>1. at' \in [Worker -> Step] /\ AttemptsLeft'
      BY <1>2, <1>g, <1>s DEF DeleteTarget, tally
    <2>2. path' \in [Worker -> Path]
      BY <1>2 DEF DeleteTarget, TypeOK, Path
    <2>3. unpublished' \in [Worker -> SUBSET Row]
      BY <1>2 DEF DeleteTarget, TypeOK, Held
    <2>4. QED
      BY <1>2, <2>1, <2>2, <2>3, BagFacts DEF DeleteTarget, TypeOK, tally
  <1>3. ASSUME NEW S \in SUBSET unpublished[a], Publish(a, S)
        PROVE  TypeInv'
    <2>1. at' \in [Worker -> Step] /\ AttemptsLeft'
      BY <1>3, <1>g, <1>s DEF Publish, tally
    <2>2. Distinct(df[a]) \in Rows
      BY BagFacts DEF TypeOK
    <2>3. [r \in Row |-> IF r \in S THEN Distinct(df[a])[r] ELSE 0] \in Rows
      BY <2>2, ArchiveAssumption DEF Rows
    <2>4. compacted' \in Rows
      BY <1>3, <2>3, BagFacts DEF Publish, TypeOK
    <2>5. unpublished' \in [Worker -> SUBSET Row]
      BY <1>3 DEF Publish, TypeOK
    <2>6. QED
      BY <1>3, <2>1, <2>4, <2>5 DEF Publish, TypeOK, tally
  <1>4. CASE RecordCompaction(a)
    <2>1. at' \in [Worker -> Step] /\ AttemptsLeft'
      BY <1>4, <1>g, <1>t, <1>s DEF RecordCompaction
    <2>2. recorded' \in Nat
      <3>1. recorded' = recorded + Count(df[a])
        BY <1>4 DEF RecordCompaction
      <3>2. recorded \in Nat /\ Count(df[a]) \in Nat
        BY CountIsNat DEF TypeOK
      <3>3. QED
        BY <3>1, <3>2
    <2>3. QED
      BY <1>4, <2>1, <2>2 DEF RecordCompaction, TypeOK, locals
  <1>r. ASSUME NEW from \in Path, NEW rows \in Rows, ReadTrades(a, from, rows),
               swallowed' \in BOOLEAN, faults' \in 0..MaxFaults
        PROVE  TypeInv'
    <2>1. at' \in [Worker -> Step] /\ AttemptsLeft'
      BY <1>r, <1>g, <1>s DEF ReadTrades
    <2>2. /\ sourceDf' \in [Worker -> Rows] /\ path' \in [Worker -> Path]
          /\ early' \in BOOLEAN
      BY <1>r DEF ReadTrades, TypeOK
    <2>3. QED
      BY <1>r, <2>1, <2>2 DEF ReadTrades, TypeOK
  <1>5. CASE ReadForDay(a)
    <2>1. UNCHANGED <<swallowed, faults>>
      BY <1>5 DEF ReadForDay
    <2>2. ReadTrades(a, "compacted", compacted) \/ ReadTrades(a, "raw", raw)
      BY <1>5 DEF ReadForDay
    <2>3. QED
      BY <2>1, <2>2, <1>r DEF TypeOK, Path
  <1>6. CASE Collect(a)
    <2>1. at' \in [Worker -> Step] /\ AttemptsLeft'
      BY <1>6, <1>g, <1>s DEF Collect, tally
    <2>2. QED
      BY <1>6, <2>1 DEF Collect, TypeOK, locals, tally
  <1>7. CASE Upsert(a)
    <2>1. at' \in [Worker -> Step] /\ AttemptsLeft'
      BY <1>7, <1>g, <1>s DEF Upsert, tally
    <2>2. summary' \in Rows
      BY <1>7 DEF Upsert, TypeOK
    <2>3. QED
      BY <1>7, <2>1, <2>2 DEF Upsert, TypeOK, locals, tally
  <1>8. CASE RecordSummary(a)
    <2>1. at' \in [Worker -> Step] /\ AttemptsLeft'
      BY <1>8, <1>g, <1>s DEF RecordSummary
    <2>2. recorded' \in Nat
      <3>1. recorded' = recorded + Count(sourceDf[a])
        BY <1>8 DEF RecordSummary
      <3>2. recorded \in Nat /\ Count(sourceDf[a]) \in Nat
        BY CountIsNat DEF TypeOK
      <3>3. QED
        BY <3>1, <3>2
    <2>3. Forget(a) /\ UNCHANGED <<raw, compacted, summary, todo, failures, swallowed, early, faults>>
      BY <1>8 DEF RecordSummary
    <2>4. QED
      BY <2>1, <2>2, <2>3, ForgetKeepsTypes DEF TypeOK
  <1>9. CASE FilesAreGone(a)
    BY <1>9, <1>s, AbandonKeepsTypes DEF FilesAreGone, TypeOK
  <1>10. CASE ReadRawRaises(a)
    <2>1. at' \in [Worker -> Step] /\ AttemptsLeft'
      BY <1>10, <1>g, <1>t, <1>s DEF ReadRawRaises
    <2>2. QED
      BY <1>10, <1>f, <2>1 DEF ReadRawRaises, TypeOK, locals
  <1>11. CASE ReadForDayRaises(a)
    <2>1. swallowed' \in BOOLEAN /\ faults' \in 0..MaxFaults
      BY <1>11, <1>f DEF ReadForDayRaises
    <2>2. ReadTrades(a, "raw", raw) \/ ReadTrades(a, "none", NoRows)
      BY <1>11 DEF ReadForDayRaises
    <2>3. QED
      BY <2>1, <2>2, <1>r, BagFacts DEF TypeOK, Path
  <1>12. CASE Fail(a)
    BY <1>12, <1>f, AbandonKeepsTypes DEF Fail
  <1>13. QED
    BY <1>1, <1>2, <1>3, <1>4, <1>5, <1>6, <1>7, <1>8, <1>9, <1>10, <1>11, <1>12 DEF Advance

LEMMA StartKeepsTypes ==
    ASSUME TypeInv, NEW a \in Worker, NEW job \in {"compact", "daily", "all"}, Start(a, job)
    PROVE  TypeInv'
  <1> USE DEF TypeInv
  <1>1. at' \in [Worker -> Step] /\ todo' \in [Worker -> {"read", "done"}]
    BY DEF Start, Goto, TypeOK, Step, Compacting, Summarizing
  <1>2. at'["dag"] \in Compacting \cup Summarizing \cup {"idle"}
           => at["dag"] \in Compacting \cup Summarizing \cup {"idle"}
    BY DEF Start, Goto, TypeOK, Worker
  <1>3. QED
    BY <1>1, <1>2 DEF Start, TypeOK, AttemptsLeft, locals, tally

LEMMA ArchiveKeepsTypes ==
    ASSUME TypeInv, Archive
    PROVE  TypeInv' /\ Within(raw, raw')
  <1>1. PICK S \in SUBSET Archivable : raw' = Appended(raw, S)
    BY DEF Archive, ArchiveNext, AppendFile
  <1>2. S \subseteq Row
    BY ArchiveAssumption
  <1>3. raw' \in Rows /\ Within(raw, raw')
    BY <1>1, <1>2, BagFacts DEF TypeInv, TypeOK
  <1>4. QED
    BY <1>3 DEF Archive, TypeInv, TypeOK, AttemptsLeft, locals, tally

LEMMA TypeNext == TypeInv /\ [Next]_vars => TypeInv'
  <1> SUFFICES ASSUME TypeInv, [Next]_vars
               PROVE  TypeInv'
    OBVIOUS
  <1>1. CASE Archive
    BY <1>1, ArchiveKeepsTypes
  <1>2. CASE Start("dag", "all")
    BY <1>2, StartKeepsTypes DEF Worker
  <1>3. CASE \E job \in OperatorJobs : Start("operator", job)
    BY <1>3, StartKeepsTypes, BatchAssumption DEF Worker
  <1>4. CASE \E a \in Worker :
                Advance(a) \/ ReadRawRaises(a) \/ ReadForDayRaises(a) \/ Fail(a)
    BY <1>4, StepKeepsTypes
  <1>5. CASE UNCHANGED vars
    BY <1>5 DEF vars, TypeInv, TypeOK, AttemptsLeft, locals, tally
  <1>6. QED
    BY <1>1, <1>2, <1>3, <1>4, <1>5 DEF Next

(* Partition, summary, metrics and the workers' variables keep their types. *)
THEOREM TypeCorrect == Spec => []TypeOK
  <1>1. TypeInv => TypeOK
    BY DEF TypeInv
  <1>2. QED
    BY <1>1, TypeInit, TypeNext, PTL DEF Spec

-----------------------------------------------------------------------------
(***************************************************************************)
(* What the day holds while the DAG alone compacts.  An attempt's DataFrame *)
(* fixes what the partition will hold: once its files are in place exactly *)
(* the rows it read, once each, and between files those that are in place. *)
(* No one else touches the partition before the attempt ends, so that the  *)
(* summary finds it so.                                                    *)
(***************************************************************************)
WithinArchive ==
    /\ Within(compacted, raw)
    /\ Within(summary, raw)
    /\ \A a \in Worker : Within(df[a], raw) /\ Within(sourceDf[a], raw)

Once(b) == \A r \in Row : b[r] <= 1

InPlace(b, missing) ==
    \A r \in Row : compacted[r] = IF b[r] > 0 /\ r \notin missing THEN 1 ELSE 0

DagCompacts ==
    /\ at["operator"] \notin Compacting
    /\ Once(compacted)
    /\ at["dag"] \in {"idle", "compact"} => df["dag"] = NoRows
    /\ at["dag"] = "publish" => InPlace(df["dag"], unpublished["dag"])
    /\ at["dag"] \in {"compact metrics", "read", "collect", "upsert"} /\ df["dag"] # NoRows
          => InPlace(df["dag"], {})
    /\ at["dag"] \in {"collect", "upsert"} /\ df["dag"] # NoRows /\ path["dag"] = "compacted"
          => \A r \in Row : sourceDf["dag"][r] = IF df["dag"][r] > 0 THEN 1 ELSE 0

DayInv == WithinArchive /\ DagCompacts

IInv == TypeInv /\ (DagCompactsAlone => DayInv)

LEMMA WithinTransitive ==
    \A b, c, d \in Rows : Within(b, c) /\ Within(c, d) => Within(b, d)
  <1> SUFFICES ASSUME NEW b \in Rows, NEW c \in Rows, NEW d \in Rows,
                      Within(b, c), Within(c, d)
               PROVE  Within(b, d)
    OBVIOUS
  <1>1. ASSUME NEW r \in Row
        PROVE  b[r] <= d[r]
    <2>1. b[r] \in 0..MaxCopies /\ c[r] \in 0..MaxCopies /\ d[r] \in 0..MaxCopies
      BY DEF Rows
    <2>2. b[r] <= c[r] /\ c[r] <= d[r]
      BY DEF Within
    <2>3. QED
      BY <2>1, <2>2, ArchiveAssumption
  <1>2. QED
    BY <1>1 DEF Within

LEMMA NoRowsWithin == \A b \in Rows : Within(NoRows, b) /\ Within(b, b)
  BY ArchiveAssumption DEF Within, NoRows, Rows

LEMMA DayInit == Init => DayInv
  <1> SUFFICES ASSUME Init
               PROVE  DayInv
    OBVIOUS
  <1>1. raw = NoRows /\ compacted = NoRows /\ summary = NoRows
    BY DEF Init, ArchiveInit
  <1>2. WithinArchive
    <2>1. \A a \in Worker : df[a] = NoRows /\ sourceDf[a] = NoRows
      BY DEF Init
    <2>2. Within(NoRows, NoRows)
      BY NoRowsWithin, BagFacts
    <2>3. QED
      BY <1>1, <2>1, <2>2 DEF WithinArchive
  <1>3. at = [a \in Worker |-> "idle"] /\ df["dag"] = NoRows
    BY DEF Init, Worker
  <1>4. Once(compacted)
    <2>1. \A r \in Row : NoRows[r] = 0
      BY DEF NoRows
    <2>2. \A r \in Row : compacted[r] = 0
      BY <1>1, <2>1
    <2>3. \A n : n = 0 => n <= 1
      OBVIOUS
    <2>4. QED
      BY <2>2, <2>3, Zenon DEF Once
  <1>5. QED
    BY <1>2, <1>3, <1>4 DEF DayInv, DagCompacts, Worker, Compacting

\* Files come in.
LEMMA ArchiveKeepsDay ==
    ASSUME TypeInv, DayInv, Archive
    PROVE  DayInv'
  <1>1. raw \in Rows /\ raw' \in Rows /\ Within(raw, raw')
    BY ArchiveKeepsTypes DEF TypeInv, TypeOK
  <1>2. UNCHANGED <<compacted, summary, at, df, unpublished, sourceDf, path>>
    BY DEF Archive, locals
  <1>3. WithinArchive'
    BY <1>1, <1>2, WithinTransitive DEF DayInv, WithinArchive, TypeInv, TypeOK
  <1>4. DagCompacts'
    BY <1>2 DEF DayInv, DagCompacts, InPlace
  <1>5. QED
    BY <1>3, <1>4 DEF DayInv

(***************************************************************************)
(* A step of the operator's summary leaves the partition and the task of   *)
(* the DAG alone.                                                          *)
(***************************************************************************)
LEMMA OperatorKeepsTask ==
    ASSUME TypeInv, DayInv, UNCHANGED compacted,
           NEW step \in Step \ Compacting, Goto("operator", step),
           df'["dag"] = df["dag"], unpublished'["dag"] = unpublished["dag"],
           sourceDf'["dag"] = sourceDf["dag"], path'["dag"] = path["dag"]
    PROVE  DagCompacts'
  <1>1. at'["operator"] = step /\ at'["dag"] = at["dag"]
    BY DEF Goto, TypeInv, TypeOK, Worker
  <1>2. QED
    BY <1>1 DEF DayInv, DagCompacts, InPlace, Once

LEMMA ForgetKeepsWithin ==
    ASSUME TypeInv, WithinArchive, NEW a \in Worker, Forget(a),
           UNCHANGED <<raw, compacted, summary>>
    PROVE  WithinArchive'
  <1>1. \A w \in Worker : /\ df'[w] = IF w = a THEN NoRows ELSE df[w]
                          /\ sourceDf'[w] = IF w = a THEN NoRows ELSE sourceDf[w]
    BY DEF Forget, TypeInv, TypeOK
  <1>2. raw \in Rows /\ Within(NoRows, raw)
    BY NoRowsWithin DEF TypeInv, TypeOK
  <1>3. QED
    BY <1>1, <1>2 DEF WithinArchive

LEMMA ReadKeepsWithin ==
    ASSUME TypeInv, WithinArchive, NEW a \in Worker, NEW from, NEW rows \in Rows,
           ReadTrades(a, from, rows), Within(rows, raw)
    PROVE  WithinArchive'
  <1>1. \A w \in Worker : sourceDf'[w] = IF w = a THEN rows ELSE sourceDf[w]
    BY DEF ReadTrades, TypeInv, TypeOK
  <1>2. UNCHANGED <<raw, compacted, summary, df>>
    BY DEF ReadTrades
  <1>3. QED
    BY <1>1, <1>2 DEF WithinArchive

LEMMA StepKeepsWithin ==
    ASSUME TypeInv, DayInv, NEW a \in Worker,
           Advance(a) \/ ReadRawRaises(a) \/ ReadForDayRaises(a) \/ Fail(a)
    PROVE  WithinArchive'
  <1>0. WithinArchive /\ raw \in Rows /\ Within(NoRows, raw) /\ Within(raw, raw)
    BY NoRowsWithin DEF DayInv, TypeInv, TypeOK
  <1>1. CASE ReadRaw(a)
    <2>1. \A w \in Worker : df'[w] = IF w = a THEN raw ELSE df[w]
      BY <1>1 DEF ReadRaw, TypeInv, TypeOK
    <2>2. QED
      BY <1>0, <1>1, <2>1 DEF ReadRaw, WithinArchive
  <1>2. CASE DeleteTarget(a)
    BY <1>0, <1>2 DEF DeleteTarget, WithinArchive
  <1>3. ASSUME NEW S \in SUBSET unpublished[a], Publish(a, S)
        PROVE  WithinArchive'
    <2>1. a = "dag" /\ at["dag"] = "publish"
      BY <1>3 DEF DayInv, DagCompacts, Publish, Compacting, Worker
    <2>2. \A r \in Row : compacted[r] \in 0..1 /\ raw[r] \in Nat /\ df["dag"][r] \in Nat
                         /\ df["dag"][r] <= raw[r] /\ compacted[r] <= raw[r]
      <3>1. raw \in Rows /\ compacted \in Rows /\ df["dag"] \in Rows
        BY DEF TypeInv, TypeOK, Worker
      <3>2. \A r \in Row : raw[r] \in Nat /\ compacted[r] \in Nat /\ df["dag"][r] \in Nat
        BY <3>1, ArchiveAssumption DEF Rows
      <3>3. Within(compacted, raw) /\ Within(df["dag"], raw) /\ Once(compacted)
        BY DEF DayInv, DagCompacts, WithinArchive, Worker
      <3>4. ASSUME NEW r \in Row
            PROVE  compacted[r] <= 1 /\ df["dag"][r] <= raw[r] /\ compacted[r] <= raw[r]
        BY <3>3 DEF Within, Once
      <3>5. ASSUME NEW r \in Row
            PROVE  compacted[r] \in 0..1
        <4>1. compacted[r] \in Nat /\ compacted[r] <= 1
          BY <3>2, <3>4
        <4>2. QED
          BY <4>1
      <3>6. QED
        BY <3>2, <3>4, <3>5, Zenon
    <2>3. ASSUME NEW r \in Row
          PROVE  compacted'[r] <= raw[r]
      <3>1. CASE r \in S
        <4>1. compacted[r] = 0
          BY <3>1, <2>1 DEF DayInv, DagCompacts, InPlace
        <4>2. compacted'[r] = Plus(compacted, [x \in Row |-> IF x \in S THEN Distinct(df[a])[x] ELSE 0])[r]
          BY <1>3 DEF Publish
        <4>3. compacted'[r] = Distinct(df["dag"])[r]
          BY <4>1, <4>2, <3>1, <2>1, <2>2, ArchiveAssumption DEF Plus, Distinct
        <4>4. QED
          BY <4>3, <2>2 DEF Distinct
      <3>2. CASE r \notin S
        <4>1. compacted' = Plus(compacted, [x \in Row |-> IF x \in S THEN Distinct(df[a])[x] ELSE 0])
          BY <1>3 DEF Publish
        <4>2. compacted'[r] = IF compacted[r] + 0 <= MaxCopies THEN compacted[r] + 0 ELSE MaxCopies
          BY <4>1, <3>2 DEF Plus
        <4>3. compacted'[r] = compacted[r]
          BY <4>2, <2>2, ArchiveAssumption
        <4>4. QED
          BY <4>3, <2>2
      <3>3. QED
        BY <3>1, <3>2
    <2>4. UNCHANGED <<raw, summary, df, sourceDf>>
      BY <1>3 DEF Publish
    <2>5. QED
      BY <1>0, <2>3, <2>4 DEF WithinArchive, Within
  <1>4. CASE RecordCompaction(a)
    BY <1>0, <1>4 DEF RecordCompaction, WithinArchive, locals
  <1>5. CASE ReadForDay(a)
    BY <1>0, <1>5, ReadKeepsWithin DEF ReadForDay, WithinArchive, TypeInv, TypeOK
  <1>6. CASE Collect(a)
    BY <1>0, <1>6 DEF Collect, WithinArchive, locals
  <1>7. CASE Upsert(a)
    BY <1>0, <1>7 DEF Upsert, WithinArchive, locals
  <1>8. CASE RecordSummary(a)
    BY <1>0, <1>8, ForgetKeepsWithin DEF RecordSummary
  <1>9. CASE FilesAreGone(a)
    BY <1>0, <1>9, ForgetKeepsWithin DEF FilesAreGone, Abandon
  <1>10. CASE ReadRawRaises(a)
    BY <1>0, <1>10 DEF ReadRawRaises, WithinArchive, locals
  <1>11. CASE ReadForDayRaises(a)
    BY <1>0, <1>11, ReadKeepsWithin, BagFacts DEF ReadForDayRaises
  <1>12. CASE Fail(a)
    BY <1>0, <1>12, ForgetKeepsWithin DEF Fail, Abandon
  <1>13. QED
    BY <1>1, <1>2, <1>3, <1>4, <1>5, <1>6, <1>7, <1>8, <1>9, <1>10, <1>11, <1>12 DEF Advance

\* The operator's worker only ever summarizes.
LEMMA OperatorStepKeepsTask ==
    ASSUME TypeInv, DayInv,
           \/ Advance("operator") \/ ReadRawRaises("operator")
           \/ ReadForDayRaises("operator") \/ Fail("operator")
    PROVE  DagCompacts'
  <1>1. at["operator"] \notin Compacting
    BY DEF DayInv, DagCompacts
  <1>2. /\ \A step \in {"compact", "delete", "publish", "compact metrics"} : step \in Compacting
        /\ {"done", "failed", "collect", "upsert", "summary metrics"} \subseteq Step \ Compacting
    BY DEF Compacting, Summarizing, Step
  <1>3. ASSUME NEW from, NEW rows, ReadTrades("operator", from, rows)
        PROVE  DagCompacts'
    <2>1. sourceDf'["dag"] = sourceDf["dag"] /\ path'["dag"] = path["dag"]
      BY <1>3 DEF ReadTrades, TypeInv, TypeOK, Worker
    <2>2. UNCHANGED <<compacted, df, unpublished>>
      BY <1>3 DEF ReadTrades
    <2>3. Goto("operator", "done") \/ Goto("operator", "collect")
      BY <1>3 DEF ReadTrades
    <2>4. QED
      BY <1>2, <2>1, <2>2, <2>3, OperatorKeepsTask
  <1>4. Forget("operator") =>
           /\ df'["dag"] = df["dag"] /\ unpublished'["dag"] = unpublished["dag"]
           /\ sourceDf'["dag"] = sourceDf["dag"] /\ path'["dag"] = path["dag"]
    BY DEF Forget, TypeInv, TypeOK, Worker
  <1>5. CASE ReadForDay("operator")
    BY <1>3, <1>5 DEF ReadForDay
  <1>6. CASE ReadForDayRaises("operator")
    BY <1>3, <1>6 DEF ReadForDayRaises
  <1>7. CASE Collect("operator")
    BY <1>2, <1>7, OperatorKeepsTask DEF Collect, locals
  <1>8. CASE Upsert("operator")
    BY <1>2, <1>8, OperatorKeepsTask DEF Upsert, locals
  <1>9. CASE RecordSummary("operator")
    BY <1>2, <1>4, <1>9, OperatorKeepsTask DEF RecordSummary
  <1>10. ASSUME Abandon("operator")
         PROVE  DagCompacts'
    <2>1. Goto("operator", "failed") /\ Forget("operator") /\ UNCHANGED compacted
      BY <1>10 DEF Abandon
    <2>2. QED
      BY <1>2, <1>4, <2>1, OperatorKeepsTask
  <1>11. CASE FilesAreGone("operator") \/ Fail("operator")
    BY <1>10, <1>11 DEF FilesAreGone, Fail
  <1>12. ~ReadRaw("operator") /\ ~ReadRawRaises("operator") /\ ~DeleteTarget("operator")
    BY <1>1, <1>2 DEF ReadRaw, ReadRawRaises, DeleteTarget
  <1>13. /\ ~RecordCompaction("operator")
         /\ \A S \in SUBSET unpublished["operator"] : ~Publish("operator", S)
    BY <1>1, <1>2 DEF RecordCompaction, Publish
  <1>14. QED
    BY <1>5, <1>6, <1>7, <1>8, <1>9, <1>11, <1>12, <1>13 DEF Advance

\* Each step of the DAG's task keeps what the partition is known to hold.
LEMMA TaskStepKeepsTask ==
    ASSUME TypeInv, DayInv,
           Advance("dag") \/ ReadRawRaises("dag") \/ ReadForDayRaises("dag") \/ Fail("dag")
    PROVE  DagCompacts'
  <1>g. ASSUME NEW step, Goto("dag", step)
        PROVE  at'["dag"] = step /\ at'["operator"] = at["operator"]
    BY <1>g DEF Goto, TypeInv, TypeOK, Worker
  <1>o. at["operator"] \notin Compacting /\ Once(compacted)
    BY DEF DayInv, DagCompacts
  <1>t. todo["dag"] \in {"read", "done"}
    BY DEF TypeInv, TypeOK, Worker
  <1>1. CASE ReadRaw("dag")
    <2>1. at'["dag"] \in {"delete", "read", "done"} /\ at'["operator"] = at["operator"]
      BY <1>1, <1>g, <1>t DEF ReadRaw
    <2>2. df'["dag"] = raw /\ (at'["dag"] # "delete" => raw = NoRows)
      BY <1>1, <1>g, <1>t DEF ReadRaw, TypeInv, TypeOK, Worker
    <2>3. UNCHANGED compacted
      BY <1>1 DEF ReadRaw
    <2>4. QED
      BY <1>o, <2>1, <2>2, <2>3 DEF DagCompacts, Once
  <1>2. CASE DeleteTarget("dag")
    <2>1. at'["dag"] = "publish" /\ at'["operator"] = at["operator"]
      BY <1>2, <1>g DEF DeleteTarget
    <2>2. compacted' = NoRows /\ df' = df
      BY <1>2 DEF DeleteTarget
    <2>3. unpublished'["dag"] = Held(df["dag"])
      BY <1>2 DEF DeleteTarget, TypeInv, TypeOK, Worker
    <2>4. \A r \in Row : compacted'[r] = 0
      BY <2>2 DEF NoRows
    <2>5. Once(compacted)'
      BY <2>4 DEF Once
    <2>6. InPlace(df["dag"], unpublished["dag"])'
      BY <2>2, <2>3, <2>4 DEF InPlace, Held
    <2>7. QED
      BY <1>o, <2>1, <2>5, <2>6 DEF DagCompacts
  <1>3. ASSUME NEW S \in SUBSET unpublished["dag"], Publish("dag", S)
        PROVE  DagCompacts'
    <2>1. at'["dag"] = (IF S = unpublished["dag"] THEN "compact metrics" ELSE "publish")
          /\ at'["operator"] = at["operator"]
      BY <1>3, <1>g DEF Publish
    <2>2. df' = df /\ unpublished'["dag"] = unpublished["dag"] \ S
      BY <1>3 DEF Publish, TypeInv, TypeOK, Worker
    <2>3. InPlace(df["dag"], unpublished["dag"])
      BY <1>3 DEF Publish, DayInv, DagCompacts
    <2>4. InPlace(df["dag"], unpublished["dag"])'
      <3> SUFFICES ASSUME NEW r \in Row
                   PROVE  compacted'[r] = IF df["dag"][r] > 0 /\ r \notin unpublished["dag"] \ S
                                          THEN 1 ELSE 0
        BY <2>2 DEF InPlace
      <3>1. compacted[r] = IF df["dag"][r] > 0 /\ r \notin unpublished["dag"] THEN 1 ELSE 0
        BY <2>3 DEF InPlace
      <3>2. compacted' = Plus(compacted, [x \in Row |-> IF x \in S THEN Distinct(df["dag"])[x] ELSE 0])
        BY <1>3 DEF Publish
      <3>3. CASE r \in S
        <4>1. compacted[r] = 0
          BY <3>1, <3>3
        <4>2. compacted'[r] = (LET n == Distinct(df["dag"])[r] IN
                                 IF 0 + n <= MaxCopies THEN 0 + n ELSE MaxCopies)
          BY <3>2, <3>3, <4>1 DEF Plus
        <4>3. Distinct(df["dag"])[r] = IF df["dag"][r] > 0 THEN 1 ELSE 0
          BY DEF Distinct
        <4>4. compacted'[r] = IF df["dag"][r] > 0 THEN 1 ELSE 0
          BY <4>2, <4>3, ArchiveAssumption
        <4>5. QED
          BY <3>3, <4>4
      <3>4. CASE r \notin S
        <4>1. compacted'[r] = IF compacted[r] + 0 <= MaxCopies THEN compacted[r] + 0 ELSE MaxCopies
          BY <3>2, <3>4 DEF Plus
        <4>2. compacted'[r] = compacted[r]
          BY <4>1, <3>1, ArchiveAssumption
        <4>3. QED
          BY <3>1, <3>4, <4>2
      <3>5. QED
        BY <3>3, <3>4
    <2>5. Once(compacted)'
      BY <2>4 DEF InPlace, Once
    <2>6. S = unpublished["dag"] => InPlace(df["dag"], {})'
      BY <2>2, <2>4 DEF InPlace
    <2>7. QED
      BY <1>o, <2>1, <2>4, <2>5, <2>6 DEF DagCompacts
  <1>4. CASE RecordCompaction("dag")
    <2>1. at'["dag"] \in {"read", "done"} /\ at'["operator"] = at["operator"]
      BY <1>4, <1>g, <1>t DEF RecordCompaction
    <2>2. UNCHANGED <<compacted, df>> /\ at["dag"] = "compact metrics"
      BY <1>4 DEF RecordCompaction, locals
    <2>3. QED
      BY <1>o, <2>1, <2>2 DEF DayInv, DagCompacts, InPlace, Once
  <1>r. ASSUME NEW from, NEW rows, ReadTrades("dag", from, rows),
               from = "compacted" => rows = compacted
        PROVE  DagCompacts'
    <2>1. at'["dag"] \in {"done", "collect"} /\ at'["operator"] = at["operator"]
      BY <1>r, <1>g DEF ReadTrades
    <2>2. sourceDf'["dag"] = rows /\ path'["dag"] = from
      BY <1>r DEF ReadTrades, TypeInv, TypeOK, Worker
    <2>3. UNCHANGED <<compacted, df>> /\ at["dag"] = "read"
      BY <1>r DEF ReadTrades
    <2>4. df["dag"] # NoRows => InPlace(df["dag"], {})
      BY <2>3 DEF DayInv, DagCompacts
    <2>5. df["dag"] # NoRows /\ from = "compacted"
             => \A r \in Row : rows[r] = IF df["dag"][r] > 0 THEN 1 ELSE 0
      BY <1>r, <2>4 DEF InPlace
    <2>6. Once(compacted)' /\ (df'["dag"] # NoRows => InPlace(df["dag"], {})')
      BY <1>o, <2>3, <2>4 DEF Once, InPlace
    <2>7. QED
      BY <1>o, <2>1, <2>2, <2>3, <2>5, <2>6 DEF DagCompacts
  <1>5. CASE ReadForDay("dag")
    <2>1. ReadTrades("dag", "compacted", compacted) \/ ReadTrades("dag", "raw", raw)
      BY <1>5 DEF ReadForDay
    <2>2. QED
      BY <1>r, <2>1
  <1>6. CASE ReadForDayRaises("dag")
    <2>1. ReadTrades("dag", "raw", raw) \/ ReadTrades("dag", "none", NoRows)
      BY <1>6 DEF ReadForDayRaises
    <2>2. QED
      BY <1>r, <2>1
  <1>7. CASE Collect("dag")
    <2>1. at'["dag"] = "upsert" /\ at'["operator"] = at["operator"]
      BY <1>7, <1>g DEF Collect
    <2>2. UNCHANGED <<compacted, df, sourceDf, path>> /\ at["dag"] = "collect"
      BY <1>7 DEF Collect, locals
    <2>3. QED
      BY <1>o, <2>1, <2>2 DEF DayInv, DagCompacts, InPlace, Once
  <1>8. CASE Upsert("dag")
    <2>1. at'["dag"] = "summary metrics" /\ at'["operator"] = at["operator"]
      BY <1>8, <1>g DEF Upsert
    <2>2. UNCHANGED compacted
      BY <1>8 DEF Upsert
    <2>3. QED
      BY <1>o, <2>1, <2>2 DEF DagCompacts, Once
  <1>9. CASE RecordSummary("dag")
    <2>1. at'["dag"] = "done" /\ at'["operator"] = at["operator"]
      BY <1>9, <1>g DEF RecordSummary
    <2>2. UNCHANGED compacted
      BY <1>9 DEF RecordSummary
    <2>3. QED
      BY <1>o, <2>1, <2>2 DEF DagCompacts, Once
  <1>10. CASE ReadRawRaises("dag")
    <2>1. at'["dag"] \in {"read", "done"} /\ at'["operator"] = at["operator"]
      BY <1>10, <1>g, <1>t DEF ReadRawRaises
    <2>2. UNCHANGED <<compacted, df>> /\ at["dag"] = "compact"
      BY <1>10 DEF ReadRawRaises, locals
    <2>3. df["dag"] = NoRows
      BY <2>2 DEF DayInv, DagCompacts
    <2>4. QED
      BY <1>o, <2>1, <2>2, <2>3 DEF DagCompacts, Once
  <1>11. ASSUME Abandon("dag")
         PROVE  DagCompacts'
    <2>1. at'["dag"] \in {"compact", "failed"} /\ at'["operator"] = at["operator"]
      BY <1>11, <1>g DEF Abandon
    <2>2. df'["dag"] = NoRows /\ UNCHANGED compacted
      BY <1>11 DEF Abandon, Forget, TypeInv, TypeOK, Worker
    <2>3. QED
      BY <1>o, <2>1, <2>2 DEF DagCompacts, Once
  <1>12. CASE FilesAreGone("dag") \/ Fail("dag")
    BY <1>11, <1>12 DEF FilesAreGone, Fail
  <1>13. QED
    BY <1>1, <1>2, <1>3, <1>4, <1>5, <1>6, <1>7, <1>8, <1>9, <1>10, <1>12 DEF Advance

LEMMA StartKeepsDay ==
    ASSUME TypeInv, DayInv, NEW a \in Worker, NEW job, Start(a, job),
           a = "operator" => job = "daily"
    PROVE  DayInv'
  <1>1. UNCHANGED <<raw, compacted, summary, df, unpublished, sourceDf, path>>
    BY DEF Start, locals
  <1>2. WithinArchive'
    BY <1>1 DEF DayInv, WithinArchive
  <1>3. CASE a = "operator"
    <2>1. Goto("operator", "read") /\ "read" \in Step \ Compacting
      BY <1>3 DEF Start, Step, Summarizing, Compacting
    <2>2. QED
      BY <1>1, <1>2, <2>1, OperatorKeepsTask DEF DayInv
  <1>4. CASE a = "dag"
    <2>1. at'["dag"] \in {"compact", "read"} /\ at'["operator"] = at["operator"]
      BY <1>4 DEF Start, Goto, TypeInv, TypeOK, Worker
    <2>2. at["dag"] = "idle"
      BY <1>4 DEF Start
    <2>3. df["dag"] = NoRows
      BY <2>2 DEF DayInv, DagCompacts
    <2>4. QED
      BY <1>1, <1>2, <2>1, <2>3 DEF DayInv, DagCompacts, Once
  <1>5. QED
    BY <1>3, <1>4 DEF Worker

LEMMA DayNext ==
    ASSUME TypeInv, DayInv, DagCompactsAlone, [Next]_vars
    PROVE  DayInv'
  <1>1. CASE Archive
    BY <1>1, ArchiveKeepsDay
  <1>2. CASE Start("dag", "all")
    BY <1>2, StartKeepsDay DEF Worker
  <1>3. CASE \E job \in OperatorJobs : Start("operator", job)
    BY <1>3, StartKeepsDay DEF Worker, DagCompactsAlone
  <1>4. ASSUME NEW a \in Worker,
               Advance(a) \/ ReadRawRaises(a) \/ ReadForDayRaises(a) \/ Fail(a)
        PROVE  DayInv'
    BY <1>4, StepKeepsWithin, OperatorStepKeepsTask, TaskStepKeepsTask DEF DayInv, Worker
  <1>5. CASE UNCHANGED vars
    BY <1>5 DEF vars, locals, DayInv, WithinArchive, DagCompacts, Once, InPlace
  <1>6. QED
    BY <1>1, <1>2, <1>3, <1>4, <1>5 DEF Next

LEMMA IInvInit == Init => IInv
  BY TypeInit, DayInit DEF IInv

LEMMA IInvNext == IInv /\ [Next]_vars => IInv'
  <1> SUFFICES ASSUME IInv, [Next]_vars
               PROVE  IInv'
    OBVIOUS
  <1>1. TypeInv'
    BY TypeNext DEF IInv
  <1>2. ASSUME DagCompactsAlone
        PROVE  DayInv'
    BY <1>2, DayNext DEF IInv
  <1>3. DagCompactsAlone' <=> DagCompactsAlone
    BY DEF DagCompactsAlone
  <1>4. QED
    BY <1>1, <1>2, <1>3 DEF IInv

LEMMA Invariance == Spec => []IInv
  BY IInvInit, IInvNext, PTL DEF Spec

(* While the DAG alone compacts, the compacted day has each row once and   *)
(* only rows of the archive, wherever attempts have been cut off.          *)
THEOREM DayIsCompactedOnce == Spec => []CompactedOnce
  <1>1. IInv => CompactedOnce
    BY DEF IInv, DayInv, WithinArchive, DagCompacts, Within, Once, CompactedOnce
  <1>2. QED
    BY <1>1, Invariance, PTL

(* No summary counts a row oftener than the archive holds it.              *)
THEOREM SummariesStayWithinArchive == Spec => []SummaryWithinArchive
  <1>1. IInv => SummaryWithinArchive
    BY DEF IInv, DayInv, WithinArchive, Within, SummaryWithinArchive
  <1>2. QED
    BY <1>1, Invariance, PTL

(* The summary of an attempt that has compacted the day counts each row the *)
(* archive held when it began, exactly once.                               *)
THEOREM SummariesCountOnce == Spec => SummaryCountsOnce
  <1> DEFINE Counts == DagCompactsAlone /\ Upsert("dag")
                       /\ df["dag"] # NoRows /\ path["dag"] = "compacted"
                          => \A r \in Row : summary'[r] = IF df["dag"][r] > 0 THEN 1 ELSE 0
  <1>1. IInv => Counts
    <2> SUFFICES ASSUME IInv, DagCompactsAlone, Upsert("dag"), df["dag"] # NoRows,
                        path["dag"] = "compacted", NEW r \in Row
                 PROVE  summary'[r] = IF df["dag"][r] > 0 THEN 1 ELSE 0
      OBVIOUS
    <2>1. summary' = sourceDf["dag"] /\ at["dag"] = "upsert"
      BY DEF Upsert
    <2>2. \A x \in Row : sourceDf["dag"][x] = IF df["dag"][x] > 0 THEN 1 ELSE 0
      BY <2>1 DEF IInv, DayInv, DagCompacts
    <2>3. QED
      BY <2>1, <2>2
  <1>2. IInv /\ [Next]_vars => [Counts]_vars
    BY <1>1
  <1>3. QED
    BY <1>2, Invariance, PTL DEF Spec, SummaryCountsOnce

-----------------------------------------------------------------------------
(***************************************************************************)
(* What the batch adds to the metrics.  A turn is one count of the day     *)
(* that is already in recorded, or that an attempt has left out: two for   *)
(* each attempt of the DAG that is over, one for the operator's summary.   *)
(* Each count is of rows that the archive holds.                           *)
(***************************************************************************)
TurnsAt(a, step) ==
    IF a = "operator" THEN (IF step = "done" THEN 1 ELSE 0)
    ELSE IF step = "done" THEN 2
    ELSE IF step \in Summarizing THEN 1
    ELSE 0

Turns == 2 * failures + TurnsAt("dag", at["dag"]) + TurnsAt("operator", at["operator"])

TallyInv == recorded <= Turns * Count(raw)

LEMMA TurnsAtRange == \A a, step : TurnsAt(a, step) \in 0..2
  BY DEF TurnsAt

LEMMA TurnsFacts ==
    ASSUME TypeOK
    PROVE  Turns \in Nat /\ Turns <= 2 * failures + 3 /\ failures \in Nat
  BY BatchAssumption DEF TypeOK, Turns, TurnsAt

LEMMA CountGrows == \A b, c \in Rows : Within(b, c) => Count(b) <= Count(c)
  <1> SUFFICES ASSUME NEW b \in Rows, NEW c \in Rows, Within(b, c)
               PROVE  Count(b) <= Count(c)
    OBVIOUS
  <1> DEFINE Copy == Row \X (1..MaxCopies)
             copies(d) == {x \in Copy : x[2] <= d[x[1]]}
  <1>1. IsFiniteSet(Copy)
    <2>1. IsFiniteSet(1..MaxCopies)
      BY FS_Interval, ArchiveAssumption
    <2>2. QED
      BY <2>1, FS_Product, BatchAssumption
  <1>2. IsFiniteSet(copies(c))
    BY <1>1, FS_Subset
  <1>3. ASSUME NEW x \in Copy, x[2] <= b[x[1]]
        PROVE  x[2] <= c[x[1]]
    <2>1. x[1] \in Row /\ x[2] \in Nat /\ b[x[1]] \in Int /\ c[x[1]] \in Int
      BY ArchiveAssumption DEF Rows
    <2>2. b[x[1]] <= c[x[1]]
      BY <2>1 DEF Within
    <2>3. QED
      BY <1>3, <2>1, <2>2
  <1>4. copies(b) \subseteq copies(c)
    BY <1>3
  <1>5. Cardinality(copies(b)) <= Cardinality(copies(c))
    BY <1>2, <1>4, FS_Subset
  <1>6. QED
    BY <1>5 DEF Count

LEMMA Products ==
    \A m, n, c, d, x, y \in Nat :
        /\ x <= m * c /\ m <= n /\ c <= d => x <= n * d
        /\ x <= m * c /\ y <= c /\ m + 1 <= n => x + y <= n * c
  <1> SUFFICES ASSUME NEW m \in Nat, NEW n \in Nat, NEW c \in Nat, NEW d \in Nat,
                      NEW x \in Nat, NEW y \in Nat, x <= m * c
               PROVE  /\ m <= n /\ c <= d => x <= n * d
                      /\ y <= c /\ m + 1 <= n => x + y <= n * c
    OBVIOUS
  <1>1. ASSUME NEW i \in Nat, NEW j \in Nat, NEW k \in Nat, i <= j
        PROVE  i * k <= j * k /\ k * i <= k * j
    <2>1. j - i \in Nat
      BY <1>1
    <2>2. (j - i) * k \in Nat /\ i * k \in Nat
      BY <2>1
    <2>3. j * k = i * k + (j - i) * k
      BY <2>1, Z3
    <2>4. i * k <= j * k
      BY <2>2, <2>3
    <2>5. QED
      BY <2>4
  <1>2. m * c \in Nat /\ n * c \in Nat /\ n * d \in Nat
    OBVIOUS
  <1>3. ASSUME m <= n, c <= d
        PROVE  x <= n * d
    <2>1. m * c <= n * c /\ n * c <= n * d
      BY <1>1, <1>3
    <2>2. QED
      BY <1>2, <2>1
  <1>4. ASSUME y <= c, m + 1 <= n
        PROVE  x + y <= n * c
    <2>1. (m + 1) * c <= n * c
      BY <1>1, <1>4
    <2>2. (m + 1) * c = m * c + c
      OBVIOUS
    <2>3. QED
      BY <1>2, <1>4, <2>1, <2>2
  <1>5. QED
    BY <1>3, <1>4

\* A step that records nothing, and one that records rows of the archive.
LEMMA NothingRecorded ==
    ASSUME TypeInv, TypeInv', TallyInv, UNCHANGED recorded, Within(raw, raw'),
           Turns <= Turns'
    PROVE  TallyInv'
  <1>1. Turns \in Nat /\ Turns' \in Nat
    <2>1. failures \in Nat /\ failures' \in Nat
      BY BatchAssumption DEF TypeInv, TypeOK
    <2>2. /\ TurnsAt("dag", at["dag"]) \in 0..2 /\ TurnsAt("dag", at'["dag"]) \in 0..2
          /\ TurnsAt("operator", at["operator"]) \in 0..2
          /\ TurnsAt("operator", at'["operator"]) \in 0..2
      BY TurnsAtRange
    <2>3. Turns' = 2 * failures' + TurnsAt("dag", at'["dag"])
                   + TurnsAt("operator", at'["operator"])
      BY DEF Turns, TurnsAt
    <2>4. QED
      BY <2>1, <2>2, <2>3 DEF Turns
  <1>2. Count(raw) \in Nat /\ Count(raw)' \in Nat /\ Count(raw) <= Count(raw)'
    <2>1. raw \in Rows /\ raw' \in Rows
      BY DEF TypeInv, TypeOK
    <2>2. Count(raw)' = Count(raw')
      BY DEF Count
    <2>3. QED
      BY <2>1, <2>2, CountIsNat, CountGrows
  <1>3. recorded \in Nat
    BY DEF TypeInv, TypeOK
  <1>4. QED
    BY <1>1, <1>2, <1>3, Products DEF TallyInv

LEMMA RowsRecorded ==
    ASSUME TypeInv, TypeInv', TallyInv, UNCHANGED raw,
           NEW b \in Rows, Within(b, raw), recorded' = recorded + Count(b),
           Turns + 1 <= Turns'
    PROVE  TallyInv'
  <1>1. Turns \in Nat /\ Turns' \in Nat
    <2>1. failures \in Nat /\ failures' \in Nat
      BY BatchAssumption DEF TypeInv, TypeOK
    <2>2. /\ TurnsAt("dag", at["dag"]) \in 0..2 /\ TurnsAt("dag", at'["dag"]) \in 0..2
          /\ TurnsAt("operator", at["operator"]) \in 0..2
          /\ TurnsAt("operator", at'["operator"]) \in 0..2
      BY TurnsAtRange
    <2>3. Turns' = 2 * failures' + TurnsAt("dag", at'["dag"])
                   + TurnsAt("operator", at'["operator"])
      BY DEF Turns, TurnsAt
    <2>4. QED
      BY <2>1, <2>2, <2>3 DEF Turns
  <1>2. Count(raw) \in Nat /\ Count(raw)' = Count(raw) /\ Count(b) \in Nat
        /\ Count(b) <= Count(raw) /\ recorded \in Nat
    BY CountIsNat, CountGrows DEF TypeInv, TypeOK, Count
  <1>3. recorded + Count(b) <= Turns' * Count(raw)
    BY <1>1, <1>2, Products DEF TallyInv
  <1>4. QED
    BY <1>2, <1>3 DEF TallyInv

LEMMA GotoTurns ==
    ASSUME TypeInv, NEW a \in Worker, NEW step \in Step, Goto(a, step),
           UNCHANGED failures, NEW d \in 0..1,
           TurnsAt(a, at[a]) + d <= TurnsAt(a, step)
    PROVE  Turns + d <= Turns'
  <1>1. at'[a] = step /\ \A w \in Worker : w # a => at'[w] = at[w]
    BY DEF Goto, TypeInv, TypeOK
  <1>2. \A w, x : TurnsAt(w, x) \in 0..2
    BY DEF TurnsAt
  <1>3. failures \in Nat
    BY TurnsFacts DEF TypeInv
  <1>4. Turns' = 2 * failures + TurnsAt("dag", at'["dag"])
                 + TurnsAt("operator", at'["operator"])
    BY DEF Turns, TurnsAt
  <1>5. CASE a = "dag"
    BY <1>1, <1>2, <1>3, <1>4, <1>5 DEF Turns, Worker
  <1>6. CASE a = "operator"
    BY <1>1, <1>2, <1>3, <1>4, <1>6 DEF Turns, Worker
  <1>7. QED
    BY <1>5, <1>6 DEF Worker

LEMMA AbandonTurns ==
    ASSUME TypeInv, NEW a \in Worker, Abandon(a), at[a] \in Compacting \cup Summarizing
    PROVE  Turns <= Turns'
  <1>1. /\ a = "dag" => at'["dag"] \in {"compact", "failed"}
        /\ a = "operator" => at'["operator"] = "failed"
        /\ \A w \in Worker : w # a => at'[w] = at[w]
        /\ failures' = IF a = "dag" THEN failures + 1 ELSE failures
    BY DEF Abandon, Goto, TypeInv, TypeOK, Worker
  <1>2. failures \in Nat
    BY TurnsFacts DEF TypeInv
  <1>3. Turns' = 2 * failures' + TurnsAt("dag", at'["dag"])
                 + TurnsAt("operator", at'["operator"])
    BY DEF Turns, TurnsAt
  <1>4. CASE a = "dag"
    <2>1. \A x : TurnsAt("dag", x) \in 0..2 /\ TurnsAt("operator", x) \in 0..1
      BY DEF TurnsAt
    <2>2. failures' = failures + 1 /\ at'["operator"] = at["operator"]
      BY <1>1, <1>4 DEF Worker
    <2>3. QED
      BY <1>2, <1>3, <2>1, <2>2 DEF Turns
  <1>5. CASE a = "operator"
    <2>1. at["operator"] # "done"
      BY <1>5 DEF Compacting, Summarizing
    <2>2. failures' = failures /\ at'["dag"] = at["dag"] /\ at'["operator"] = "failed"
      BY <1>1, <1>5 DEF Worker
    <2>3. TurnsAt("operator", at["operator"]) = 0 /\ TurnsAt("operator", "failed") = 0
      BY <2>1 DEF TurnsAt
    <2>4. Turns' = Turns
      BY <1>3, <2>2, <2>3 DEF Turns
    <2>5. Turns \in Nat
      BY TurnsFacts DEF TypeInv
    <2>6. QED
      BY <2>4, <2>5
  <1>6. QED
    BY <1>4, <1>5 DEF Worker

LEMMA Onward ==
    ASSUME NEW a \in Worker, NEW s, NEW t,
           \/ s \in Compacting \cup {"idle"}
           \/ s \in Summarizing /\ t \in Summarizing \cup {"done"}
    PROVE  TurnsAt(a, s) <= TurnsAt(a, t)
  <1>1. CASE s \in Compacting \cup {"idle"}
    <2>1. TurnsAt(a, s) = 0
      BY <1>1 DEF TurnsAt, Compacting, Summarizing
    <2>2. TurnsAt(a, t) \in 0..2
      BY TurnsAtRange
    <2>3. QED
      BY <2>1, <2>2
  <1>2. CASE s \in Summarizing /\ t \in Summarizing \cup {"done"}
    <2>1. CASE a = "operator"
      <3>1. TurnsAt(a, s) = 0
        BY <1>2, <2>1 DEF TurnsAt, Summarizing
      <3>2. TurnsAt(a, t) \in 0..2
        BY TurnsAtRange
      <3>3. QED
        BY <3>1, <3>2
    <2>2. CASE a = "dag"
      <3>1. TurnsAt(a, s) = 1
        BY <1>2, <2>2 DEF TurnsAt, Summarizing
      <3>2. TurnsAt(a, t) = 1 \/ TurnsAt(a, t) = 2
        BY <1>2, <2>2 DEF TurnsAt, Summarizing
      <3>3. QED
        BY <3>1, <3>2
    <2>3. QED
      BY <2>1, <2>2 DEF Worker
  <1>3. QED
    BY <1>1, <1>2

LEMMA Counted ==
    /\ TurnsAt("dag", "compact metrics") + 1 <= TurnsAt("dag", "read")
    /\ TurnsAt("dag", "compact metrics") + 1 <= TurnsAt("dag", "done")
    /\ TurnsAt("dag", "summary metrics") + 1 <= TurnsAt("dag", "done")
    /\ TurnsAt("operator", "summary metrics") + 1 <= TurnsAt("operator", "done")
  <1>1. TurnsAt("dag", "compact metrics") + 1 <= TurnsAt("dag", "read")
    BY DEF TurnsAt, Summarizing
  <1>2. TurnsAt("dag", "compact metrics") + 1 <= TurnsAt("dag", "done")
    BY DEF TurnsAt, Summarizing
  <1>3. TurnsAt("dag", "summary metrics") + 1 <= TurnsAt("dag", "done")
    BY DEF TurnsAt, Summarizing
  <1>4. TurnsAt("operator", "summary metrics") + 1 <= TurnsAt("operator", "done")
    BY DEF TurnsAt, Summarizing
  <1>5. QED
    BY <1>1, <1>2, <1>3, <1>4

\* A worker goes on and records nothing.
LEMMA QuietStep ==
    ASSUME TypeInv, TypeInv', TallyInv, NEW a \in Worker, NEW step \in Step,
           Goto(a, step), UNCHANGED <<raw, failures, recorded>>,
           TurnsAt(a, at[a]) <= TurnsAt(a, step)
    PROVE  TallyInv'
  <1>1. 0 \in 0..1 /\ TurnsAt(a, at[a]) + 0 <= TurnsAt(a, step)
    BY TurnsAtRange
  <1>2. Turns + 0 <= Turns'
    BY <1>1, GotoTurns
  <1>3. Turns <= Turns'
    BY <1>2, TurnsFacts DEF TypeInv
  <1>4. Within(raw, raw')
    BY NoRowsWithin DEF TypeInv, TypeOK
  <1>5. QED
    BY <1>3, <1>4, NothingRecorded

\* A job writes its metrics row and is over.
LEMMA LoudStep ==
    ASSUME TypeInv, TypeInv', TallyInv, NEW a \in Worker, NEW step \in Step,
           Goto(a, step), UNCHANGED <<raw, failures>>,
           NEW b \in Rows, Within(b, raw), recorded' = recorded + Count(b),
           TurnsAt(a, at[a]) + 1 <= TurnsAt(a, step)
    PROVE  TallyInv'
  <1>1. 1 \in 0..1
    OBVIOUS
  <1>2. Turns + 1 <= Turns'
    BY <1>1, GotoTurns
  <1>3. QED
    BY <1>2, RowsRecorded

LEMMA ReadKeepsTally ==
    ASSUME TypeInv, TypeInv', TallyInv, NEW a \in Worker, NEW from, NEW rows,
           ReadTrades(a, from, rows)
    PROVE  TallyInv'
  <1>1. PICK step \in {"done", "collect"} : Goto(a, step)
    BY DEF ReadTrades
  <1>2. at[a] = "read" /\ UNCHANGED <<raw, failures, recorded>>
    BY DEF ReadTrades
  <1>3. step \in Step /\ TurnsAt(a, at[a]) <= TurnsAt(a, step)
    <2>1. step \in Summarizing \cup {"done"} /\ at[a] \in Summarizing
      BY <1>2 DEF Summarizing
    <2>2. QED
      BY <2>1, Onward DEF Step
  <1>4. QED
    BY <1>1, <1>2, <1>3, QuietStep

LEMMA AbandonKeepsTally ==
    ASSUME TypeInv, TypeInv', TallyInv, NEW a \in Worker, Abandon(a),
           at[a] \in Compacting \cup Summarizing
    PROVE  TallyInv'
  <1>1. UNCHANGED <<raw, recorded>>
    BY DEF Abandon
  <1>2. Within(raw, raw')
    BY <1>1, NoRowsWithin DEF TypeInv, TypeOK
  <1>3. QED
    BY <1>1, <1>2, AbandonTurns, NothingRecorded

LEMMA StepKeepsTally ==
    ASSUME TypeInv, TypeInv', DayInv, TallyInv, NEW a \in Worker,
           Advance(a) \/ ReadRawRaises(a) \/ ReadForDayRaises(a) \/ Fail(a)
    PROVE  TallyInv'
  <1>t. todo[a] \in {"read", "done"}
    BY DEF TypeInv, TypeOK
  <1>1. CASE ReadRaw(a) \/ ReadRawRaises(a)
    <2>1. PICK step \in {"read", "done", "delete"} : Goto(a, step)
      BY <1>1, <1>t DEF ReadRaw, ReadRawRaises
    <2>2. at[a] = "compact" /\ UNCHANGED <<raw, failures, recorded>>
      BY <1>1 DEF ReadRaw, ReadRawRaises, tally
    <2>3. step \in Step /\ TurnsAt(a, at[a]) <= TurnsAt(a, step)
      <3>1. at[a] \in Compacting \cup {"idle"} /\ step \in Step
        BY <2>2 DEF Step, Compacting, Summarizing
      <3>2. QED
        BY <3>1, Onward
    <2>4. QED
      BY <2>1, <2>2, <2>3, QuietStep
  <1>2. CASE DeleteTarget(a)
    <2>1. at[a] = "delete" /\ Goto(a, "publish") /\ UNCHANGED <<raw, failures, recorded>>
      BY <1>2 DEF DeleteTarget, tally
    <2>2. "publish" \in Step /\ TurnsAt(a, at[a]) <= TurnsAt(a, "publish")
      <3>1. at[a] \in Compacting \cup {"idle"} /\ "publish" \in Step
        BY <2>1 DEF Step, Compacting, Summarizing
      <3>2. QED
        BY <3>1, Onward
    <2>3. QED
      BY <2>1, <2>2, QuietStep
  <1>3. ASSUME NEW S \in SUBSET unpublished[a], Publish(a, S)
        PROVE  TallyInv'
    <2>1. PICK step \in {"compact metrics", "publish"} : Goto(a, step)
      BY <1>3 DEF Publish
    <2>2. at[a] = "publish" /\ UNCHANGED <<raw, failures, recorded>>
      BY <1>3 DEF Publish, tally
    <2>3. step \in Step /\ TurnsAt(a, at[a]) <= TurnsAt(a, step)
      <3>1. at[a] \in Compacting \cup {"idle"} /\ step \in Step
        BY <2>2 DEF Step, Compacting, Summarizing
      <3>2. QED
        BY <3>1, Onward
    <2>4. QED
      BY <2>1, <2>2, <2>3, QuietStep
  <1>4. CASE RecordCompaction(a)
    <2>1. /\ at[a] = "compact metrics" /\ Goto(a, todo[a])
          /\ recorded' = recorded + Count(df[a]) /\ UNCHANGED <<raw, failures>>
      BY <1>4 DEF RecordCompaction
    <2>2. a = "dag"
      BY <2>1 DEF DayInv, DagCompacts, Worker, Compacting
    <2>3. todo[a] \in Step /\ TurnsAt(a, at[a]) + 1 <= TurnsAt(a, todo[a])
      BY <1>t, <2>1, <2>2, Counted DEF Step, Summarizing
    <2>4. df[a] \in Rows /\ Within(df[a], raw)
      BY DEF DayInv, WithinArchive, TypeInv, TypeOK
    <2>5. QED
      BY <2>1, <2>3, <2>4, LoudStep
  <1>5. CASE ReadForDay(a) \/ ReadForDayRaises(a)
    <2>1. PICK from, rows : ReadTrades(a, from, rows)
      BY <1>5 DEF ReadForDay, ReadForDayRaises
    <2>2. QED
      BY <2>1, ReadKeepsTally
  <1>6. CASE Collect(a)
    <2>1. at[a] = "collect" /\ Goto(a, "upsert") /\ UNCHANGED <<raw, failures, recorded>>
      BY <1>6 DEF Collect, tally
    <2>2. "upsert" \in Step /\ TurnsAt(a, at[a]) <= TurnsAt(a, "upsert")
      <3>1. at[a] \in Summarizing /\ "upsert" \in Summarizing
        BY <2>1 DEF Summarizing
      <3>2. QED
        BY <3>1, Onward DEF Step
    <2>3. QED
      BY <2>1, <2>2, QuietStep
  <1>7. CASE Upsert(a)
    <2>1. /\ at[a] = "upsert" /\ Goto(a, "summary metrics")
          /\ UNCHANGED <<raw, failures, recorded>>
      BY <1>7 DEF Upsert, tally
    <2>2. "summary metrics" \in Step /\ TurnsAt(a, at[a]) <= TurnsAt(a, "summary metrics")
      <3>1. at[a] \in Summarizing /\ "summary metrics" \in Summarizing
        BY <2>1 DEF Summarizing
      <3>2. QED
        BY <3>1, Onward DEF Step
    <2>3. QED
      BY <2>1, <2>2, QuietStep
  <1>8. CASE RecordSummary(a)
    <2>1. /\ at[a] = "summary metrics" /\ Goto(a, "done")
          /\ recorded' = recorded + Count(sourceDf[a]) /\ UNCHANGED <<raw, failures>>
      BY <1>8 DEF RecordSummary
    <2>2. "done" \in Step /\ TurnsAt(a, at[a]) + 1 <= TurnsAt(a, "done")
      BY <2>1, Counted DEF Step, Worker
    <2>3. sourceDf[a] \in Rows /\ Within(sourceDf[a], raw)
      BY DEF DayInv, WithinArchive, TypeInv, TypeOK
    <2>4. QED
      BY <2>1, <2>2, <2>3, LoudStep
  <1>9. CASE FilesAreGone(a) \/ Fail(a)
    <2>1. Abandon(a) /\ at[a] \in Compacting \cup Summarizing
      BY <1>9 DEF FilesAreGone, Fail, Compacting, Summarizing
    <2>2. QED
      BY <2>1, AbandonKeepsTally
  <1>10. QED
    BY <1>1, <1>2, <1>3, <1>4, <1>5, <1>6, <1>7, <1>8, <1>9 DEF Advance

LEMMA TallyNext ==
    ASSUME TypeInv, TypeInv', DayInv, TallyInv, [Next]_vars
    PROVE  TallyInv'
  <1>1. CASE Archive
    <2>1. UNCHANGED <<at, failures, recorded>> /\ Within(raw, raw')
      BY <1>1, ArchiveKeepsTypes DEF Archive, tally
    <2>2. Turns' = Turns
      BY <2>1 DEF Turns, TurnsAt
    <2>3. Turns <= Turns'
      BY <2>2, TurnsFacts DEF TypeInv
    <2>4. QED
      BY <2>1, <2>3, NothingRecorded
  <1>2. ASSUME NEW a \in Worker, NEW job, Start(a, job)
        PROVE  TallyInv'
    <2>1. PICK step \in {"read", "compact"} : Goto(a, step)
      BY <1>2 DEF Start
    <2>2. at[a] = "idle" /\ UNCHANGED <<raw, failures, recorded>>
      BY <1>2 DEF Start, tally
    <2>3. step \in Step /\ TurnsAt(a, at[a]) <= TurnsAt(a, step)
      <3>1. at[a] \in Compacting \cup {"idle"} /\ step \in Step
        BY <2>2 DEF Step, Compacting, Summarizing
      <3>2. QED
        BY <3>1, Onward
    <2>4. QED
      BY <2>1, <2>2, <2>3, QuietStep
  <1>3. CASE UNCHANGED vars
    BY <1>3 DEF vars, tally, TallyInv, Turns, TurnsAt, Count
  <1>4. QED
    BY <1>1, <1>2, <1>3, StepKeepsTally DEF Next, Worker

LEMMA TallyInit == Init => TallyInv
  <1> SUFFICES ASSUME Init
               PROVE  TallyInv
    OBVIOUS
  <1>1. TypeOK /\ raw \in Rows
    BY TypeInit DEF TypeInv, TypeOK
  <1>2. recorded = 0 /\ Turns \in Nat /\ Count(raw) \in Nat
    BY <1>1, TurnsFacts, CountIsNat DEF Init
  <1>3. \A m, n \in Nat : 0 <= m * n
    OBVIOUS
  <1>4. QED
    BY <1>2, <1>3 DEF TallyInv

(* A day that is bad even after all that the batch can have added to its   *)
(* metrics fails the gate, whatever attempts have failed and whoever has   *)
(* summarized it.                                                          *)
THEOREM DilutionStaysBounded == Spec => []DilutionIsBounded
  <1> DEFINE TInv == IInv /\ (DagCompactsAlone => TallyInv)
  <1>1. Init => TInv
    BY IInvInit, TallyInit
  <1>2. TInv /\ [Next]_vars => TInv'
    <2> SUFFICES ASSUME TInv, [Next]_vars
                 PROVE  TInv'
      OBVIOUS
    <2>1. IInv'
      BY IInvNext
    <2>2. DagCompactsAlone' <=> DagCompactsAlone
      BY DEF DagCompactsAlone
    <2>3. ASSUME DagCompactsAlone
          PROVE  TallyInv'
      BY <2>1, <2>3, TallyNext DEF IInv
    <2>4. QED
      BY <2>1, <2>2, <2>3
  <1>3. TInv => DilutionIsBounded
    <2> SUFFICES ASSUME IInv, TallyInv, RecordsDlq > 0,
                        100 * RecordsDlq >= FailPercent * (RecordsIn + OtherIn + Dilution)
                 PROVE  Gate = "fail"
      BY DEF DilutionIsBounded
    <2> DEFINE all == RecordsIn + OtherIn + recorded
    <2>1. recorded \in Nat /\ Count(raw) \in Nat
      BY CountIsNat DEF IInv, TypeInv, TypeOK
    <2>2. Turns \in Nat /\ 2 * failures + 3 \in Nat /\ Turns <= 2 * failures + 3
      BY TurnsFacts DEF IInv, TypeInv
    <2>3. recorded <= Dilution /\ Dilution \in Nat
      BY <2>1, <2>2, Products DEF TallyInv, Dilution
    <2>4. RecordsIn \in Nat /\ RecordsDlq \in 0..RecordsIn /\ OtherIn \in Nat /\ FailPercent \in Nat
      BY BatchAssumption, ThresholdAssumption
    <2>5. all \in Nat /\ all > 0 /\ all <= RecordsIn + OtherIn + Dilution
      BY <2>1, <2>3, <2>4
    <2>6. FailPercent * all <= FailPercent * (RecordsIn + OtherIn + Dilution)
      <3>1. \A m, n \in Nat : m <= n => FailPercent * m <= FailPercent * n
        BY <2>4, Products
      <3>2. RecordsIn + OtherIn + Dilution \in Nat
        BY <2>3, <2>4
      <3>3. QED
        BY <2>5, <3>1, <3>2
    <2>7. 100 * RecordsDlq >= FailPercent * all
      <3>1. /\ FailPercent * all \in Nat /\ 100 * RecordsDlq \in Nat
            /\ FailPercent * (RecordsIn + OtherIn + Dilution) \in Nat
        BY <2>3, <2>4, <2>5
      <3>2. \A x, y, z \in Nat : x >= y /\ z <= y => x >= z
        OBVIOUS
      <3>3. QED
        BY <2>6, <3>1, <3>2
    <2>8. QED
      BY <2>5, <2>7 DEF Gate, Status, Reaches
  <1>4. QED
    BY <1>1, <1>2, <1>3, PTL DEF Spec
=============================================================================
