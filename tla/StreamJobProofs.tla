-------------------------- MODULE StreamJobProofs --------------------------
(***************************************************************************)
(* What StreamJob guarantees for every set of events, every watermark,     *)
(* window and lateness, and any number of records, failures and ticks.     *)
(***************************************************************************)
EXTENDS StreamJob, TLAPS

-----------------------------------------------------------------------------
(***************************************************************************)
(* Checkpoints: what has been committed and planned is in the topic, and a *)
(* query in the middle of a batch has that batch in its offset log.        *)
(***************************************************************************)
BatchStage(q) == IF q = "validated" THEN {"parquet", "dlq", "metrics", "commit"}
                                    ELSE {"upsert", "metrics", "commit"}

CheckpointOK ==
    /\ deleted <= Len(log)
    /\ \A q \in Query :
          /\ start[q] <= done[q] /\ done[q] <= Len(log) /\ plan[q].to <= Len(log)
          /\ start[q] = -1 => done[q] = 0 /\ q \notin pending
          /\ q \in pending => done[q] <= plan[q].to
          /\ pc[q] \in BatchStage(q) \cup {"stopped", "idle", "failed"}
          /\ pc[q] \in BatchStage(q) => q \in pending

Inv0 == TypeOK /\ CheckpointOK

(***************************************************************************)
(* Copied keeps a sink a function from offsets to copies, adds to the      *)
(* offsets of S and leaves the others alone.                               *)
(***************************************************************************)
LEMMA CopiedFacts ==
    ASSUME NEW f \in [Offset -> Copies], NEW S
    PROVE  /\ Copied(f, S) \in [Offset -> Copies]
           /\ \A o \in Offset : o \in S => Copied(f, S)[o] > 0
           /\ \A o \in Offset : o \notin S => Copied(f, S)[o] = f[o]
           /\ \A o \in Offset : f[o] > 0 => Copied(f, S)[o] > 0
  BY BoundsAssumption DEF Copied, Copies

(***************************************************************************)
(* A time is before the end of its window.                                 *)
(***************************************************************************)
LEMMA WindowFacts ==
    ASSUME NEW t \in Int
    PROVE  WindowEnd(t) \in Int /\ t < WindowEnd(t)
  BY TimesAssumption, Z3 DEF WindowEnd

LEMMA KeyFacts ==
    ASSUME NEW e \in Event
    PROVE  /\ KeyOf(e) \in Key
           /\ TimeOf[e] \in Int
           /\ EndOf(KeyOf(e)) \in Int
           /\ TimeOf[e] < EndOf(KeyOf(e))
  <1>1. TimeOf[e] \in Int
    BY TimesAssumption
  <1>2. QED
    BY <1>1, WindowFacts DEF KeyOf, Key, EndOf

(***************************************************************************)
(* A planned batch lies in the topic.                                      *)
(***************************************************************************)
LEMMA BatchFacts ==
    ASSUME Inv0, NEW q \in Query, NEW o \in Batch(q)
    PROVE  /\ o \in Offset /\ o \in Nat
           /\ o \in 1..Len(log)
           /\ log[o] \in Event
  <1>1. /\ o \in Offset /\ o \in Planned(q)
        /\ log \in Seq(Event) /\ plan[q].to <= Len(log)
    BY DEF Inv0, TypeOK, CheckpointOK, Batch, Planned
  <1>2. plan[q].to \in Int /\ Len(log) \in Nat /\ Offset \subseteq Nat \ {0}
    BY BoundsAssumption DEF Inv0, TypeOK, Offset
  <1>3. QED
    BY <1>1, <1>2 DEF Planned

LEMMA AcceptedFacts ==
    ASSUME Inv0
    PROVE  /\ Accepted \subseteq Offset
           /\ \A o \in Accepted : /\ o \in 1..Len(log) /\ log[o] \in Event
                                  /\ KeyOf(log[o]) \in Updated
                                  /\ TimeOf[log[o]] > wm
                                  /\ log[o] \notin seen
           /\ Updated \subseteq Key
           /\ \A k \in Key : Contribution(k) \subseteq Offset
           /\ \A k \in Key : Aggregate(k) \subseteq Offset
           /\ Upserted \in [Key -> SUBSET Offset]
  <1>1. "candles" \in Query
    BY DEF Query
  <1>2. \A o \in Accepted : o \in Batch("candles")
    BY DEF Accepted, Fresh, Valid
  <1>3. \A o \in Accepted : /\ o \in Offset /\ o \in 1..Len(log)
                            /\ log[o] \in Event
    BY <1>1, <1>2, BatchFacts
  <1>4. \A o \in Accepted : TimeOf[log[o]] > wm /\ log[o] \notin seen
    BY DEF Accepted, Fresh
  <1>5. Updated \subseteq Key
    BY <1>3, KeyFacts DEF Updated
  <1>6. \A k \in Key : open[k] \subseteq Offset /\ candles[k] \subseteq Offset
    BY DEF Inv0, TypeOK
  <1>7. \A k \in Key : Contribution(k) \subseteq Offset
    BY <1>3 DEF Contribution
  <1>8. \A k \in Key : Aggregate(k) \subseteq Offset
    BY <1>6, <1>7 DEF Aggregate
  <1>9. Upserted \in [Key -> SUBSET Offset]
    BY <1>6, <1>8 DEF Upserted
  <1>10. QED
    BY <1>3, <1>4, <1>5, <1>7, <1>8, <1>9 DEF Updated

(***************************************************************************)
(* What an interrupted query leaves in the sinks is of the sinks' type.    *)
(***************************************************************************)
LEMMA InFlightType ==
    ASSUME Inv0, NEW Q \in SUBSET Query, InFlight(Q)
    PROVE  /\ raw' \in [Offset -> Copies]
           /\ dlq' \in [Offset -> Copies]
           /\ candles' \in [Key -> SUBSET Offset]
           /\ metered' \in [Query -> [Offset -> Copies]]
  <1>1. \A f \in [Offset -> Copies] : \A S : Copied(f, S) \in [Offset -> Copies]
    BY CopiedFacts
  <1>2. raw' \in [Offset -> Copies]
    <2>1. PICK S \in SUBSET Valid("validated") : raw' = Copied(raw, S)
      BY DEF InFlight
    <2>2. QED
      BY <1>1, <2>1 DEF Inv0, TypeOK
  <1>3. dlq' \in [Offset -> Copies]
    <2>1. PICK S \in SUBSET Invalid("validated") : dlq' = Copied(dlq, S)
      BY DEF InFlight
    <2>2. QED
      BY <1>1, <2>1 DEF Inv0, TypeOK
  <1>4. candles' \in [Key -> SUBSET Offset]
    BY AcceptedFacts DEF Inv0, TypeOK, InFlight
  <1>5. metered' \in [Query -> [Offset -> Copies]]
    <2>1. PICK R \in SUBSET {q \in Query : Interrupted(Q, q, "metrics")} :
             metered' = [q \in Query |-> IF q \in R
                                         THEN Copied(metered[q], Batch(q))
                                         ELSE metered[q]]
      BY DEF InFlight
    <2>2. \A q \in Query : /\ metered[q] \in [Offset -> Copies]
                           /\ Copied(metered[q], Batch(q)) \in [Offset -> Copies]
      BY <1>1 DEF Inv0, TypeOK
    <2>3. QED
      BY <2>1, <2>2
  <1>6. QED
    BY <1>2, <1>3, <1>4, <1>5

-----------------------------------------------------------------------------
LEMMA Inv0Init == Init => Inv0
  BY BoundsAssumption DEF Init, Inv0, TypeOK, CheckpointOK, Query, Stage, Copies,
                          BatchStage

LEMMA Inv0Next == Inv0 /\ [Next]_vars => Inv0'
  <1> SUFFICES ASSUME Inv0, [Next]_vars
               PROVE  Inv0'
    OBVIOUS
  <1> USE DEF Query
  <1>0. /\ Len(log) \in Nat /\ deleted \in Int /\ MaxLog \in Nat
        /\ \A q \in Query : /\ start[q] \in Int /\ done[q] \in Int
                            /\ plan[q].to \in Int /\ plan[q].ts \in Int
    BY BoundsAssumption DEF Inv0, TypeOK
  <1>1. ASSUME NEW e \in Event, Publish(e)
        PROVE  Inv0'
    <2>1. log' \in Seq(Event) /\ Len(log') = Len(log) + 1
      BY <1>1 DEF Publish, Inv0, TypeOK
    <2>2. TypeOK'
      BY <1>1, <2>1, BoundsAssumption
         DEF Publish, Inv0, TypeOK, checkpoint, store, sinks
    <2>3. CheckpointOK'
      <3>1. UNCHANGED <<deleted, pc, start, done, pending, plan>>
        BY <1>1 DEF Publish, checkpoint
      <3>2. Len(log) <= Len(log')
        BY <1>0, <2>1
      <3>3. deleted <= Len(log)
            /\ \A q \in Query : done[q] <= Len(log) /\ plan[q].to <= Len(log)
        BY DEF Inv0, CheckpointOK
      <3>4. deleted <= Len(log')
            /\ \A q \in Query : done[q] <= Len(log') /\ plan[q].to <= Len(log')
        BY <1>0, <2>1, <3>2, <3>3
      <3>5. QED
        BY <3>1, <3>4 DEF Inv0, CheckpointOK, BatchStage
    <2>4. QED
      BY <2>2, <2>3 DEF Inv0
  <1>0a. CASE Delete
    <2>1. deleted' = deleted + 1 /\ deleted' \in 0..MaxLog /\ deleted' <= Len(log)
      BY <1>0, <1>0a DEF Delete, Inv0, TypeOK
    <2>2. TypeOK'
      BY <1>0a, <2>1 DEF Delete, Inv0, TypeOK, checkpoint, store, sinks
    <2>3. CheckpointOK'
      BY <1>0a, <2>1 DEF Delete, Inv0, CheckpointOK, checkpoint
    <2>4. QED
      BY <2>2, <2>3 DEF Inv0
  <1>2. CASE Tick
    <2>1. TypeOK'
      BY <1>2, BoundsAssumption DEF Tick, Inv0, TypeOK, checkpoint, store, sinks
    <2>2. CheckpointOK'
      BY <1>2 DEF Tick, Inv0, CheckpointOK, checkpoint
    <2>3. QED
      BY <2>1, <2>2 DEF Inv0
  <1>3. ASSUME NEW q \in Query, ResolveStart(q)
        PROVE  Inv0'
    <2> DEFINE o == IF StartingOffsets = "latest" THEN Len(log) ELSE deleted
    <2>1. /\ o \in 0..Len(log)
          /\ start' = [start EXCEPT ![q] = o] /\ done' = [done EXCEPT ![q] = o]
      BY <1>0, <1>3 DEF ResolveStart, Inv0, TypeOK, CheckpointOK
    <2> HIDE DEF o
    <2>2. TypeOK'
      <3>1. o \in 0..MaxLog /\ o \in -1..MaxLog
        BY <1>0, <2>1, BoundsAssumption DEF Inv0, TypeOK
      <3>2. start' \in [Query -> -1..MaxLog] /\ done' \in [Query -> 0..MaxLog]
        BY <2>1, <3>1 DEF Inv0, TypeOK
      <3>3. QED
        BY <1>3, <3>2 DEF ResolveStart, Inv0, TypeOK, store, sinks
    <2>3. CheckpointOK'
      <3>1. /\ pc[q] = "idle" /\ q \notin pending
            /\ UNCHANGED <<log, deleted, pc, pending, plan>>
        BY <1>3 DEF ResolveStart, Inv0, CheckpointOK
      <3>2. ASSUME NEW p \in Query
            PROVE  /\ start'[p] = IF p = q THEN o ELSE start[p]
                   /\ done'[p] = IF p = q THEN o ELSE done[p]
        BY <2>1 DEF Inv0, TypeOK
      <3>3. o \in Int /\ o <= o /\ o <= Len(log) /\ o # -1
        BY <1>0, <2>1
      <3>4. QED
        BY <3>1, <3>2, <3>3 DEF Inv0, CheckpointOK, BatchStage
    <2>4. QED
      BY <2>2, <2>3 DEF Inv0
  <1>4. ASSUME NEW q \in Query, PlanBatch(q)
        PROVE  Inv0'
    <2>1. TypeOK'
      BY <1>0, <1>4, BoundsAssumption
         DEF PlanBatch, FirstStage, Stage, Inv0, TypeOK, store, sinks
    <2>2. CheckpointOK'
      <3>1. /\ start[q] # -1 /\ pending' = pending \cup {q}
            /\ UNCHANGED <<log, deleted, start, done>>
        BY <1>4 DEF PlanBatch
      <3>2. /\ pc'[q] = FirstStage(q) /\ plan'[q].to = Len(log)
            /\ \A p \in Query : p # q => pc'[p] = pc[p] /\ plan'[p] = plan[p]
        BY <1>4 DEF PlanBatch, Inv0, TypeOK
      <3>3. FirstStage(q) \in BatchStage(q) /\ Len(log) <= Len(log)
        BY <1>0 DEF FirstStage, BatchStage
      <3>4. QED
        BY <3>1, <3>2, <3>3 DEF Inv0, CheckpointOK
    <2>3. QED
      BY <2>1, <2>2 DEF Inv0
  <1>5. ASSUME NEW q \in Query, ReplayBatch(q)
        PROVE  Inv0'
    <2>1. TypeOK'
      BY <1>5 DEF ReplayBatch, FirstStage, Stage, Inv0, TypeOK, checkpoint, store,
                  sinks
    <2>2. CheckpointOK'
      BY <1>5 DEF ReplayBatch, FirstStage, BatchStage, Inv0, TypeOK, CheckpointOK,
                  checkpoint
    <2>3. QED
      BY <2>1, <2>2 DEF Inv0
  <1>6. CASE WriteRaw
    <2>1. raw' \in [Offset -> Copies]
      BY <1>6, CopiedFacts DEF WriteRaw, Inv0, TypeOK
    <2>2. TypeOK'
      BY <1>6, <2>1 DEF WriteRaw, Stage, Inv0, TypeOK, checkpoint, store
    <2>3. CheckpointOK'
      BY <1>6 DEF WriteRaw, BatchStage, Inv0, TypeOK, CheckpointOK, checkpoint
    <2>4. QED
      BY <2>2, <2>3 DEF Inv0
  <1>7. CASE WriteDlq
    <2>1. dlq' \in [Offset -> Copies]
      BY <1>7, CopiedFacts DEF WriteDlq, Inv0, TypeOK
    <2>2. TypeOK'
      BY <1>7, <2>1 DEF WriteDlq, Stage, Inv0, TypeOK, checkpoint, store
    <2>3. CheckpointOK'
      BY <1>7 DEF WriteDlq, BatchStage, Inv0, TypeOK, CheckpointOK, checkpoint
    <2>4. QED
      BY <2>2, <2>3 DEF Inv0
  <1>8. CASE UpsertCandles
    <2>1. candles' \in [Key -> SUBSET Offset]
      BY <1>8, AcceptedFacts DEF UpsertCandles
    <2>2. TypeOK'
      BY <1>8, <2>1 DEF UpsertCandles, Stage, Inv0, TypeOK, checkpoint, store
    <2>3. CheckpointOK'
      BY <1>8 DEF UpsertCandles, BatchStage, Inv0, TypeOK, CheckpointOK, checkpoint
    <2>4. QED
      BY <2>2, <2>3 DEF Inv0
  <1>9. CASE UpsertRejected
    <2>1. TypeOK'
      BY <1>9 DEF UpsertRejected, Stage, Inv0, TypeOK, checkpoint, store, sinks
    <2>2. CheckpointOK'
      BY <1>9 DEF UpsertRejected, BatchStage, Inv0, TypeOK, CheckpointOK,
                  checkpoint
    <2>3. QED
      BY <2>1, <2>2 DEF Inv0
  <1>10. ASSUME NEW q \in Query, InsertMetrics(q)
         PROVE  Inv0'
    <2>1. metered' \in [Query -> [Offset -> Copies]]
      <3>1. metered[q] \in [Offset -> Copies]
        BY DEF Inv0, TypeOK
      <3>2. Copied(metered[q], Batch(q)) \in [Offset -> Copies]
        BY <3>1, CopiedFacts
      <3>3. QED
        BY <1>10, <3>2 DEF InsertMetrics, Inv0, TypeOK
    <2>2. TypeOK'
      BY <1>10, <2>1 DEF InsertMetrics, Stage, Inv0, TypeOK, checkpoint, store
    <2>3. CheckpointOK'
      BY <1>10 DEF InsertMetrics, BatchStage, Inv0, TypeOK, CheckpointOK,
                   checkpoint
    <2>4. QED
      BY <2>2, <2>3 DEF Inv0
  <1>11. CASE CommitValidated
    <2>1. TypeOK'
      BY <1>11 DEF CommitValidated, Stage, Inv0, TypeOK, store, sinks
    <2>2. CheckpointOK'
      <3>1. /\ "validated" \in pending /\ start["validated"] # -1
            /\ start["validated"] <= plan["validated"].to
        BY <1>0, <1>11 DEF CommitValidated, BatchStage, Inv0, CheckpointOK
      <3>2. /\ done'["validated"] = plan["validated"].to
            /\ done'["candles"] = done["candles"]
            /\ pc'["validated"] = "idle" /\ pc'["candles"] = pc["candles"]
        BY <1>11 DEF CommitValidated, Inv0, TypeOK
      <3>3. QED
        BY <1>0, <1>11, <3>1, <3>2 DEF CommitValidated, BatchStage, Inv0, CheckpointOK
    <2>3. QED
      BY <2>1, <2>2 DEF Inv0
  <1>12. CASE CommitCandles
    <2>1. seen' \in SUBSET Event
      <3>1. seen \in SUBSET Event /\ \A o \in Accepted : log[o] \in Event
        BY AcceptedFacts DEF Inv0, TypeOK
      <3>2. QED
        BY <1>12, <3>1 DEF CommitCandles
    <2>2. open' \in [Key -> SUBSET Offset]
      BY <1>12, AcceptedFacts DEF CommitCandles, EvictedBy
    <2>3. wmNext' \in Int
      <3>1. \A o \in Valid("candles") : TimeOf[log[o]] \in Int
        BY BatchFacts, KeyFacts DEF Valid
      <3>2. wmNext \in Int /\ WatermarkDelay \in Int
        BY TimesAssumption DEF Inv0, TypeOK
      <3>3. \A o \in Valid("candles") : TimeOf[log[o]] - WatermarkDelay \in Int
        BY <3>1, <3>2
      <3>4. WatermarkCandidates \subseteq Int
        BY <3>2, <3>3 DEF WatermarkCandidates
      <3>5. QED
        BY <1>12, <3>4 DEF CommitCandles
    <2>4. TypeOK'
      BY <1>12, <2>1, <2>2, <2>3 DEF CommitCandles, Stage, Inv0, TypeOK, sinks
    <2>5. CheckpointOK'
      <3>1. /\ "candles" \in pending /\ start["candles"] # -1
            /\ start["candles"] <= plan["candles"].to
        BY <1>0, <1>12 DEF CommitCandles, BatchStage, Inv0, CheckpointOK
      <3>2. /\ done'["candles"] = plan["candles"].to
            /\ done'["validated"] = done["validated"]
            /\ pc'["candles"] = "idle" /\ pc'["validated"] = pc["validated"]
        BY <1>12 DEF CommitCandles, Inv0, TypeOK
      <3>3. QED
        BY <1>0, <1>12, <3>1, <3>2 DEF CommitCandles, BatchStage, Inv0, CheckpointOK
    <2>6. QED
      BY <2>4, <2>5 DEF Inv0
  <1>13. ASSUME NEW q \in Query, Fail(q)
         PROVE  Inv0'
    <2>1. TypeOK'
      BY <1>13, InFlightType, BoundsAssumption
         DEF Fail, Stage, Inv0, TypeOK, checkpoint, store
    <2>2. CheckpointOK'
      BY <1>13 DEF Fail, BatchStage, Inv0, TypeOK, CheckpointOK, checkpoint
    <2>3. QED
      BY <2>1, <2>2 DEF Inv0
  <1>14. CASE Exit
    <2>1. TypeOK'
      BY <1>14, InFlightType DEF Exit, Stage, Inv0, TypeOK, checkpoint, store
    <2>2. CheckpointOK'
      BY <1>14 DEF Exit, BatchStage, Inv0, TypeOK, CheckpointOK, checkpoint
    <2>3. QED
      BY <2>1, <2>2 DEF Inv0
  <1>15. CASE Crash
    <2>1. TypeOK'
      BY <1>15, InFlightType, BoundsAssumption
         DEF Crash, Stage, Inv0, TypeOK, checkpoint, store
    <2>2. CheckpointOK'
      BY <1>15 DEF Crash, BatchStage, Inv0, TypeOK, CheckpointOK, checkpoint
    <2>3. QED
      BY <2>1, <2>2 DEF Inv0
  <1>16. CASE Restart
    <2>1. TypeOK'
      BY <1>16 DEF Restart, Stage, Inv0, TypeOK, checkpoint, store, sinks
    <2>2. CheckpointOK'
      BY <1>16 DEF Restart, BatchStage, Inv0, TypeOK, CheckpointOK, checkpoint
    <2>3. QED
      BY <2>1, <2>2 DEF Inv0
  <1>17. CASE UNCHANGED vars
    BY <1>17 DEF vars, checkpoint, store, sinks, Inv0, TypeOK, CheckpointOK,
                 BatchStage
  <1>18. QED
    BY <1>0a, <1>1, <1>2, <1>3, <1>4, <1>5, <1>6, <1>7, <1>8, <1>9, <1>10, <1>11,
       <1>12, <1>13, <1>14, <1>15, <1>16, <1>17
       DEF Next, ValidatedStep, CandlesStep

(* Every reachable state is well typed, and no checkpoint is ever ahead of *)
(* the topic.                                                              *)
THEOREM TypeCorrect == Spec => []TypeOK
  <1>1. Inv0 => TypeOK
    BY DEF Inv0
  <1>2. QED
    BY <1>1, Inv0Init, Inv0Next, PTL DEF Spec

-----------------------------------------------------------------------------
(***************************************************************************)
(* The archive and the dead letter queue.  EveryRecordRouted and           *)
(* RawOrDlqNotBoth speak of committed records; the invariant also says     *)
(* that what is written ahead of the checkpoint is of the planned range    *)
(* and went where the batch's timestamp sends it, whether or not the topic *)
(* still has it, and what each stage has behind it.                        *)
(***************************************************************************)
ToRaw == {o \in Planned("validated") : IsValid(log[o], plan["validated"].ts)}
ToDlq == {o \in Planned("validated") : ~IsValid(log[o], plan["validated"].ts)}

SinkInv ==
    /\ EveryRecordRouted
    /\ RawOrDlqNotBoth
    /\ \A o \in Offset : done["validated"] < o /\ raw[o] > 0 =>
          "validated" \in pending /\ o \in ToRaw
    /\ \A o \in Offset : done["validated"] < o /\ dlq[o] > 0 =>
          "validated" \in pending /\ o \in ToDlq

StageInv ==
    /\ pc["validated"] \in {"dlq", "metrics", "commit"} =>
          \A o \in Valid("validated") : raw[o] > 0
    /\ pc["validated"] \in {"metrics", "commit"} =>
          \A o \in Invalid("validated") : dlq[o] > 0
    /\ pc["validated"] = "commit" =>
          \A o \in Batch("validated") : metered["validated"][o] > 0

RoutingInv == SinkInv /\ StageInv

(***************************************************************************)
(* The topic grows at its end and loses records at its beginning.  Neither *)
(* changes the planned range; a batch can lose records, and keeps them all *)
(* if only committed ones are deleted.                                     *)
(***************************************************************************)
TopicStep ==
    /\ log' = log \/ \E e \in Event : log' = Append(log, e)
    /\ deleted' = deleted \/ deleted' = deleted + 1

LEMMA BatchFrame ==
    ASSUME Inv0, NEW q \in Query, TopicStep,
           done'[q] = done[q], plan'[q] = plan[q]
    PROVE  /\ Planned(q)' = Planned(q)
           /\ \A o \in Planned(q) : log'[o] = log[o]
           /\ Batch(q)' \subseteq Batch(q)
           /\ Valid(q)' \subseteq Valid(q)
           /\ Invalid(q)' \subseteq Invalid(q)
           /\ deleted' = deleted \/ deleted' <= done[q] =>
                 /\ Batch(q)' = Batch(q)
                 /\ Valid(q)' = Valid(q)
                 /\ Invalid(q)' = Invalid(q)
  <1>1. Planned(q)' = Planned(q)
    BY DEF Planned
  <1>2. \A o \in Planned(q) : log'[o] = log[o]
    <2>1. CASE log' = log
      BY <2>1
    <2>2. ASSUME NEW e \in Event, log' = Append(log, e)
          PROVE  \A o \in Planned(q) : log'[o] = log[o]
      <3>1. log \in Seq(Event) /\ plan[q].to <= Len(log) /\ plan[q].to \in Int
        BY BoundsAssumption DEF Inv0, TypeOK, CheckpointOK
      <3>2. \A o \in Planned(q) : o \in Nat \ {0} /\ o <= plan[q].to
        BY BoundsAssumption DEF Planned, Offset
      <3>3. \A o \in Planned(q) : o \in 1..Len(log)
        BY <3>1, <3>2
      <3>4. QED
        BY <2>2, <3>1, <3>3
    <2>3. QED
      BY <2>1, <2>2 DEF TopicStep
  <1>3. /\ deleted \in Int /\ done[q] \in Int
        /\ \A o \in Planned(q) : o \in Int /\ done[q] < o
    BY BoundsAssumption DEF Inv0, TypeOK, Planned, Offset
  <1>4. Batch(q)' \subseteq Batch(q)
    <2>1. \A o \in Planned(q) : deleted' < o => deleted < o
      BY <1>3 DEF TopicStep
    <2>2. QED
      BY <1>1, <2>1 DEF Batch
  <1>5. ASSUME deleted' = deleted \/ deleted' <= done[q]
        PROVE  Batch(q)' = Batch(q)
    <2>1. \A o \in Planned(q) : deleted < o => deleted' < o
      BY <1>3, <1>5 DEF TopicStep
    <2>2. Batch(q) \subseteq Batch(q)'
      BY <1>1, <2>1 DEF Batch
    <2>3. QED
      BY <1>4, <2>2
  <1>6. \A o \in Batch(q) : log'[o] = log[o]
    BY <1>2 DEF Batch
  <1>7. QED
    BY <1>1, <1>2, <1>4, <1>5, <1>6 DEF Valid, Invalid

(***************************************************************************)
(* The range of "validated" and where its records go.                      *)
(***************************************************************************)
LEMMA RangeFrame ==
    ASSUME Inv0, TopicStep,
           done'["validated"] = done["validated"],
           plan'["validated"] = plan["validated"]
    PROVE  ToRaw' = ToRaw /\ ToDlq' = ToDlq
  BY BatchFrame DEF ToRaw, ToDlq, Query

LEMMA RangeFacts ==
    /\ Valid("validated") \subseteq ToRaw
    /\ Invalid("validated") \subseteq ToDlq
    /\ \A o \in ToRaw \cup ToDlq :
          o \in Offset /\ done["validated"] < o /\ o <= plan["validated"].to
    /\ \A o \in ToRaw : o \notin ToDlq
  BY DEF ToRaw, ToDlq, Valid, Invalid, Batch, Planned

(***************************************************************************)
(* Writing records of the planned batch, some or all, again or for the     *)
(* first time, each to its own sink, keeps SinkInv.                        *)
(***************************************************************************)
LEMMA SinkGrows ==
    ASSUME Inv0, SinkInv,
           start'["validated"] = start["validated"],
           done'["validated"] = done["validated"],
           ToRaw' = ToRaw, ToDlq' = ToDlq, deleted' = deleted,
           "validated" \in pending => "validated" \in pending',
           NEW S \in SUBSET Valid("validated"), raw' = Copied(raw, S),
           NEW T \in SUBSET Invalid("validated"), dlq' = Copied(dlq, T),
           S \cup T # {} => "validated" \in pending,
           \A o \in Offset : metered["validated"][o] > 0
                               => metered'["validated"][o] > 0
    PROVE  SinkInv'
  <1>1. raw \in [Offset -> Copies] /\ dlq \in [Offset -> Copies]
    BY DEF Inv0, TypeOK
  <1>2. \A o \in Offset : /\ raw[o] > 0 => raw'[o] > 0
                          /\ o \notin S => raw'[o] = raw[o]
    BY <1>1, CopiedFacts
  <1>3. \A o \in Offset : /\ dlq[o] > 0 => dlq'[o] > 0
                          /\ o \notin T => dlq'[o] = dlq[o]
    BY <1>1, CopiedFacts
  <1>4. EveryRecordRouted'
    BY <1>2, <1>3 DEF SinkInv, EveryRecordRouted
  <1>5. done["validated"] \in Int
    BY BoundsAssumption DEF Inv0, TypeOK, Query
  <1>6. \A o \in Offset : /\ o \in S => done["validated"] < o /\ o \in ToRaw
                          /\ o \in T => done["validated"] < o /\ o \in ToDlq
                          /\ o \in ToRaw => o \notin ToDlq
    BY RangeFacts
  <1>7. \A o \in Offset : raw[o] \in Nat /\ dlq[o] \in Nat
    BY <1>1, BoundsAssumption DEF Copies
  <1>8. RawOrDlqNotBoth'
    <2> SUFFICES ASSUME NEW o \in Offset
                 PROVE  raw'[o] = 0 \/ dlq'[o] = 0
      BY DEF RawOrDlqNotBoth
    <2>1. CASE o \in S
      BY <1>3, <1>6, <1>7, <2>1 DEF SinkInv, RawOrDlqNotBoth
    <2>2. CASE o \in T
      BY <1>2, <1>6, <1>7, <2>2 DEF SinkInv, RawOrDlqNotBoth
    <2>3. CASE o \notin S /\ o \notin T
      BY <1>2, <1>3, <2>3 DEF SinkInv, RawOrDlqNotBoth
    <2>4. QED
      BY <2>1, <2>2, <2>3
  <1>9. QED
    BY <1>2, <1>3, <1>4, <1>6, <1>8 DEF SinkInv

(***************************************************************************)
(* A step that leaves "validated", its checkpoint and its sinks alone.     *)
(***************************************************************************)
LEMMA RoutingFrame ==
    ASSUME Inv0, RoutingInv, TopicStep,
           start'["validated"] = start["validated"],
           done'["validated"] = done["validated"],
           plan'["validated"] = plan["validated"],
           "validated" \in pending <=> "validated" \in pending',
           pc'["validated"] = pc["validated"] \/ pc'["validated"] \notin BatchStage("validated"),
           UNCHANGED <<raw, dlq>>,
           metered'["validated"] = metered["validated"]
    PROVE  RoutingInv'
  <1>1. /\ Batch("validated")' \subseteq Batch("validated")
        /\ Valid("validated")' \subseteq Valid("validated")
        /\ Invalid("validated")' \subseteq Invalid("validated")
    BY BatchFrame DEF Query
  <1>2. SinkInv'
    <2>1. deleted \in Int /\ Offset \subseteq Int
      BY BoundsAssumption DEF Inv0, TypeOK, Offset
    <2>2. \A o \in Offset : deleted' < o => deleted < o
      BY <2>1 DEF TopicStep
    <2>3. EveryRecordRouted'
      BY <2>2 DEF RoutingInv, SinkInv, EveryRecordRouted
    <2>4. QED
      BY <2>3, RangeFrame DEF RoutingInv, SinkInv, RawOrDlqNotBoth
  <1>3. StageInv'
    BY <1>1 DEF RoutingInv, StageInv, BatchStage
  <1>4. QED
    BY <1>2, <1>3 DEF RoutingInv

(***************************************************************************)
(* Interrupting queries leaves part of a batch in the sinks.               *)
(***************************************************************************)
LEMMA RoutingInterrupted ==
    ASSUME Inv0, RoutingInv, NEW Q \in SUBSET Query, InFlight(Q),
           UNCHANGED <<log, deleted, checkpoint, store>>,
           \/ pc'["validated"] = pc["validated"] /\ "validated" \notin Q
           \/ pc'["validated"] \notin BatchStage("validated")
    PROVE  RoutingInv'
  <1> USE DEF Query
  <1>1. /\ Batch("validated")' = Batch("validated")
        /\ Valid("validated")' = Valid("validated")
        /\ Invalid("validated")' = Invalid("validated")
        /\ ToRaw' = ToRaw /\ ToDlq' = ToDlq
    BY BatchFrame, RangeFrame DEF TopicStep, checkpoint
  <1>2. PICK S \in SUBSET Valid("validated") :
           /\ S # {} => Interrupted(Q, "validated", "parquet")
           /\ raw' = Copied(raw, S)
    BY DEF InFlight
  <1>3. PICK T \in SUBSET Invalid("validated") :
           /\ T # {} => Interrupted(Q, "validated", "dlq")
           /\ dlq' = Copied(dlq, T)
    BY DEF InFlight
  <1>4. S \cup T # {} => "validated" \in pending /\ "validated" \in Q
    BY <1>2, <1>3 DEF Interrupted, Inv0, CheckpointOK, BatchStage
  <1>5. PICK R \in SUBSET {q \in Query : Interrupted(Q, q, "metrics")} :
           metered' = [q \in Query |-> IF q \in R THEN Copied(metered[q], Batch(q))
                                                  ELSE metered[q]]
    BY DEF InFlight
  <1>6. \A o \in Offset : metered["validated"][o] > 0
                           => metered'["validated"][o] > 0
    <2>1. metered["validated"] \in [Offset -> Copies]
      BY DEF Inv0, TypeOK
    <2>2. \A o \in Offset : metered["validated"][o] > 0
            => Copied(metered["validated"], Batch("validated"))[o] > 0
      BY <2>1, CopiedFacts
    <2>3. QED
      BY <1>5, <2>2
  <1>7. SinkInv'
    BY <1>1, <1>2, <1>3, <1>4, <1>6, SinkGrows DEF RoutingInv, checkpoint
  <1>8. StageInv'
    <2>1. CASE pc'["validated"] \notin BatchStage("validated")
      BY <2>1 DEF StageInv, BatchStage
    <2>2. CASE pc'["validated"] = pc["validated"] /\ "validated" \notin Q
      <3>1. S = {} /\ T = {} /\ "validated" \notin R
        BY <1>4, <1>5, <2>2 DEF Interrupted
      <3>2. raw \in [Offset -> Copies] /\ dlq \in [Offset -> Copies]
        BY DEF Inv0, TypeOK
      <3>3. \A o \in Offset : raw'[o] = raw[o] /\ dlq'[o] = dlq[o]
        BY <1>2, <1>3, <3>1, <3>2, CopiedFacts
      <3>4. metered'["validated"] = metered["validated"]
        BY <1>5, <3>1
      <3>5. Valid("validated") \subseteq Offset /\ Invalid("validated") \subseteq Offset
        BY DEF Valid, Invalid, Batch, Planned
      <3>6. QED
        BY <1>1, <2>2, <3>3, <3>4, <3>5 DEF RoutingInv, StageInv
    <2>3. QED
      BY <2>1, <2>2
  <1>9. QED
    BY <1>7, <1>8 DEF RoutingInv

LEMMA RoutingInit == Init => RoutingInv
  BY BoundsAssumption
     DEF Init, RoutingInv, SinkInv, StageInv, EveryRecordRouted, RawOrDlqNotBoth,
         Query, Offset, Copies

(***************************************************************************)
(* The steps of "validated" itself.                                        *)
(***************************************************************************)
LEMMA RoutingValidatedStep ==
    ASSUME Inv0, RoutingInv, ValidatedStep
    PROVE  RoutingInv'
  <1> USE DEF Query
  <1>0. /\ raw \in [Offset -> Copies] /\ dlq \in [Offset -> Copies]
        /\ metered["validated"] \in [Offset -> Copies]
        /\ start["validated"] \in Int /\ done["validated"] \in Int
        /\ plan["validated"].to \in Int
        /\ Valid("validated") \subseteq Offset
        /\ Invalid("validated") \subseteq Offset
        /\ Offset \subseteq Int
    BY BoundsAssumption DEF Inv0, TypeOK, Valid, Invalid, Batch, Planned, Offset
  <1>1. CASE ResolveStart("validated")
    <2>1. /\ start'["validated"] = done'["validated"]
          /\ done'["validated"] \in Int
          /\ done["validated"] = 0
          /\ "validated" \notin pending
          /\ pc'["validated"] = "idle"
          /\ UNCHANGED <<raw, dlq>>
      BY <1>0, <1>1, BoundsAssumption
         DEF ResolveStart, Inv0, TypeOK, CheckpointOK, sinks
    <2>2. \A o \in Offset : ~(raw[o] > 0) /\ ~(dlq[o] > 0)
      BY <1>0, <2>1 DEF RoutingInv, SinkInv, Offset
    <2>3. SinkInv'
      BY <1>0, <2>1, <2>2
         DEF RoutingInv, SinkInv, EveryRecordRouted, RawOrDlqNotBoth
    <2>4. StageInv'
      BY <2>1 DEF StageInv
    <2>5. QED
      BY <2>3, <2>4 DEF RoutingInv
  <1>2. CASE PlanBatch("validated")
    <2>1. /\ "validated" \notin pending /\ pc'["validated"] = "parquet"
          /\ UNCHANGED <<deleted, start, done, raw, dlq, metered>>
      BY <1>2 DEF PlanBatch, FirstStage, Inv0, TypeOK, sinks
    <2>2. SinkInv'
      BY <2>1 DEF RoutingInv, SinkInv, EveryRecordRouted, RawOrDlqNotBoth
    <2>3. StageInv'
      BY <2>1 DEF StageInv
    <2>4. QED
      BY <2>2, <2>3 DEF RoutingInv
  <1>3. CASE ReplayBatch("validated")
    <2>1. pc'["validated"] = "parquet" /\ UNCHANGED <<log, deleted, checkpoint, sinks>>
      BY <1>3 DEF ReplayBatch, FirstStage, Inv0, TypeOK
    <2>2. ToRaw' = ToRaw /\ ToDlq' = ToDlq
      BY <2>1, RangeFrame DEF TopicStep, checkpoint
    <2>3. SinkInv'
      BY <2>1, <2>2 DEF RoutingInv, SinkInv, EveryRecordRouted, RawOrDlqNotBoth,
                        checkpoint, sinks
    <2>4. StageInv'
      BY <2>1 DEF StageInv
    <2>5. QED
      BY <2>3, <2>4 DEF RoutingInv
  <1>4. ASSUME UNCHANGED <<log, deleted, checkpoint>>
        PROVE  /\ Batch("validated")' = Batch("validated")
               /\ Valid("validated")' = Valid("validated")
               /\ Invalid("validated")' = Invalid("validated")
               /\ ToRaw' = ToRaw /\ ToDlq' = ToDlq
    BY <1>4, BatchFrame, RangeFrame DEF TopicStep, checkpoint
  <1>5. CASE WriteRaw
    <2>1. /\ "validated" \in pending /\ pc'["validated"] = "dlq"
          /\ UNCHANGED <<log, deleted, checkpoint, dlq, metered>>
          /\ raw' = Copied(raw, Valid("validated"))
      BY <1>5 DEF WriteRaw, Inv0, TypeOK, CheckpointOK, BatchStage
    <2>2. dlq' = Copied(dlq, {})
      BY <1>0, <2>1 DEF Copied
    <2>3. SinkInv'
      BY <1>4, <2>1, <2>2, SinkGrows DEF RoutingInv, checkpoint
    <2>4. \A o \in Valid("validated") : raw'[o] > 0
      BY <1>0, <2>1, CopiedFacts
    <2>5. StageInv'
      BY <1>4, <2>1, <2>4 DEF StageInv
    <2>6. QED
      BY <2>3, <2>5 DEF RoutingInv
  <1>6. CASE WriteDlq
    <2>1. /\ "validated" \in pending
          /\ pc["validated"] = "dlq" /\ pc'["validated"] = "metrics"
          /\ UNCHANGED <<log, deleted, checkpoint, raw, metered>>
          /\ dlq' = Copied(dlq, Invalid("validated"))
      BY <1>6 DEF WriteDlq, Inv0, TypeOK, CheckpointOK, BatchStage
    <2>2. raw' = Copied(raw, {})
      BY <1>0, <2>1 DEF Copied
    <2>3. SinkInv'
      BY <1>4, <2>1, <2>2, SinkGrows DEF RoutingInv, checkpoint
    <2>4. \A o \in Invalid("validated") : dlq'[o] > 0
      BY <1>0, <2>1, CopiedFacts
    <2>5. StageInv'
      BY <1>4, <2>1, <2>4 DEF RoutingInv, StageInv
    <2>6. QED
      BY <2>3, <2>5 DEF RoutingInv
  <1>7. CASE InsertMetrics("validated")
    <2>1. /\ "validated" \in pending
          /\ pc["validated"] = "metrics" /\ pc'["validated"] = "commit"
          /\ UNCHANGED <<log, deleted, checkpoint, raw, dlq>>
          /\ metered'["validated"] = Copied(metered["validated"], Batch("validated"))
      BY <1>7 DEF InsertMetrics, Inv0, TypeOK, CheckpointOK, BatchStage
    <2>2. raw' = Copied(raw, {}) /\ dlq' = Copied(dlq, {})
      BY <1>0, <2>1 DEF Copied
    <2>3. \A o \in Offset :
             /\ metered["validated"][o] > 0 => metered'["validated"][o] > 0
             /\ o \in Batch("validated") => metered'["validated"][o] > 0
      BY <1>0, <2>1, CopiedFacts
    <2>4. SinkInv'
      BY <1>4, <2>1, <2>2, <2>3, SinkGrows DEF RoutingInv, checkpoint
    <2>5. StageInv'
      BY <1>4, <2>1, <2>3 DEF RoutingInv, StageInv, Batch, Planned
    <2>6. QED
      BY <2>4, <2>5 DEF RoutingInv
  <1>8. CASE CommitValidated
    <2>1. /\ pc["validated"] = "commit" /\ pc'["validated"] = "idle"
          /\ start'["validated"] = start["validated"]
          /\ done'["validated"] = plan["validated"].to
          /\ "validated" \in pending /\ done["validated"] <= plan["validated"].to
          /\ UNCHANGED <<deleted, raw, dlq, metered>>
      BY <1>8 DEF CommitValidated, Inv0, TypeOK, CheckpointOK, BatchStage, sinks
    <2>2. \A o \in Offset :
             done["validated"] < o /\ deleted < o /\ o <= plan["validated"].to =>
                 (raw[o] > 0 \/ dlq[o] > 0) /\ metered["validated"][o] > 0
      BY <2>1 DEF RoutingInv, StageInv, Valid, Invalid, Batch, Planned
    <2>2a. \A o \in Offset : o \in Int
      BY <1>0
    <2>3. EveryRecordRouted'
      <3>1. \A o \in Offset : o <= done["validated"] \/ done["validated"] < o
        BY <1>0, <2>2a
      <3>2. QED
        BY <2>1, <2>2, <3>1 DEF RoutingInv, SinkInv, EveryRecordRouted
    <2>4. \A o \in Offset : plan["validated"].to < o => ~(raw[o] > 0) /\ ~(dlq[o] > 0)
      <3>1. \A o \in Offset : plan["validated"].to < o => done["validated"] < o
        BY <1>0, <2>1, <2>2a
      <3>2. \A o \in Offset : plan["validated"].to < o => ~(o <= plan["validated"].to)
        BY <1>0, <2>2a
      <3>3. QED
        BY <3>1, <3>2, RangeFacts DEF RoutingInv, SinkInv
    <2>5. SinkInv'
      BY <2>1, <2>3, <2>4 DEF RoutingInv, SinkInv, RawOrDlqNotBoth
    <2>6. StageInv'
      BY <2>1 DEF StageInv
    <2>7. QED
      BY <2>5, <2>6 DEF RoutingInv
  <1>9. QED
    BY <1>1, <1>2, <1>3, <1>5, <1>6, <1>7, <1>8 DEF ValidatedStep

(***************************************************************************)
(* No step of the job breaks the routing.                                  *)
(***************************************************************************)
LEMMA RoutingNext == Inv0 /\ RoutingInv /\ [Next]_vars => RoutingInv'
  <1> SUFFICES ASSUME Inv0, RoutingInv, [Next]_vars
               PROVE  RoutingInv'
    OBVIOUS
  <1> USE DEF Query
  <1>1. ASSUME NEW e \in Event, Publish(e)
        PROVE  RoutingInv'
    BY <1>1, RoutingFrame DEF Publish, TopicStep, checkpoint, sinks
  <1>1a. CASE Delete
    BY <1>1a, RoutingFrame DEF Delete, TopicStep, checkpoint, sinks
  <1>2. CASE Tick \/ Restart \/ UNCHANGED vars
    <2>1. /\ UNCHANGED <<log, deleted, checkpoint, sinks>>
          /\ \/ pc'["validated"] = pc["validated"]
             \/ pc'["validated"] \notin BatchStage("validated")
      BY <1>2 DEF Tick, Restart, BatchStage, vars
    <2>2. QED
      BY <2>1, RoutingFrame DEF TopicStep, checkpoint, sinks
  <1>3. CASE ValidatedStep
    BY <1>3, RoutingValidatedStep
  <1>4. CASE CandlesStep
    <2>1. /\ TopicStep
          /\ start'["validated"] = start["validated"]
          /\ done'["validated"] = done["validated"]
          /\ plan'["validated"] = plan["validated"]
          /\ "validated" \in pending <=> "validated" \in pending'
          /\ pc'["validated"] = pc["validated"]
          /\ UNCHANGED <<raw, dlq>>
          /\ metered'["validated"] = metered["validated"]
      BY <1>4 DEF CandlesStep, ResolveStart, PlanBatch, ReplayBatch, UpsertCandles,
                  UpsertRejected, InsertMetrics, CommitCandles, checkpoint, sinks,
                  TopicStep, Inv0, TypeOK
    <2>2. QED
      BY <2>1, RoutingFrame
  <1>5. ASSUME NEW q \in Query, Fail(q)
        PROVE  RoutingInv'
    <2>1. \/ pc'["validated"] = pc["validated"] /\ "validated" \notin {q}
          \/ pc'["validated"] \notin BatchStage("validated")
      BY <1>5 DEF Fail, BatchStage, Inv0, TypeOK
    <2>2. QED
      BY <1>5, <2>1, RoutingInterrupted DEF Fail
  <1>6. CASE Exit \/ Crash
    <2>1. /\ InFlight(Query) /\ UNCHANGED <<log, deleted, checkpoint, store>>
          /\ pc'["validated"] \notin BatchStage("validated")
      BY <1>6 DEF Exit, Crash, BatchStage
    <2>2. QED
      BY <2>1, RoutingInterrupted
  <1>7. QED
    BY <1>1, <1>1a, <1>2, <1>3, <1>4, <1>5, <1>6 DEF Next

(* Whatever fails, crashes and is replayed, a record that "validated" has  *)
(* committed past while the topic had it is archived or in the dead letter *)
(* queue, and counted.                                                     *)
THEOREM RecordsAreRouted == Spec => []EveryRecordRouted
  <1>1. RoutingInv => EveryRecordRouted
    BY DEF RoutingInv, SinkInv
  <1>2. QED
    BY <1>1, Inv0Init, Inv0Next, RoutingInit, RoutingNext, PTL DEF Spec

(* A replay classifies as the first attempt did: no record is ever in both *)
(* the archive and the dead letter queue.                                  *)
THEOREM ReplayRoutesAlike == Spec => []RawOrDlqNotBoth
  <1>1. RoutingInv => RawOrDlqNotBoth
    BY DEF RoutingInv, SinkInv
  <1>2. QED
    BY <1>1, Inv0Init, Inv0Next, RoutingInit, RoutingNext, PTL DEF Spec

-----------------------------------------------------------------------------
(***************************************************************************)
(* One copy of each record.  The invariant says where a copy can come from *)
(* while nothing has failed: no query is ever down or between two attempts *)
(* of one batch, and what a sink holds is of a committed batch or of the   *)
(* planned one, once its stage is past.                                    *)
(***************************************************************************)
EverySymbol == \A e \in Event : SymbolOf[e] # NoSymbol

Ahead(q, stages) == IF pc[q] \in stages THEN Planned(q) ELSE {}

Once(f, committed, ahead) ==
    \A o \in Offset : /\ f[o] = 0 \/ f[o] = 1
                      /\ f[o] = 1 => o <= committed \/ o \in ahead

AttemptedOnce(q) ==
    /\ pc[q] \notin {"stopped", "failed"}
    /\ pc[q] = "idle" => q \notin pending
    /\ Once(metered[q], done[q], Ahead(q, {"commit"}))
    /\ q = "validated" =>
          /\ Once(raw, done[q], Ahead(q, {"dlq", "metrics", "commit"}))
          /\ Once(dlq, done[q], Ahead(q, {"metrics", "commit"}))

OnceInv == faults = 0 /\ EverySymbol => \A q \in Query : AttemptedOnce(q)

(***************************************************************************)
(* A batch written to a sink that holds nothing beyond the checkpoint.     *)
(***************************************************************************)
LEMMA OnceCopied ==
    ASSUME NEW f \in [Offset -> Copies], NEW committed, NEW S, NEW ahead,
           Once(f, committed, {}), S \subseteq ahead,
           \A o \in S : ~(o <= committed)
    PROVE  Once(Copied(f, S), committed, ahead)
  <1> SUFFICES ASSUME NEW o \in Offset
               PROVE  /\ Copied(f, S)[o] = 0 \/ Copied(f, S)[o] = 1
                      /\ Copied(f, S)[o] = 1 => o <= committed \/ o \in ahead
    BY DEF Once
  <1>1. CASE o \in S
    <2>1. f[o] = 0
      BY <1>1 DEF Once
    <2>2. Copied(f, S)[o] = 1
      BY <1>1, <2>1, BoundsAssumption DEF Copied
    <2>3. QED
      BY <1>1, <2>2
  <1>2. CASE o \notin S
    <2>1. Copied(f, S)[o] = f[o]
      BY <1>2, CopiedFacts
    <2>2. QED
      BY <2>1 DEF Once
  <1>3. QED
    BY <1>1, <1>2

(***************************************************************************)
(* Committing a batch.                                                     *)
(***************************************************************************)
LEMMA OnceCommitted ==
    ASSUME Inv0, NEW q \in Query, q \in pending, NEW f,
           Once(f, done[q], Planned(q))
    PROVE  Once(f, plan[q].to, {})
  <1>1. /\ done[q] \in Int /\ plan[q].to \in Int /\ done[q] <= plan[q].to
        /\ Offset \subseteq Int
    BY BoundsAssumption DEF Inv0, TypeOK, CheckpointOK, Offset
  <1>2. \A o \in Offset : o <= done[q] \/ o \in Planned(q) => o <= plan[q].to
    BY <1>1 DEF Planned
  <1>3. QED
    BY <1>2 DEF Once

(***************************************************************************)
(* A step that leaves a query, its checkpoint and its sinks alone.         *)
(***************************************************************************)
LEMMA OnceFrame ==
    ASSUME NEW q \in Query, AttemptedOnce(q),
           pc'[q] = pc[q], done'[q] = done[q], plan'[q] = plan[q],
           q \in pending <=> q \in pending',
           metered'[q] = metered[q],
           q = "validated" => UNCHANGED <<raw, dlq>>
    PROVE  AttemptedOnce(q)'
  <1>1. Planned(q)' = Planned(q)
    BY DEF Planned
  <1>2. Once(metered[q], done[q], Ahead(q, {"commit"}))'
    BY <1>1 DEF AttemptedOnce, Once, Ahead
  <1>3. ASSUME q = "validated"
        PROVE  /\ Once(raw, done[q], Ahead(q, {"dlq", "metrics", "commit"}))'
               /\ Once(dlq, done[q], Ahead(q, {"metrics", "commit"}))'
    BY <1>1, <1>3 DEF AttemptedOnce, Once, Ahead
  <1>4. QED
    BY <1>2, <1>3 DEF AttemptedOnce

(***************************************************************************)
(* The steps both queries take.  Without a failure there is no replay.     *)
(***************************************************************************)
LEMMA OnceStart ==
    ASSUME Inv0, NEW q \in Query, AttemptedOnce(q),
           ResolveStart(q) \/ PlanBatch(q) \/ ReplayBatch(q)
    PROVE  AttemptedOnce(q)'
  <1>1. CASE ResolveStart(q)
    <2>1. /\ pc'[q] = "idle" /\ pc[q] = "idle" /\ q \notin pending'
          /\ done[q] = 0 /\ done'[q] \in Nat
          /\ UNCHANGED <<raw, dlq, metered>>
      BY <1>1, BoundsAssumption DEF ResolveStart, Inv0, TypeOK, CheckpointOK, sinks
    <2>2. \A f : Once(f, done[q], {}) => Once(f, done'[q], {})
      BY <2>1, BoundsAssumption DEF Once, Offset
    <2>3. QED
      BY <2>1, <2>2 DEF AttemptedOnce, Ahead
  <1>2. CASE PlanBatch(q)
    <2>1. /\ pc[q] = "idle" /\ pc'[q] = FirstStage(q)
          /\ done'[q] = done[q] /\ UNCHANGED <<raw, dlq, metered>>
      BY <1>2 DEF PlanBatch, Inv0, TypeOK, sinks
    <2>2. QED
      BY <2>1 DEF AttemptedOnce, Ahead, FirstStage
  <1>3. CASE ReplayBatch(q)
    BY <1>3 DEF ReplayBatch, AttemptedOnce
  <1>4. QED
    BY <1>1, <1>2, <1>3

LEMMA OnceMetrics ==
    ASSUME Inv0, NEW q \in Query, AttemptedOnce(q), InsertMetrics(q)
    PROVE  AttemptedOnce(q)'
  <1>1. /\ pc[q] = "metrics" /\ pc'[q] = "commit"
        /\ UNCHANGED <<checkpoint, raw, dlq>>
        /\ metered'[q] = Copied(metered[q], Batch(q))
        /\ metered[q] \in [Offset -> Copies]
    BY DEF InsertMetrics, Inv0, TypeOK
  <1>2. /\ Planned(q)' = Planned(q) /\ done'[q] = done[q]
        /\ Batch(q) \subseteq Planned(q)
    BY <1>1 DEF Batch, Planned, checkpoint
  <1>3. Once(metered[q], done[q], {})
    BY <1>1 DEF AttemptedOnce, Ahead
  <1>4. \A o \in Batch(q) : ~(o <= done[q])
    BY BoundsAssumption DEF Batch, Planned, Inv0, TypeOK, Offset
  <1>5. Once(metered'[q], done[q], Planned(q))
    BY <1>1, <1>2, <1>3, <1>4, OnceCopied
  <1>6. QED
    BY <1>1, <1>2, <1>5 DEF AttemptedOnce, Ahead

(***************************************************************************)
(* The steps of "validated" and of "candles".                              *)
(***************************************************************************)
LEMMA OnceValidatedStep ==
    ASSUME Inv0, AttemptedOnce("validated"), ValidatedStep
    PROVE  AttemptedOnce("validated")'
  <1> DEFINE q == "validated"
  <1>1. q \in Query
    BY DEF Query
  <1>2. /\ raw \in [Offset -> Copies] /\ dlq \in [Offset -> Copies]
        /\ Valid(q) \subseteq Planned(q) /\ Invalid(q) \subseteq Planned(q)
        /\ \A o \in Planned(q) : ~(o <= done[q])
    BY <1>1, BoundsAssumption
       DEF Inv0, TypeOK, Valid, Invalid, Batch, Planned, Offset
  <1>3. CASE WriteRaw
    <2>1. /\ pc[q] = "parquet" /\ pc'[q] = "dlq"
          /\ UNCHANGED <<checkpoint, dlq, metered>>
          /\ raw' = Copied(raw, Valid(q))
      BY <1>1, <1>3 DEF WriteRaw, Inv0, TypeOK
    <2>2. Planned(q)' = Planned(q) /\ done'[q] = done[q]
      BY <2>1 DEF Planned, checkpoint
    <2>3. Once(raw', done[q], Planned(q))
      BY <1>2, <2>1, OnceCopied DEF AttemptedOnce, Ahead
    <2>4. QED
      BY <2>1, <2>2, <2>3 DEF AttemptedOnce, Ahead
  <1>4. CASE WriteDlq
    <2>1. /\ pc[q] = "dlq" /\ pc'[q] = "metrics"
          /\ UNCHANGED <<checkpoint, raw, metered>>
          /\ dlq' = Copied(dlq, Invalid(q))
      BY <1>1, <1>4 DEF WriteDlq, Inv0, TypeOK
    <2>2. Planned(q)' = Planned(q) /\ done'[q] = done[q]
      BY <2>1 DEF Planned, checkpoint
    <2>3. Once(dlq', done[q], Planned(q))
      BY <1>2, <2>1, OnceCopied DEF AttemptedOnce, Ahead
    <2>4. QED
      BY <2>1, <2>2, <2>3 DEF AttemptedOnce, Ahead
  <1>5. CASE CommitValidated
    <2>1. /\ pc[q] = "commit" /\ pc'[q] = "idle"
          /\ q \in pending /\ q \notin pending'
          /\ done'[q] = plan[q].to /\ UNCHANGED <<raw, dlq, metered>>
      BY <1>1, <1>5 DEF CommitValidated, Inv0, TypeOK, CheckpointOK, BatchStage, sinks
    <2>2. /\ Once(raw, plan[q].to, {}) /\ Once(dlq, plan[q].to, {})
          /\ Once(metered[q], plan[q].to, {})
      BY <1>1, <2>1, OnceCommitted DEF AttemptedOnce, Ahead
    <2>3. QED
      BY <2>1, <2>2 DEF AttemptedOnce, Ahead
  <1>6. QED
    BY <1>1, <1>3, <1>4, <1>5, OnceStart, OnceMetrics DEF ValidatedStep

LEMMA OnceCandlesStep ==
    ASSUME Inv0, EverySymbol, AttemptedOnce("candles"), CandlesStep
    PROVE  AttemptedOnce("candles")'
  <1> DEFINE q == "candles"
  <1>1. q \in Query /\ q # "validated"
    BY DEF Query
  <1>2. CASE UpsertCandles
    <2>1. /\ pc[q] = "upsert" /\ pc'[q] = "metrics"
          /\ UNCHANGED <<checkpoint, metered>>
      BY <1>1, <1>2 DEF UpsertCandles, Inv0, TypeOK
    <2>2. QED
      BY <1>1, <2>1 DEF AttemptedOnce, Ahead, checkpoint
  <1>3. CASE UpsertRejected
    <2>1. \A k \in Key : k[1] # NoSymbol
      BY DEF Key, KeyOf, EverySymbol
    <2>2. UpsertAccepted
      BY <2>1, AcceptedFacts DEF UpsertAccepted
    <2>3. QED
      BY <1>3, <2>2 DEF UpsertRejected
  <1>4. CASE CommitCandles
    <2>1. /\ pc[q] = "commit" /\ pc'[q] = "idle"
          /\ q \in pending /\ q \notin pending'
          /\ done'[q] = plan[q].to /\ UNCHANGED metered
      BY <1>1, <1>4 DEF CommitCandles, Inv0, TypeOK, CheckpointOK, BatchStage, sinks
    <2>2. Once(metered[q], plan[q].to, {})
      BY <1>1, <2>1, OnceCommitted DEF AttemptedOnce, Ahead
    <2>3. QED
      BY <1>1, <2>1, <2>2 DEF AttemptedOnce, Ahead
  <1>5. QED
    BY <1>1, <1>2, <1>3, <1>4, OnceStart, OnceMetrics DEF CandlesStep

LEMMA OnceInit == Init => OnceInv
  BY DEF Init, OnceInv, AttemptedOnce, Once, Ahead, Query

LEMMA OnceNext == Inv0 /\ OnceInv /\ [Next]_vars => OnceInv'
  <1> SUFFICES ASSUME Inv0, OnceInv, [Next]_vars, faults' = 0, EverySymbol
               PROVE  \A q \in Query : AttemptedOnce(q)'
    BY DEF OnceInv, EverySymbol
  <1>1. /\ faults \in Nat
        /\ ~Crash /\ \A q \in Query : ~Fail(q)
    BY BoundsAssumption DEF Inv0, TypeOK, Crash, Fail
  <1>2. faults = 0
    BY <1>1 DEF Next, Publish, Delete, Tick, ValidatedStep, CandlesStep,
                ResolveStart, PlanBatch, ReplayBatch, WriteRaw, WriteDlq,
                UpsertCandles, UpsertRejected, InsertMetrics, CommitValidated,
                CommitCandles, Exit, Restart, vars
  <1>3. \A q \in Query : AttemptedOnce(q)
    BY <1>2 DEF OnceInv
  <1>4. CASE (\E e \in Event : Publish(e)) \/ Delete \/ Tick \/ UNCHANGED vars
    <2>1. UNCHANGED <<pc, checkpoint, sinks>>
      BY <1>4 DEF Publish, Delete, Tick, vars
    <2>2. QED
      BY <1>3, <2>1, OnceFrame DEF checkpoint, sinks
  <1>5. CASE ValidatedStep
    <2>1. /\ pc'["candles"] = pc["candles"] /\ done'["candles"] = done["candles"]
          /\ plan'["candles"] = plan["candles"]
          /\ "candles" \in pending <=> "candles" \in pending'
          /\ metered'["candles"] = metered["candles"]
      BY <1>5 DEF ValidatedStep, ResolveStart, PlanBatch, ReplayBatch, WriteRaw,
                  WriteDlq, InsertMetrics, CommitValidated, checkpoint, sinks,
                  Inv0, TypeOK, Query
    <2>2. QED
      BY <1>3, <1>5, <2>1, OnceFrame, OnceValidatedStep DEF Query
  <1>6. CASE CandlesStep
    <2>1. /\ pc'["validated"] = pc["validated"]
          /\ done'["validated"] = done["validated"]
          /\ plan'["validated"] = plan["validated"]
          /\ "validated" \in pending <=> "validated" \in pending'
          /\ metered'["validated"] = metered["validated"]
          /\ UNCHANGED <<raw, dlq>>
      BY <1>6 DEF CandlesStep, ResolveStart, PlanBatch, ReplayBatch, UpsertCandles,
                  UpsertRejected, InsertMetrics, CommitCandles, checkpoint, sinks,
                  Inv0, TypeOK, Query
    <2>2. QED
      BY <1>3, <1>6, <2>1, OnceFrame, OnceCandlesStep DEF Query
  <1>7. CASE Exit \/ Restart
    <2>1. \E q \in Query : pc[q] \in {"failed", "stopped"}
      BY <1>7 DEF Exit, Restart, Query
    <2>2. QED
      BY <1>3, <2>1 DEF AttemptedOnce
  <1>8. QED
    BY <1>1, <1>4, <1>5, <1>6, <1>7 DEF Next

(* The sinks of "validated" only append, and pipeline_metrics with them;   *)
(* without a failure, and without a record that stops the job, nothing is  *)
(* ever appended twice: both queries go from batch to batch, each batch    *)
(* written once, by a single attempt.                                      *)
THEOREM AppendedOnce == Spec => []OnceWithoutFailure
  <1>1. OnceInv => OnceWithoutFailure
    <2> SUFFICES ASSUME OnceInv, faults = 0, EverySymbol, NEW o \in Offset
                 PROVE  raw[o] <= 1 /\ dlq[o] <= 1 /\ \A q \in Query : metered[q][o] <= 1
      BY DEF OnceWithoutFailure, EverySymbol
    <2>1. \A f, committed, ahead : Once(f, committed, ahead) => f[o] <= 1
      BY DEF Once
    <2>2. AttemptedOnce("validated") /\ \A q \in Query : AttemptedOnce(q)
      BY DEF OnceInv, Query
    <2>3. QED
      BY <2>1, <2>2, Zenon DEF AttemptedOnce
  <1>2. QED
    BY <1>1, Inv0Init, Inv0Next, OnceInit, OnceNext, PTL DEF Spec
=============================================================================
