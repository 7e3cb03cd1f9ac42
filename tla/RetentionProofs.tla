-------------------------- MODULE RetentionProofs --------------------------
(***************************************************************************)
(* What a purge may delete, for any number of purgers, trades and days and *)
(* any retention periods the stream's delay fits in.                       *)
(***************************************************************************)
EXTENDS Retention, TLAPS

LEMMA ProductBounds ==
    ASSUME NEW x \in Nat, NEW n \in Nat
    PROVE  x * n \in Nat /\ (n >= 1 => x <= x * n)
  BY Z3

LEMMA KeepFacts == Keep \in Nat /\ MetricsKeep \in Nat /\ DayLen <= MetricsKeep
  <1>1. Keep \in Nat
    BY ProductBounds, PurgeAssumption DEF Keep
  <1>2. PICK n \in Nat : n >= 1 /\ MetricsKeep = DayLen * n
    BY PurgeAssumption DEF MetricsKeep
  <1>3. QED
    BY <1>1, <1>2, ProductBounds, PurgeAssumption

LEMMA MinuteFacts == Minute \subseteq Nat /\ \A t \in Trade : MinuteOf[t] \in Minute
  BY PurgeAssumption DEF Minute

-----------------------------------------------------------------------------
(***************************************************************************)
(* What an open transaction deletes is old by its own clock, and its       *)
(* summary has all there is in the candles that are old by that clock: the *)
(* stream upserts only younger ones, other purgers only delete.            *)
(***************************************************************************)
TxnInv ==
    \A p \in Purger :
        /\ txn[p].ts <= now
        /\ txn[p].deleted \subseteq OldFor(txn[p].ts)
        /\ \A t \in txn[p].trimmed : t < txn[p].ts - MetricsKeep
        /\ pc[p] = "idle" => txn[p].deleted = {} /\ txn[p].trimmed = {}
        /\ SummarizeFirst /\ pc[p] \notin {"idle", "summarize"} =>
              \A m \in OldFor(txn[p].ts) : candles[m] \subseteq txn[p].rolled[DayOf(m)]

IInv == TypeOK /\ TxnInv

LEMMA OldFacts ==
    ASSUME NEW ts \in Time
    PROVE  OldFor(ts) \subseteq Minute /\ \A m \in OldFor(ts) : DayOf(m) \in Day
  BY DEF OldFor, Day

LEMMA RollUpFacts ==
    ASSUME TypeOK, NEW ts \in Time
    PROVE  /\ RollUp(ts) \in [Day -> SUBSET Trade]
           /\ \A m \in OldFor(ts) : candles[m] \subseteq RollUp(ts)[DayOf(m)]
  <1>1. \A m \in OldFor(ts) : m \in Minute /\ candles[m] \subseteq Trade
    BY OldFacts DEF TypeOK
  <1>2. \A d \in Day : RollUp(ts)[d]
           = UNION {candles[m] : m \in {n \in OldFor(ts) : DayOf(n) = d}}
    BY DEF RollUp
  <1>3. RollUp(ts) \in [Day -> SUBSET Trade]
    BY <1>1 DEF RollUp
  <1>4. QED
    BY <1>2, <1>3, OldFacts

LEMMA TxnInit == Init => IInv
  BY PurgeAssumption DEF Init, IInv, TypeOK, TxnInv, Time, Step, Transaction,
                         NoTransaction

LEMMA NoTransactionType == NoTransaction \in Transaction
  BY PurgeAssumption DEF NoTransaction, Transaction, Time

LEMMA TypeNext == TypeOK /\ [Next]_vars => TypeOK'
  <1> SUFFICES ASSUME TypeOK, [Next]_vars
               PROVE  TypeOK'
    OBVIOUS
  <1>1. CASE Tick
    BY <1>1, PurgeAssumption DEF Tick, TypeOK, Time
  <1>2. ASSUME NEW t \in Trade, Upsert(t)
        PROVE  TypeOK'
    <2>1. ingested' \in SUBSET Trade
      BY <1>2 DEF Upsert, TypeOK
    <2>2. candles' \in [Minute -> SUBSET Trade]
      BY <1>2, <2>1 DEF Upsert, TypeOK
    <2>3. QED
      BY <1>2, <2>1, <2>2 DEF Upsert, TypeOK
  <1>3. CASE RecordMetrics
    BY <1>3 DEF RecordMetrics, TypeOK
  <1>4. ASSUME NEW p \in Purger, Begin(p)
        PROVE  TypeOK'
    BY <1>4 DEF Begin, TypeOK, Transaction, Step
  <1>5. ASSUME NEW p \in Purger, ReadCandles(p)
        PROVE  TypeOK'
    <2>1. txn[p].ts \in Time
      BY DEF TypeOK, Transaction
    <2>2. QED
      BY <1>5, <2>1, RollUpFacts DEF ReadCandles, TypeOK, Transaction, Step
  <1>6. ASSUME NEW p \in Purger, WriteSummary(p)
        PROVE  TypeOK'
    BY <1>6 DEF WriteSummary, TypeOK, Step
  <1>7. ASSUME NEW p \in Purger, DeleteCandles(p)
        PROVE  TypeOK'
    <2> DEFINE rows == {m \in OldFor(txn[p].ts) : candles[m] # {}}
    <2>1. rows \in SUBSET Minute
      BY DEF OldFor
    <2>2. /\ txn' = [txn EXCEPT ![p].deleted = rows]
          /\ pc' = [pc EXCEPT ![p] = "trim"]
          /\ UNCHANGED <<now, ingested, candles, summary, metrics, faults>>
      BY <1>7 DEF DeleteCandles
    <2> HIDE DEF rows
    <2>3. QED
      BY <2>1, <2>2 DEF TypeOK, Transaction, Step
  <1>8. ASSUME NEW p \in Purger, DeleteMetrics(p)
        PROVE  TypeOK'
    <2> DEFINE rows == {t \in metrics : t < txn[p].ts - MetricsKeep}
    <2>1. rows \in SUBSET Time
      BY DEF TypeOK
    <2>2. /\ txn' = [txn EXCEPT ![p].trimmed = rows]
          /\ pc' = [pc EXCEPT ![p] = "commit"]
          /\ UNCHANGED <<now, ingested, candles, summary, metrics, faults>>
      BY <1>8 DEF DeleteMetrics
    <2> HIDE DEF rows
    <2>3. QED
      BY <2>1, <2>2 DEF TypeOK, Transaction, Step
  <1>9. ASSUME NEW p \in Purger, Commit(p)
        PROVE  TypeOK'
    BY <1>9, NoTransactionType DEF Commit, TypeOK, Transaction, Step
  <1>10. ASSUME NEW p \in Purger, Abort(p)
         PROVE  TypeOK'
    BY <1>10, NoTransactionType, PurgeAssumption DEF Abort, TypeOK, Step
  <1>11. CASE UNCHANGED vars
    BY <1>11 DEF vars, TypeOK
  <1>12. QED
    BY <1>1, <1>2, <1>3, <1>4, <1>5, <1>6, <1>7, <1>8, <1>9, <1>10, <1>11
       DEF Next, Purge

LEMMA TxnNext == IInv /\ [Next]_vars => IInv'
  <1> SUFFICES ASSUME IInv, [Next]_vars
               PROVE  TxnInv'
    BY TypeNext DEF IInv
  <1>0. /\ now \in Int /\ \A p \in Purger : txn[p].ts \in Time /\ txn[p].ts \in Int
        /\ TypeOK
    BY DEF IInv, TypeOK, Transaction, Time
  <1>1. CASE Tick
    BY <1>0, <1>1 DEF Tick, IInv, TxnInv
  <1>2. ASSUME NEW t \in Trade, Upsert(t)
        PROVE  TxnInv'
    <2>1. ASSUME NEW p \in Purger
          PROVE  MinuteOf[t] \notin OldFor(txn[p].ts)
      <3>1. MinuteOf[t] \in Int /\ Keep \in Int /\ UpsertDelay \in Int
        BY PurgeAssumption, KeepFacts, DelayAssumption
      <3>2. now <= MinuteOf[t] + UpsertDelay /\ txn[p].ts <= now
        BY <1>2 DEF Upsert, IInv, TxnInv
      <3>3. QED
        BY <1>0, <3>1, <3>2, DelayAssumption DEF OldFor
    <2>2. \A p \in Purger : \A m \in OldFor(txn[p].ts) : candles'[m] = candles[m]
      BY <1>0, <1>2, <2>1, OldFacts DEF Upsert, TypeOK
    <2>3. QED
      BY <1>2, <2>2 DEF Upsert, IInv, TxnInv
  <1>3. CASE RecordMetrics
    BY <1>3 DEF RecordMetrics, IInv, TxnInv
  <1>4. ASSUME NEW p \in Purger, Begin(p)
        PROVE  TxnInv'
    BY <1>0, <1>4 DEF Begin, IInv, TxnInv, TypeOK, Transaction
  <1>5. ASSUME NEW p \in Purger, ReadCandles(p)
        PROVE  TxnInv'
    BY <1>0, <1>5, RollUpFacts DEF ReadCandles, IInv, TxnInv, TypeOK, Transaction
  <1>6. ASSUME NEW p \in Purger, WriteSummary(p)
        PROVE  TxnInv'
    BY <1>0, <1>6 DEF WriteSummary, IInv, TxnInv, TypeOK
  <1>7. ASSUME NEW p \in Purger, DeleteCandles(p)
        PROVE  TxnInv'
    BY <1>0, <1>7 DEF DeleteCandles, IInv, TxnInv, TypeOK, Transaction
  <1>8. ASSUME NEW p \in Purger, DeleteMetrics(p)
        PROVE  TxnInv'
    BY <1>0, <1>8 DEF DeleteMetrics, IInv, TxnInv, TypeOK, Transaction
  <1>9. ASSUME NEW p \in Purger, Commit(p)
        PROVE  TxnInv'
    <2>1. \A m \in Minute : candles'[m] \subseteq candles[m]
      BY <1>9 DEF Commit
    <2>2. 0 <= now
      BY <1>0 DEF TypeOK, Time
    <2>3. QED
      BY <1>0, <1>9, <2>1, <2>2, OldFacts
         DEF Commit, IInv, TxnInv, TypeOK, NoTransaction
  <1>10. ASSUME NEW p \in Purger, Abort(p)
         PROVE  TxnInv'
    <2>1. 0 <= now
      BY <1>0 DEF TypeOK, Time
    <2>2. QED
      BY <1>0, <1>10, <2>1 DEF Abort, IInv, TxnInv, TypeOK, NoTransaction
  <1>11. CASE UNCHANGED vars
    BY <1>11 DEF vars, IInv, TxnInv
  <1>12. QED
    BY <1>1, <1>2, <1>3, <1>4, <1>5, <1>6, <1>7, <1>8, <1>9, <1>10, <1>11
       DEF Next, Purge

(* Tables and transactions keep their types.                               *)
THEOREM TypeCorrect == Spec => []TypeOK
  <1>1. IInv => TypeOK
    BY DEF IInv
  <1>2. QED
    BY <1>1, TxnInit, TxnNext, PTL DEF Spec

-----------------------------------------------------------------------------
(***************************************************************************)
(* Rows disappear when a purge commits, and then only.                     *)
(***************************************************************************)
LEMMA RowsDisappear ==
    ASSUME IInv, [Next]_vars
    PROVE  \/ \E p \in Purger : Commit(p)
           \/ /\ metrics \subseteq metrics'
              /\ \A m \in Minute : candles[m] # {} => candles'[m] # {}
  <1>1. ASSUME NEW t \in Trade, Upsert(t)
        PROVE  /\ metrics' = metrics
               /\ \A m \in Minute : candles[m] # {} => candles'[m] # {}
    <2>1. t \in candles'[MinuteOf[t]]
      BY <1>1, MinuteFacts DEF Upsert, IInv, TypeOK
    <2>2. QED
      BY <1>1, <2>1 DEF Upsert, IInv, TypeOK
  <1>2. QED
    BY <1>1 DEF Next, Purge, vars, Tick, RecordMetrics, Begin, ReadCandles,
                WriteSummary, DeleteCandles, DeleteMetrics, Abort

(* keep_days of candles and a day of metrics survive every purge.          *)
THEOREM RecentRowsSurvive == Spec => RecentRowsKept
  <1>1. ASSUME IInv, [Next]_vars
        PROVE  /\ \A m \in Minute : candles[m] # {} /\ candles'[m] = {} => m < now - Keep
               /\ \A t \in metrics : t \notin metrics' => t < now - DayLen
    <2>1. ASSUME NEW p \in Purger, Commit(p)
          PROVE  /\ \A m \in Minute : candles[m] # {} /\ candles'[m] = {} => m < now - Keep
                 /\ \A t \in metrics : t \notin metrics' => t < now - DayLen
      <3>1. /\ txn[p].ts \in Int /\ now \in Int /\ txn[p].ts <= now
            /\ Keep \in Int /\ MetricsKeep \in Int /\ DayLen \in Int
            /\ DayLen <= MetricsKeep /\ Minute \subseteq Int
            /\ metrics \subseteq Int
        BY <1>1, KeepFacts, MinuteFacts, PurgeAssumption
           DEF IInv, TxnInv, TypeOK, Transaction, Time
      <3>2. \A m \in txn[p].deleted : m \in Minute /\ m < txn[p].ts - Keep
        BY <1>1 DEF IInv, TxnInv, OldFor
      <3>3. \A t \in txn[p].trimmed : t < txn[p].ts - MetricsKeep
        BY <1>1 DEF IInv, TxnInv
      <3>4. \A m \in Minute : candles[m] # {} /\ candles'[m] = {} => m < now - Keep
        BY <2>1, <3>1, <3>2 DEF Commit
      <3>5. \A t \in metrics : t \notin metrics' => t < now - DayLen
        BY <2>1, <3>1, <3>3 DEF Commit
      <3>6. QED
        BY <3>4, <3>5
    <2>2. QED
      BY <1>1, <2>1, RowsDisappear
  <1>2. IInv /\ [Next]_vars
          => [/\ \A m \in Minute : candles[m] # {} /\ candles'[m] = {} => m < now - Keep
              /\ \A t \in metrics : t \notin metrics' => t < now - DayLen]_vars
    BY <1>1
  <1>3. QED
    BY <1>2, TxnInit, TxnNext, PTL DEF Spec, RecentRowsKept

(* No trade is deleted by a transaction whose summary leaves it out.       *)
THEOREM DeletedTradesSummarized == Spec => DeletedIsSummarized
  <1>1. ASSUME IInv, [Next]_vars, SummarizeFirst,
               NEW m \in Minute, candles[m] # {}, candles'[m] = {}
        PROVE  candles[m] \subseteq summary'[DayOf(m)]
    <2>1. PICK p \in Purger : Commit(p)
      BY <1>1, RowsDisappear
    <2>2. m \in txn[p].deleted
      BY <1>1, <2>1 DEF Commit
    <2>3. m \in OldFor(txn[p].ts) /\ DayOf(m) \in Day
      BY <1>1, <2>2, OldFacts DEF IInv, TxnInv, Day
    <2>4. candles[m] \subseteq txn[p].rolled[DayOf(m)]
      BY <1>1, <2>1, <2>3 DEF IInv, TxnInv, Commit
    <2>5. DayOf(m) \in RolledDays(p)
      BY <1>1, <2>3, <2>4 DEF RolledDays
    <2>6. QED
      BY <2>1, <2>3, <2>4, <2>5 DEF Commit
  <1>2. IInv /\ [Next]_vars
          => [SummarizeFirst =>
                 \A m \in Minute : candles[m] # {} /\ candles'[m] = {} =>
                     candles[m] \subseteq summary'[DayOf(m)]]_vars
    BY <1>1
  <1>3. QED
    BY <1>2, TxnInit, TxnNext, PTL DEF Spec, DeletedIsSummarized
=============================================================================
