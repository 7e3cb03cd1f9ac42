------------------------ MODULE StreamCandlesProofs ------------------------
(***************************************************************************)
(* The candles of StreamJob, for every set of events and any failures:     *)
(* what the serving table, the aggregation state, the deduplication state  *)
(* and the watermark have to do with one another, whatever the topic loses *)
(* (CandleInv), and when it keeps what is planned (MatchInv).              *)
(***************************************************************************)
EXTENDS StreamJobProofs, WellFoundedInduction

-----------------------------------------------------------------------------
(***************************************************************************)
(* Candles, event by event.  The state of an open window has every event   *)
(* dropDuplicates remembers of it, once, so an upsert loses none; after    *)
(* the upsert every new trade of the batch, as far as the topic still has  *)
(* it, is in its candle.                                                   *)
(***************************************************************************)
ServedInv ==
    /\ CandlesOfTheirWindow
    /\ NoTradeCountedTwice
    /\ RememberedTradeInCandle

StoreInv ==
    /\ wm <= wmNext
    /\ \A k \in Key : \A o \in open[k] :
          o <= Len(log) /\ KeyOf(log[o]) = k /\ log[o] \in seen
    /\ \A k \in Key : \A o, p \in open[k] : log[o] = log[p] => o = p
    /\ \A e \in seen : EndOf(KeyOf(e)) > wm => \E o \in open[KeyOf(e)] : log[o] = e

FreshServed ==
    \A o \in Fresh : \E p \in candles[KeyOf(log[o])] : log[p] = log[o]

UpsertedInv == pc["candles"] \in {"metrics", "commit"} => FreshServed

CandleInv == ServedInv /\ StoreInv /\ UpsertedInv

-----------------------------------------------------------------------------
(***************************************************************************)
(* Records already in the topic stay as they are.                          *)
(***************************************************************************)
LEMMA LogFrame ==
    ASSUME Inv0, TopicStep
    PROVE  /\ Len(log') \in Nat /\ Len(log) \in Nat /\ Len(log) <= Len(log')
           /\ \A o \in Offset : o <= Len(log) => o <= Len(log') /\ log'[o] = log[o]
  <1>1. log \in Seq(Event) /\ \A o \in Offset : o \in Nat \ {0}
    BY BoundsAssumption DEF Inv0, TypeOK, Offset
  <1>2. CASE log' = log
    BY <1>1, <1>2
  <1>3. ASSUME NEW e \in Event, log' = Append(log, e)
        PROVE  /\ Len(log') \in Nat /\ Len(log) \in Nat /\ Len(log) <= Len(log')
               /\ \A o \in Offset : o <= Len(log) => o <= Len(log') /\ log'[o] = log[o]
    BY <1>1, <1>3
  <1>4. QED
    BY <1>2, <1>3 DEF TopicStep

(***************************************************************************)
(* What the planned batch contributes depends on the batch and the store.  *)
(* It shrinks when the topic loses records of the batch, and only then     *)
(* changes.                                                                *)
(***************************************************************************)
LEMMA FreshFrame ==
    ASSUME Inv0, TopicStep,
           done'["candles"] = done["candles"],
           plan'["candles"] = plan["candles"],
           UNCHANGED store
    PROVE  /\ Fresh' \subseteq Fresh
           /\ \A o \in Fresh : o \in Offset /\ log'[o] = log[o]
           /\ deleted' = deleted \/ deleted' <= done["candles"] => Fresh' = Fresh
  <1>1. /\ Valid("candles")' \subseteq Valid("candles")
        /\ deleted' = deleted \/ deleted' <= done["candles"]
              => Valid("candles")' = Valid("candles")
        /\ \A o \in Planned("candles") : log'[o] = log[o]
    BY BatchFrame DEF Query
  <1>2. \A o \in Valid("candles") : o \in Offset /\ log'[o] = log[o]
    BY <1>1 DEF Valid, Batch, Planned
  <1>3. QED
    BY <1>1, <1>2 DEF Fresh, store

LEMMA AcceptedFrame ==
    ASSUME Inv0, TopicStep,
           deleted' = deleted \/ deleted' <= done["candles"],
           done'["candles"] = done["candles"],
           plan'["candles"] = plan["candles"],
           UNCHANGED store
    PROVE  /\ Accepted' = Accepted
           /\ Updated' = Updated
           /\ \A k \in Key : Aggregate(k)' = Aggregate(k)
  <1>1. Fresh' = Fresh /\ \A o \in Fresh : log'[o] = log[o]
    BY FreshFrame
  <1>2. Accepted' = Accepted
    BY <1>1 DEF Accepted
  <1>3. \A o \in Accepted : log'[o] = log[o]
    BY <1>1 DEF Accepted
  <1>4. Updated' = Updated
    BY <1>2, <1>3 DEF Updated
  <1>5. \A k \in Key : Contribution(k)' = Contribution(k)
    BY <1>2, <1>3 DEF Contribution
  <1>6. \A k \in Key : Aggregate(k)' = Aggregate(k)
    BY <1>5 DEF Aggregate, store
  <1>7. QED
    BY <1>2, <1>4, <1>6

(***************************************************************************)
(* Two records of the planned batch with one event_id are not both         *)
(* accepted.                                                               *)
(***************************************************************************)
LEMMA AcceptedOnce ==
    ASSUME Inv0, NEW o \in Accepted, NEW p \in Accepted, log[o] = log[p]
    PROVE  o = p
  <1>1. o \in Int /\ p \in Int
    BY AcceptedFacts, BoundsAssumption DEF Offset
  <1>2. o <= p /\ p <= o
    BY DEF Accepted
  <1>3. QED
    BY <1>1, <1>2

(***************************************************************************)
(* dropDuplicates keeps one record of each event it does not know.         *)
(***************************************************************************)
LEMMA FirstIsAccepted ==
    ASSUME Inv0, NEW o \in Fresh
    PROVE  \E p \in Accepted : log[p] = log[o]
  <1> DEFINE Same == {p \in Fresh : log[p] = log[o]}
  <1>1. Same \subseteq Nat
    BY BoundsAssumption DEF Fresh, Valid, Batch, Planned, Offset
  <1>2. o \in Same
    OBVIOUS
  <1>3. PICK p \in Same : \A r \in Same : <<r, p>> \notin OpToRel(<, Nat)
    BY <1>1, <1>2, WFMin, NatLessThanWellFounded, Zenon
  <1>4. \A r \in Same : ~(r < p)
    BY <1>1, <1>3 DEF OpToRel
  <1>5. \A r \in Same : p <= r
    <2>1. p \in Nat /\ \A r \in Same : r \in Nat
      BY <1>1
    <2>2. QED
      BY <1>4, <2>1
  <1>6. p \in Accepted
    BY <1>3, <1>5 DEF Accepted
  <1>7. QED
    BY <1>3, <1>6

(***************************************************************************)
(* A window that gets a record is still open.                              *)
(***************************************************************************)
LEMMA UpdatedOpen ==
    ASSUME Inv0, NEW k \in Updated
    PROVE  k \in Key /\ EndOf(k) > wm
  <1>1. PICK o \in Accepted : k = KeyOf(log[o])
    BY DEF Updated
  <1>2. log[o] \in Event /\ TimeOf[log[o]] > wm
    BY AcceptedFacts
  <1>3. wm \in Int
    BY DEF Inv0, TypeOK
  <1>4. QED
    BY <1>1, <1>2, <1>3, KeyFacts

(***************************************************************************)
(* What a window is recomputed from: records of its own, each event once,  *)
(* the accepted ones among them.                                           *)
(***************************************************************************)
LEMMA AggregateFacts ==
    ASSUME Inv0, StoreInv, NEW k \in Key
    PROVE  /\ \A o \in Aggregate(k) : /\ o \in Offset /\ o <= Len(log)
                                      /\ KeyOf(log[o]) = k
                                      /\ log[o] \in seen \/ o \in Accepted
           /\ \A o, p \in Aggregate(k) : log[o] = log[p] => o = p
  <1>1. \A o \in open[k] :
           /\ o \in Offset /\ o <= Len(log) /\ KeyOf(log[o]) = k /\ log[o] \in seen
    BY DEF StoreInv, Inv0, TypeOK
  <1>2. \A o \in Contribution(k) :
           /\ o \in Offset /\ o <= Len(log) /\ KeyOf(log[o]) = k
           /\ o \in Accepted /\ log[o] \notin seen
    BY AcceptedFacts DEF Contribution
  <1>3. \A o, p \in Aggregate(k) : log[o] = log[p] => o = p
    <2> SUFFICES ASSUME NEW o \in Aggregate(k), NEW p \in Aggregate(k), log[o] = log[p]
                 PROVE  o = p
      OBVIOUS
    <2>1. CASE o \in open[k] /\ p \in open[k]
      BY <2>1 DEF StoreInv
    <2>2. CASE o \in Contribution(k) /\ p \in Contribution(k)
      BY <1>2, <2>2, AcceptedOnce
    <2>3. QED
      BY <1>1, <1>2, <2>1, <2>2 DEF Aggregate
  <1>4. QED
    BY <1>1, <1>2, <1>3 DEF Aggregate

-----------------------------------------------------------------------------
(***************************************************************************)
(* Upserting the planned batch, for the first time or again.  ON CONFLICT  *)
(* DO UPDATE replaces a candle; the replacement has every event that       *)
(* dropDuplicates remembers.                                               *)
(***************************************************************************)
LEMMA UpsertServes ==
    ASSUME Inv0, CandleInv, UNCHANGED <<log, deleted, checkpoint, store>>,
           candles' = Upserted
    PROVE  ServedInv' /\ StoreInv' /\ FreshServed'
  <1>1. \A k \in Key : candles'[k] = IF k \in Updated THEN Aggregate(k) ELSE candles[k]
    BY DEF Upserted
  <1>2. \A e \in seen : e \in Event /\ KeyOf(e) \in Key
    BY KeyFacts DEF Inv0, TypeOK
  <1>3. CandlesOfTheirWindow'
    BY <1>1, AggregateFacts DEF CandleInv, ServedInv, CandlesOfTheirWindow
  <1>4. NoTradeCountedTwice'
    <2> SUFFICES ASSUME NEW k \in Key, NEW l \in Key,
                        NEW o \in candles'[k], NEW p \in candles'[l],
                        log[o] = log[p]
                 PROVE  o = p /\ k = l
      BY DEF NoTradeCountedTwice
    <2>1. k = l
      BY <1>3 DEF CandlesOfTheirWindow
    <2>2. CASE k \in Updated
      BY <1>1, <2>1, <2>2, AggregateFacts DEF CandleInv
    <2>3. CASE k \notin Updated
      BY <1>1, <2>1, <2>3 DEF CandleInv, ServedInv, NoTradeCountedTwice
    <2>4. QED
      BY <2>1, <2>2, <2>3
  <1>5. RememberedTradeInCandle'
    <2> SUFFICES ASSUME NEW e \in seen
                 PROVE  \E o \in candles'[KeyOf(e)] : log[o] = e
      BY DEF RememberedTradeInCandle, store
    <2>1. CASE KeyOf(e) \in Updated
      <3>1. \E o \in open[KeyOf(e)] : log[o] = e
        BY <2>1, UpdatedOpen DEF CandleInv, StoreInv
      <3>2. QED
        BY <1>1, <1>2, <2>1, <3>1 DEF Aggregate
    <2>2. CASE KeyOf(e) \notin Updated
      BY <1>1, <1>2, <2>2 DEF CandleInv, ServedInv, RememberedTradeInCandle
    <2>3. QED
      BY <2>1, <2>2
  <1>6. StoreInv'
    BY DEF CandleInv, StoreInv, store
  <1>7. FreshServed'
    <2>1. Fresh' = Fresh
      BY FreshFrame DEF TopicStep, checkpoint
    <2>2. ASSUME NEW o \in Fresh
          PROVE  \E p \in candles'[KeyOf(log[o])] : log[p] = log[o]
      <3>1. PICK p \in Accepted : log[p] = log[o]
        BY FirstIsAccepted
      <3>2. KeyOf(log[p]) \in Key /\ KeyOf(log[p]) \in Updated
        BY AcceptedFacts
      <3>3. p \in Aggregate(KeyOf(log[p]))
        BY DEF Aggregate, Contribution
      <3>4. QED
        BY <1>1, <3>1, <3>2, <3>3
    <2>3. QED
      BY <2>1, <2>2 DEF FreshServed
  <1>8. QED
    BY <1>3, <1>4, <1>5, <1>6, <1>7 DEF ServedInv

(***************************************************************************)
(* A step that leaves the candle query's plan, store and table alone.      *)
(***************************************************************************)
LEMMA CandleFrame ==
    ASSUME Inv0, CandleInv, TopicStep,
           done'["candles"] = done["candles"],
           plan'["candles"] = plan["candles"],
           pc'["candles"] = pc["candles"] \/ pc'["candles"] \notin BatchStage("candles"),
           UNCHANGED <<store, candles>>
    PROVE  CandleInv'
  <1>1. \A k \in Key : \A o \in candles[k] \cup open[k] :
           o <= Len(log') /\ log'[o] = log[o]
    <2>1. \A k \in Key : \A o \in candles[k] \cup open[k] : o \in Offset /\ o <= Len(log)
      BY DEF CandleInv, ServedInv, StoreInv, CandlesOfTheirWindow, Inv0, TypeOK
    <2>2. QED
      BY <2>1, LogFrame
  <1>2. \A e \in seen : e \in Event /\ KeyOf(e) \in Key
    BY KeyFacts DEF Inv0, TypeOK
  <1>3. ServedInv'
    <2>1. CandlesOfTheirWindow'
      BY <1>1 DEF CandleInv, ServedInv, CandlesOfTheirWindow
    <2>2. NoTradeCountedTwice'
      BY <1>1 DEF CandleInv, ServedInv, NoTradeCountedTwice
    <2>3. \A e \in seen : \E o \in candles[KeyOf(e)] : log'[o] = e
      BY <1>1, <1>2 DEF CandleInv, ServedInv, RememberedTradeInCandle
    <2>4. RememberedTradeInCandle'
      BY <2>3 DEF RememberedTradeInCandle, store
    <2>5. QED
      BY <2>1, <2>2, <2>4 DEF ServedInv
  <1>4. StoreInv'
    <2>1. UNCHANGED <<seen, open, wm, wmNext>>
      BY DEF store
    <2>2. \A k \in Key : \A o \in open[k] :
             o <= Len(log') /\ KeyOf(log'[o]) = k /\ log'[o] \in seen
      BY <1>1 DEF CandleInv, StoreInv
    <2>3. \A k \in Key : \A o, p \in open[k] : log'[o] = log'[p] => o = p
      BY <1>1 DEF CandleInv, StoreInv
    <2>4. \A e \in seen : EndOf(KeyOf(e)) > wm => \E o \in open[KeyOf(e)] : log'[o] = e
      BY <1>1, <1>2 DEF CandleInv, StoreInv
    <2>5. wm <= wmNext
      BY DEF CandleInv, StoreInv
    <2>6. QED
      BY <2>1, <2>2, <2>3, <2>4, <2>5 DEF StoreInv
  <1>5. UpsertedInv'
    <2> SUFFICES ASSUME pc'["candles"] \in {"metrics", "commit"}, NEW o \in Fresh'
                 PROVE  \E p \in candles[KeyOf(log'[o])] : log'[p] = log'[o]
      BY DEF UpsertedInv, FreshServed
    <2>1. pc["candles"] \in {"metrics", "commit"}
      BY DEF BatchStage
    <2>2. o \in Fresh /\ log'[o] = log[o]
      BY FreshFrame
    <2>3. KeyOf(log[o]) \in Key
      <3>1. PICK p \in Accepted : log[p] = log[o]
        BY <2>2, FirstIsAccepted
      <3>2. QED
        BY <3>1, AcceptedFacts
    <2>4. QED
      BY <1>1, <2>1, <2>2, <2>3 DEF CandleInv, UpsertedInv, FreshServed
  <1>6. QED
    BY <1>3, <1>4, <1>5 DEF CandleInv

LEMMA CandleInit == Init => CandleInv
  BY DEF Init, CandleInv, ServedInv, StoreInv, UpsertedInv, CandlesOfTheirWindow,
         NoTradeCountedTwice, RememberedTradeInCandle, Query

(***************************************************************************)
(* Committing the batch: its records are remembered, its windows are       *)
(* closed or become state.                                                 *)
(***************************************************************************)
LEMMA CommitFacts ==
    ASSUME Inv0, CommitCandles
    PROVE  /\ log' = log /\ candles' = candles
           /\ pc["candles"] = "commit" /\ pc'["candles"] = "idle"
           /\ "candles" \in pending /\ "candles" \notin pending'
           /\ seen' = seen \cup {log[o] : o \in Accepted}
           /\ wm' = wmNext /\ wm' <= wmNext'
           /\ \A k \in Key : /\ EndOf(k) \in Int
                             /\ open'[k] = IF EndOf(k) <= wm' THEN {} ELSE Aggregate(k)
  <1>1. /\ log' = log /\ candles' = candles
        /\ pc["candles"] = "commit" /\ pc'["candles"] = "idle"
        /\ "candles" \in pending /\ "candles" \notin pending'
        /\ seen' = seen \cup {log[o] : o \in Accepted}
        /\ open' = EvictedBy(wmNext) /\ wm' = wmNext
    BY DEF CommitCandles, Inv0, TypeOK, CheckpointOK, BatchStage, Query, sinks
  <1>2. wm' <= wmNext'
    BY <1>1 DEF CommitCandles, WatermarkCandidates
  <1>3. \A k \in Key : EndOf(k) \in Int
    BY KeyFacts DEF Key
  <1>4. \A k \in Key : open'[k] = IF EndOf(k) <= wm' THEN {} ELSE Aggregate(k)
    BY <1>1 DEF EvictedBy
  <1>5. QED
    BY <1>1, <1>2, <1>3, <1>4

LEMMA CandleCommit ==
    ASSUME Inv0, CandleInv, CommitCandles
    PROVE  CandleInv'
  <1>1. wm \in Int /\ wm' \in Int /\ wm <= wm'
    BY CommitFacts DEF Inv0, TypeOK, CandleInv, StoreInv
  <1>2. /\ FreshServed /\ Accepted \subseteq Fresh
        /\ \A o \in Accepted : /\ log[o] \in Event /\ KeyOf(log[o]) \in Key
                               /\ o \in Aggregate(KeyOf(log[o]))
    BY CommitFacts, AcceptedFacts
       DEF CandleInv, UpsertedInv, Accepted, Aggregate, Contribution
  <1>3. ServedInv'
    <2>1. CandlesOfTheirWindow' /\ NoTradeCountedTwice'
      BY CommitFacts DEF CandleInv, ServedInv, CandlesOfTheirWindow, NoTradeCountedTwice
    <2>2. RememberedTradeInCandle'
      <3>1. \A e \in seen : \E o \in candles[KeyOf(e)] : log[o] = e
        BY DEF CandleInv, ServedInv, RememberedTradeInCandle
      <3>2. \A o \in Accepted : \E p \in candles[KeyOf(log[o])] : log[p] = log[o]
        BY <1>2 DEF FreshServed
      <3>3. QED
        BY <3>1, <3>2, CommitFacts DEF RememberedTradeInCandle
    <2>3. QED
      BY <2>1, <2>2 DEF ServedInv
  <1>4. StoreInv'
    <2>1. \A k \in Key : \A o \in open'[k] :
             o <= Len(log) /\ KeyOf(log[o]) = k /\ log[o] \in seen'
      <3> SUFFICES ASSUME NEW k \in Key, NEW o \in open'[k]
                   PROVE  o <= Len(log) /\ KeyOf(log[o]) = k /\ log[o] \in seen'
        OBVIOUS
      <3>1. o \in Aggregate(k)
        BY CommitFacts
      <3>2. QED
        BY <3>1, CommitFacts, AggregateFacts DEF CandleInv
    <2>2. \A k \in Key : \A o, p \in open'[k] : log[o] = log[p] => o = p
      <3>1. \A k \in Key : open'[k] \subseteq Aggregate(k)
        BY CommitFacts
      <3>2. QED
        BY <3>1, AggregateFacts DEF CandleInv
    <2>3. ASSUME NEW e \in seen', EndOf(KeyOf(e)) > wm'
          PROVE  \E o \in open'[KeyOf(e)] : log[o] = e
      <3>1. e \in Event /\ KeyOf(e) \in Key
        <4>1. seen \subseteq Event
          BY DEF Inv0, TypeOK
        <4>2. seen' = seen \cup {log[o] : o \in Accepted}
          BY CommitFacts
        <4>3. e \in Event
          BY <1>2, <4>1, <4>2
        <4>4. QED
          BY <4>3, KeyFacts
      <3>2. open'[KeyOf(e)] = Aggregate(KeyOf(e)) /\ EndOf(KeyOf(e)) > wm
        <4>1. EndOf(KeyOf(e)) \in Int
          BY <3>1, KeyFacts
        <4>2. ~(EndOf(KeyOf(e)) <= wm') /\ EndOf(KeyOf(e)) > wm
          BY <1>1, <2>3, <4>1
        <4>3. QED
          BY <3>1, <4>2, CommitFacts
      <3>3. CASE e \in seen
        BY <3>2, <3>3 DEF CandleInv, StoreInv, Aggregate
      <3>4. CASE e \notin seen
        <4>1. PICK o \in Accepted : e = log[o]
          BY <3>4, CommitFacts
        <4>2. QED
          BY <1>2, <3>2, <4>1
      <3>5. QED
        BY <3>3, <3>4
    <2>4. QED
      BY <2>1, <2>2, <2>3, CommitFacts DEF StoreInv
  <1>5. UpsertedInv'
    BY CommitFacts DEF UpsertedInv
  <1>6. QED
    BY <1>3, <1>4, <1>5 DEF CandleInv

(***************************************************************************)
(* The steps of "candles".                                                 *)
(***************************************************************************)
LEMMA CandleCandlesStep ==
    ASSUME Inv0, CandleInv, CandlesStep
    PROVE  CandleInv'
  <1> USE DEF Query
  <1>1. CASE ResolveStart("candles") \/ PlanBatch("candles")
    <2>1. /\ UNCHANGED <<log, store, candles>>
          /\ pc'["candles"] \notin {"metrics", "commit"}
      BY <1>1 DEF ResolveStart, PlanBatch, FirstStage, Inv0, TypeOK, sinks
    <2>2. ServedInv' /\ StoreInv'
      BY <2>1 DEF CandleInv, ServedInv, StoreInv, CandlesOfTheirWindow,
                  NoTradeCountedTwice, RememberedTradeInCandle, store
    <2>3. QED
      BY <2>1, <2>2 DEF CandleInv, UpsertedInv
  <1>2. CASE ReplayBatch("candles") \/ UpsertRejected
    <2>1. /\ UNCHANGED <<log, deleted, checkpoint, store, candles>>
          /\ pc'["candles"] \in {"upsert", "failed"}
      BY <1>2 DEF ReplayBatch, UpsertRejected, FirstStage, Inv0, TypeOK, sinks
    <2>2. ServedInv' /\ StoreInv'
      BY <2>1 DEF CandleInv, ServedInv, StoreInv, CandlesOfTheirWindow,
                  NoTradeCountedTwice, RememberedTradeInCandle, store
    <2>3. QED
      BY <2>1, <2>2 DEF CandleInv, UpsertedInv
  <1>3. CASE UpsertCandles
    <2>1. UNCHANGED <<log, deleted, checkpoint, store>> /\ candles' = Upserted
      BY <1>3 DEF UpsertCandles
    <2>2. QED
      BY <2>1, UpsertServes DEF CandleInv, UpsertedInv
  <1>4. CASE InsertMetrics("candles")
    <2>1. /\ UNCHANGED <<log, deleted, checkpoint, store, candles>>
          /\ pc["candles"] = "metrics"
      BY <1>4 DEF InsertMetrics
    <2>2. ServedInv' /\ StoreInv'
      BY <2>1 DEF CandleInv, ServedInv, StoreInv, CandlesOfTheirWindow,
                  NoTradeCountedTwice, RememberedTradeInCandle, store
    <2>3. Fresh' = Fresh
      BY <2>1, FreshFrame DEF TopicStep, checkpoint
    <2>4. UpsertedInv'
      BY <2>1, <2>3 DEF CandleInv, UpsertedInv, FreshServed
    <2>5. QED
      BY <2>2, <2>4 DEF CandleInv
  <1>5. CASE CommitCandles
    BY <1>5, CandleCommit
  <1>6. QED
    BY <1>1, <1>2, <1>3, <1>4, <1>5 DEF CandlesStep

(***************************************************************************)
(* An interrupted upsert took place or did not.                            *)
(***************************************************************************)
LEMMA CandleInterrupted ==
    ASSUME Inv0, CandleInv, NEW Q \in SUBSET Query, InFlight(Q),
           UNCHANGED <<log, deleted, checkpoint, store>>,
           \/ pc'["candles"] = pc["candles"] /\ "candles" \notin Q
           \/ pc'["candles"] \notin BatchStage("candles")
    PROVE  CandleInv'
  <1>1. CASE UNCHANGED candles
    BY <1>1, CandleFrame DEF TopicStep, checkpoint
  <1>2. CASE Interrupted(Q, "candles", "upsert") /\ candles' = Upserted
    <2>1. pc'["candles"] \notin BatchStage("candles")
      BY <1>2 DEF Interrupted
    <2>2. UpsertedInv'
      BY <2>1 DEF UpsertedInv, BatchStage
    <2>3. QED
      BY <1>2, <2>2, UpsertServes DEF CandleInv
  <1>3. QED
    BY <1>1, <1>2 DEF InFlight

(***************************************************************************)
(* The steps that are none of "candles"' own: those that interrupt it, and *)
(* those that leave it alone.                                              *)
(***************************************************************************)
Alone ==
    /\ TopicStep
    /\ done'["candles"] = done["candles"]
    /\ plan'["candles"] = plan["candles"]
    /\ "candles" \in pending <=> "candles" \in pending'
    /\ pc'["candles"] = pc["candles"] \/ pc'["candles"] \notin BatchStage("candles")
    /\ UNCHANGED <<store, candles>>

Interruption(Q) ==
    /\ InFlight(Q)
    /\ UNCHANGED <<log, deleted, checkpoint, store>>
    /\ \/ pc'["candles"] = pc["candles"] /\ "candles" \notin Q
       \/ pc'["candles"] \notin BatchStage("candles")

LEMMA StepKinds ==
    ASSUME Inv0, [Next]_vars
    PROVE  \/ CandlesStep
           \/ Alone /\ (Delete \/ deleted' = deleted)
           \/ \E Q \in SUBSET Query : Interruption(Q)
  <1> USE DEF Query
  <1>1. ASSUME NEW e \in Event, Publish(e)
        PROVE  Alone /\ deleted' = deleted
    BY <1>1 DEF Publish, Alone, TopicStep, checkpoint, sinks
  <1>2. CASE Delete
    BY <1>2 DEF Delete, Alone, TopicStep, checkpoint, sinks
  <1>3. CASE Tick \/ Restart \/ UNCHANGED vars
    BY <1>3 DEF Tick, Restart, Alone, TopicStep, BatchStage, vars, checkpoint, sinks
  <1>4. CASE ValidatedStep
    BY <1>4 DEF ValidatedStep, ResolveStart, PlanBatch, ReplayBatch, WriteRaw,
                WriteDlq, InsertMetrics, CommitValidated, checkpoint, sinks,
                Alone, TopicStep, Inv0, TypeOK
  <1>5. ASSUME NEW q \in Query, Fail(q)
        PROVE  Interruption({q})
    <2>1. \/ pc'["candles"] = pc["candles"] /\ "candles" \notin {q}
          \/ pc'["candles"] \notin BatchStage("candles")
      BY <1>5 DEF Fail, BatchStage, Inv0, TypeOK
    <2>2. QED
      BY <1>5, <2>1 DEF Fail, Interruption
  <1>6. CASE Exit \/ Crash
    BY <1>6 DEF Exit, Crash, BatchStage, Interruption
  <1>7. QED
    BY <1>1, <1>2, <1>3, <1>4, <1>5, <1>6 DEF Next

LEMMA CandleNext == Inv0 /\ CandleInv /\ [Next]_vars => CandleInv'
  <1> SUFFICES ASSUME Inv0, CandleInv, [Next]_vars
               PROVE  CandleInv'
    OBVIOUS
  <1>1. CASE CandlesStep
    BY <1>1, CandleCandlesStep
  <1>2. CASE Alone
    BY <1>2, CandleFrame DEF Alone
  <1>3. ASSUME NEW Q \in SUBSET Query, Interruption(Q)
        PROVE  CandleInv'
    BY <1>3, CandleInterrupted DEF Interruption
  <1>4. QED
    BY <1>1, <1>2, <1>3, StepKinds

-----------------------------------------------------------------------------
CandlesInv == Inv0 /\ CandleInv

LEMMA CandlesInvInvariant == Spec => []CandlesInv
  <1>1. Init => CandlesInv
    BY Inv0Init, CandleInit DEF CandlesInv
  <1>2. CandlesInv /\ [Next]_vars => CandlesInv'
    BY Inv0Next, CandleNext DEF CandlesInv
  <1>3. QED
    BY <1>1, <1>2, PTL DEF Spec

(* However often a trade is delivered and a batch replayed, whole or with  *)
(* records missing, it counts once and in one candle.                      *)
THEOREM TradesCountOnce == Spec => []NoTradeCountedTwice
  <1>1. CandlesInv => NoTradeCountedTwice
    BY DEF CandlesInv, CandleInv, ServedInv
  <1>2. QED
    BY <1>1, CandlesInvInvariant, PTL

(* What dropDuplicates remembers is in the serving table: no crash between *)
(* upsert and commit, and no record the topic loses in between, makes the  *)
(* job take a lost trade for a duplicate.                                  *)
THEOREM RememberedTradesAreServed == Spec => []RememberedTradeInCandle
  <1>1. CandlesInv => RememberedTradeInCandle
    BY DEF CandlesInv, CandleInv, ServedInv
  <1>2. QED
    BY <1>1, CandlesInvInvariant, PTL

-----------------------------------------------------------------------------
(***************************************************************************)
(* What has been upserted has nothing to add to the candles when the batch *)
(* commits: a valid record newer than the watermark is served.             *)
(***************************************************************************)
LEMMA CommittedIsServed ==
    ASSUME CandlesInv, pc["candles"] = "commit",
           NEW o \in Valid("candles"), TimeOf[log[o]] > wm
    PROVE  \E p \in candles[KeyOf(log[o])] : log[p] = log[o]
  <1>1. CASE log[o] \in seen
    BY <1>1 DEF CandlesInv, CandleInv, ServedInv, RememberedTradeInCandle
  <1>2. CASE log[o] \notin seen
    <2>1. o \in Fresh
      BY <1>2 DEF Fresh
    <2>2. QED
      BY <2>1 DEF CandlesInv, CandleInv, UpsertedInv, FreshServed
  <1>3. QED
    BY <1>1, <1>2

(***************************************************************************)
(* "candles" gets past records by CommitCandles only.                      *)
(***************************************************************************)
LEMMA DoneChanges ==
    ASSUME Inv0, [Next]_vars, start["candles"] # -1,
           done'["candles"] # done["candles"]
    PROVE  CommitCandles
  <1>1. ~ResolveStart("candles")
    BY DEF ResolveStart
  <1>2. PlanBatch("candles") \/ ReplayBatch("candles") \/ InsertMetrics("candles")
            => done' = done
    BY DEF PlanBatch, ReplayBatch, InsertMetrics, checkpoint
  <1>3. UpsertCandles \/ UpsertRejected => done' = done
    BY DEF UpsertCandles, UpsertRejected, checkpoint
  <1>4. \A Q : Interruption(Q) => done' = done
    BY DEF Interruption, checkpoint
  <1>5. QED
    BY <1>1, <1>2, <1>3, <1>4, StepKinds DEF Alone, CandlesStep

(* What "candles" gets past is in a candle, or behind the watermark, or    *)
(* invalid at the timestamp of its batch, or gone from the topic: nothing  *)
(* else loses a trade, with any number of failures, crashes and replays.   *)
THEOREM NothingElseDropped == Spec => DroppedForCause
  <1>1. ASSUME CandlesInv, [Next]_vars
        PROVE  [\A o \in Offset :
                  start["candles"] # -1 /\ done["candles"] < o /\ o <= done'["candles"] =>
                      \/ \E p \in candles[KeyOf(log[o])] : log[p] = log[o]
                      \/ TimeOf[log[o]] <= wm
                      \/ ~IsValid(log[o], plan["candles"].ts)
                      \/ o <= deleted]_vars
    <2> SUFFICES ASSUME NEW o \in Offset, start["candles"] # -1,
                        done["candles"] < o, o <= done'["candles"],
                        ~(TimeOf[log[o]] <= wm),
                        IsValid(log[o], plan["candles"].ts),
                        ~(o <= deleted)
                 PROVE  \E p \in candles[KeyOf(log[o])] : log[p] = log[o]
      OBVIOUS
    <2>1. done["candles"] \in Int /\ o \in Int /\ deleted \in Int /\ wm \in Int
      BY <1>1, BoundsAssumption DEF CandlesInv, Inv0, TypeOK, Query, Offset
    <2>2. CommitCandles
      <3>1. done'["candles"] # done["candles"]
        BY <2>1
      <3>2. QED
        BY <1>1, <3>1, DoneChanges DEF CandlesInv
    <2>3. pc["candles"] = "commit" /\ done'["candles"] = plan["candles"].to
      BY <1>1, <2>2 DEF CommitCandles, CandlesInv, Inv0, TypeOK, Query
    <2>4. o \in Valid("candles")
      <3>1. deleted < o
        BY <2>1
      <3>2. QED
        BY <2>3, <3>1 DEF Valid, Batch, Planned
    <2>5. TimeOf[log[o]] > wm
      <3>1. TimeOf[log[o]] \in Int
        BY <1>1, <2>4, BatchFacts, TimesAssumption DEF Valid, CandlesInv, Query
      <3>2. QED
        BY <2>1, <3>1
    <2>6. QED
      BY <1>1, <2>3, <2>4, <2>5, CommittedIsServed
  <1>2. QED
    BY <1>1, CandlesInvInvariant, PTL DEF Spec, DroppedForCause

-----------------------------------------------------------------------------
(***************************************************************************)
(* Until its commit the planned batch stays as it is, but for the record   *)
(* that Delete takes.                                                      *)
(***************************************************************************)
LEMMA BatchStays ==
    ASSUME Inv0, [Next]_vars, "candles" \in pending, ~CommitCandles
    PROVE  /\ TopicStep
           /\ "candles" \in pending'
           /\ done'["candles"] = done["candles"]
           /\ plan'["candles"] = plan["candles"]
           /\ UNCHANGED store
           /\ Delete \/ deleted' = deleted
  <1>1. ~ResolveStart("candles") /\ ~PlanBatch("candles")
    BY DEF Inv0, CheckpointOK, ResolveStart, PlanBatch, Query
  <1>2. CASE CandlesStep
    BY <1>1, <1>2 DEF CandlesStep, ReplayBatch, UpsertCandles, UpsertRejected,
                      InsertMetrics, TopicStep, checkpoint
  <1>3. CASE Alone /\ (Delete \/ deleted' = deleted)
    BY <1>3 DEF Alone
  <1>4. ASSUME NEW Q \in SUBSET Query, Interruption(Q)
        PROVE  UNCHANGED <<log, deleted, checkpoint, store>>
    BY <1>4 DEF Interruption
  <1>5. QED
    BY <1>2, <1>3, <1>4, StepKinds DEF TopicStep, checkpoint

(***************************************************************************)
(* A batch that Postgres accepts does not become one that it refuses.      *)
(***************************************************************************)
LEMMA AcceptedStays ==
    ASSUME Inv0, [Next]_vars, "candles" \in pending, ~CommitCandles, UpsertAccepted
    PROVE  UpsertAccepted'
  <1> SUFFICES ASSUME NEW o \in Accepted'
               PROVE  KeyOf(log'[o])[1] # NoSymbol
    BY DEF UpsertAccepted, Updated
  <1>1. o \in Fresh /\ log'[o] = log[o]
    BY BatchStays, FreshFrame DEF Accepted
  <1>2. PICK p \in Accepted : log[p] = log[o]
    BY <1>1, FirstIsAccepted
  <1>3. KeyOf(log[p]) \in Updated
    BY AcceptedFacts
  <1>4. QED
    BY <1>1, <1>2, <1>3 DEF UpsertAccepted

(***************************************************************************)
(* A batch that Postgres refuses is accepted after a step only if that     *)
(* step has taken the record it is refused for.                            *)
(***************************************************************************)
LEMMA RefusedStays ==
    ASSUME Inv0, [Next]_vars, "candles" \in pending, ~CommitCandles,
           ~UpsertAccepted, UpsertAccepted'
    PROVE  deleted' \in Accepted \ Accepted' /\ SymbolOf[log[deleted']] = NoSymbol
  <1>1. PICK o \in Accepted : KeyOf(log[o])[1] = NoSymbol
    BY DEF UpsertAccepted, Updated
  <1>2. SymbolOf[log[o]] = NoSymbol
    BY <1>1 DEF KeyOf
  <1>3. /\ o \in Fresh /\ Fresh' \subseteq Fresh
        /\ \A p \in Fresh : log'[p] = log[p]
        /\ deleted' = deleted => Fresh' = Fresh
    BY BatchStays, FreshFrame DEF Accepted
  <1>4. o \notin Accepted'
    <2>1. ASSUME o \in Accepted'
          PROVE  FALSE
      <3>1. KeyOf(log'[o]) \in Updated'
        BY <2>1 DEF Updated
      <3>2. KeyOf(log'[o])[1] # NoSymbol
        BY <3>1 DEF UpsertAccepted
      <3>3. QED
        BY <1>1, <1>3, <3>2
    <2>2. QED
      BY <2>1
  <1>5. o \notin Fresh'
    BY <1>3, <1>4 DEF Accepted
  <1>6. Planned("candles")' = Planned("candles")
    BY BatchStays DEF Planned
  <1>7. ~(deleted' < o)
    <2>1. /\ o \in Planned("candles") /\ IsValid(log[o], plan["candles"].ts)
          /\ TimeOf[log[o]] > wm /\ log[o] \notin seen
      BY <1>3 DEF Fresh, Valid, Batch
    <2>2. log'[o] = log[o] /\ plan'["candles"] = plan["candles"]
          /\ wm' = wm /\ seen' = seen
      BY <1>3, BatchStays DEF store
    <2>3. deleted' < o => o \in Valid("candles")'
      BY <1>6, <2>1, <2>2 DEF Valid, Batch
    <2>4. QED
      BY <1>5, <2>1, <2>2, <2>3 DEF Fresh
  <1>8. o \in Int /\ deleted \in Int /\ deleted < o
    BY <1>3, BoundsAssumption DEF Fresh, Valid, Batch, Planned, Offset, Inv0, TypeOK
  <1>9. deleted' = deleted + 1
    BY <1>3, <1>5, BatchStays DEF TopicStep
  <1>10. deleted' = o
    BY <1>7, <1>8, <1>9
  <1>11. QED
    BY <1>2, <1>4, <1>10

(***************************************************************************)
(* A batch is past its upsert only if Postgres has accepted it.            *)
(***************************************************************************)
PassedInv == pc["candles"] \in {"metrics", "commit"} => UpsertAccepted

LEMMA PassedNext == Inv0 /\ PassedInv /\ [Next]_vars => PassedInv'
  <1> SUFFICES ASSUME Inv0, PassedInv, [Next]_vars,
                      pc'["candles"] \in {"metrics", "commit"}
               PROVE  UpsertAccepted'
    BY DEF PassedInv
  <1> USE DEF Query
  <1>1. ~CommitCandles
    BY DEF CommitCandles, Inv0, TypeOK
  <1>2. UpsertCandles \/ pc["candles"] \in {"metrics", "commit"}
    <2>1. CASE CandlesStep
      BY <2>1 DEF CandlesStep, ResolveStart, PlanBatch, ReplayBatch, FirstStage,
                  UpsertRejected, InsertMetrics, CommitCandles, Inv0, TypeOK
    <2>2. CASE Alone
      BY <2>2 DEF Alone, BatchStage
    <2>3. ASSUME NEW Q \in SUBSET Query, Interruption(Q)
          PROVE  pc["candles"] \in {"metrics", "commit"}
      BY <2>3 DEF Interruption, BatchStage
    <2>4. QED
      BY <2>1, <2>2, <2>3, StepKinds
  <1>3. UpsertAccepted /\ "candles" \in pending
    BY <1>2 DEF UpsertCandles, PassedInv, Inv0, CheckpointOK, BatchStage
  <1>4. QED
    BY <1>1, <1>3, AcceptedStays

(* A batch that Postgres refuses stays planned and is refused with every   *)
(* restart and replay, later record and failure elsewhere, until the topic *)
(* loses the record it is refused for.                                     *)
THEOREM RefusedUntilDeleted == Spec => RefusedBatchStays
  <1>1. Init => PassedInv
    BY DEF Init, PassedInv, Query
  <1>2. ASSUME Inv0, PassedInv, [Next]_vars
        PROVE  [("candles" \in pending /\ ~UpsertAccepted) =>
                   /\ "candles" \in pending' /\ done'["candles"] = done["candles"]
                   /\ UpsertAccepted' =>
                          deleted' \in Accepted \ Accepted'
                          /\ SymbolOf[log[deleted']] = NoSymbol]_vars
    <2> SUFFICES ASSUME "candles" \in pending, ~UpsertAccepted
                 PROVE  /\ "candles" \in pending' /\ done'["candles"] = done["candles"]
                        /\ UpsertAccepted' =>
                               deleted' \in Accepted \ Accepted'
                               /\ SymbolOf[log[deleted']] = NoSymbol
      OBVIOUS
    <2>1. ~CommitCandles
      BY <1>2 DEF CommitCandles, PassedInv
    <2>2. QED
      BY <1>2, <2>1, BatchStays, RefusedStays
  <1>3. QED
    BY <1>1, <1>2, Inv0Init, Inv0Next, PassedNext, PTL DEF Spec, RefusedBatchStays

-----------------------------------------------------------------------------
(***************************************************************************)
(* The serving table changes by an upsert of the planned batch, and in no  *)
(* other way.                                                              *)
(***************************************************************************)
LEMMA TableChanges ==
    ASSUME Inv0, [Next]_vars, candles' # candles
    PROVE  /\ "candles" \in pending
           /\ candles' = Upserted
           /\ UNCHANGED <<log, deleted, checkpoint, store>>
  <1>1. CASE UpsertCandles
    BY <1>1 DEF UpsertCandles, Inv0, CheckpointOK, BatchStage, Query
  <1>2. CASE CandlesStep /\ ~UpsertCandles
    BY <1>2 DEF CandlesStep, ResolveStart, PlanBatch, ReplayBatch, UpsertRejected,
                InsertMetrics, CommitCandles, sinks
  <1>3. ASSUME NEW Q \in SUBSET Query, Interruption(Q)
        PROVE  /\ "candles" \in pending
               /\ candles' = Upserted
               /\ UNCHANGED <<log, deleted, checkpoint, store>>
    BY <1>3 DEF Interruption, InFlight, Interrupted, Inv0, CheckpointOK, BatchStage,
                Query
  <1>4. CASE Alone
    BY <1>4 DEF Alone
  <1>5. QED
    BY <1>1, <1>2, <1>3, <1>4, StepKinds

(* The candle of a minute the watermark has passed is final, whatever      *)
(* fails, is replayed or is lost by the topic.                             *)
THEOREM CandlesBecomeFinal == Spec => CandleFinalAfterWatermark
  <1>1. ASSUME Inv0, [Next]_vars
        PROVE  [\A k \in Key : EndOf(k) <= wm => candles'[k] = candles[k]]_vars
    <2> SUFFICES ASSUME NEW k \in Key, EndOf(k) <= wm, candles' # candles
                 PROVE  candles'[k] = candles[k]
      OBVIOUS
    <2>1. candles' = Upserted
      BY <1>1, TableChanges
    <2>2. k \notin Updated
      <3>1. EndOf(k) \in Int /\ wm \in Int
        BY <1>1, KeyFacts DEF Key, Inv0, TypeOK
      <3>2. QED
        BY <1>1, <3>1, UpdatedOpen
    <2>3. QED
      BY <2>1, <2>2 DEF Upserted
  <1>2. QED
    BY <1>1, Inv0Init, Inv0Next, PTL DEF Spec, CandleFinalAfterWatermark

-----------------------------------------------------------------------------
(***************************************************************************)
(* When no planned batch loses a record, the table and the state agree     *)
(* offset by offset.  A window has state only while it is open; an open    *)
(* window's candle has nothing that is not in the state or in the planned  *)
(* batch; after the upsert it has all of it.                               *)
(***************************************************************************)
MatchInv ==
    /\ \A k \in Key : open[k] \subseteq candles[k]
    /\ \A k \in Key : open[k] # {} => EndOf(k) > wm
    /\ \A k \in Key : EndOf(k) > wm =>
          /\ "candles" \notin pending => candles[k] \subseteq open[k]
          /\ "candles" \in pending => candles[k] \subseteq Aggregate(k)
    /\ pc["candles"] \in {"metrics", "commit"} =>
          \A k \in Key : Aggregate(k) \subseteq candles[k]

LEMMA UpsertGrows ==
    ASSUME Inv0, MatchInv, "candles" \in pending, NEW k \in Key
    PROVE  /\ candles[k] \subseteq Upserted[k]
           /\ Aggregate(k) \subseteq Upserted[k]
           /\ Upserted[k] \subseteq candles[k] \cup Aggregate(k)
  <1>1. open[k] \subseteq candles[k]
    BY DEF MatchInv
  <1>2. CASE k \in Updated
    <2>1. Upserted[k] = Aggregate(k)
      BY <1>2 DEF Upserted
    <2>2. candles[k] \subseteq Aggregate(k)
      BY <1>2, UpdatedOpen DEF MatchInv
    <2>3. QED
      BY <2>1, <2>2
  <1>3. CASE k \notin Updated
    <2>1. Upserted[k] = candles[k]
      BY <1>3 DEF Upserted
    <2>2. Contribution(k) = {}
      BY <1>3 DEF Contribution, Updated
    <2>3. QED
      BY <1>1, <2>1, <2>2 DEF Aggregate
  <1>4. QED
    BY <1>2, <1>3

LEMMA UpsertMatches ==
    ASSUME Inv0, MatchInv, "candles" \in pending,
           UNCHANGED <<log, deleted, checkpoint, store>>, candles' = Upserted
    PROVE  MatchInv'
  <1>1. \A k \in Key : Aggregate(k)' = Aggregate(k)
    BY AcceptedFrame DEF TopicStep, checkpoint
  <1>2. \A k \in Key : /\ open[k] \subseteq candles'[k]
                       /\ Aggregate(k) \subseteq candles'[k]
                       /\ EndOf(k) > wm => candles'[k] \subseteq Aggregate(k)
    BY UpsertGrows DEF MatchInv
  <1>3. "candles" \in pending' /\ UNCHANGED <<open, wm>>
    BY DEF checkpoint, store
  <1>4. QED
    BY <1>1, <1>2, <1>3 DEF MatchInv

LEMMA MatchFrame ==
    ASSUME Inv0, MatchInv, TopicStep,
           "candles" \in pending => deleted' = deleted \/ deleted' <= done["candles"],
           done'["candles"] = done["candles"],
           plan'["candles"] = plan["candles"],
           "candles" \in pending <=> "candles" \in pending',
           pc'["candles"] \in {"metrics", "commit"}
              => pc["candles"] \in {"metrics", "commit"},
           UNCHANGED <<store, candles>>
    PROVE  MatchInv'
  <1>1. "candles" \in pending => \A k \in Key : Aggregate(k)' = Aggregate(k)
    BY AcceptedFrame
  <1>2. pc["candles"] \in {"metrics", "commit"} => "candles" \in pending
    BY DEF Inv0, CheckpointOK, BatchStage, Query
  <1>3. QED
    BY <1>1, <1>2 DEF MatchInv, store

LEMMA MatchCommit ==
    ASSUME Inv0, CandleInv, MatchInv, CommitCandles
    PROVE  MatchInv'
  <1>1. wm \in Int /\ wm' \in Int /\ wm <= wm'
    BY CommitFacts DEF Inv0, TypeOK, CandleInv, StoreInv
  <1>2. \A k \in Key : EndOf(k) > wm' => EndOf(k) > wm /\ ~(EndOf(k) <= wm')
    BY <1>1, CommitFacts
  <1>3. \A k \in Key : Aggregate(k) \subseteq candles[k]
    BY CommitFacts DEF MatchInv
  <1>4. \A k \in Key : EndOf(k) > wm => candles[k] \subseteq Aggregate(k)
    BY CommitFacts DEF MatchInv
  <1>5. \A k \in Key : /\ open'[k] \subseteq candles'[k]
                       /\ EndOf(k) > wm' => candles'[k] \subseteq open'[k]
    BY <1>2, <1>3, <1>4, CommitFacts
  <1>6. \A k \in Key : open'[k] # {} => EndOf(k) > wm'
    BY <1>1, CommitFacts
  <1>7. QED
    BY <1>5, <1>6, CommitFacts DEF MatchInv

LEMMA MatchInit == Init => MatchInv
  BY DEF Init, MatchInv, Query

LEMMA MatchNext == KeepsPlanned /\ CandlesInv /\ MatchInv /\ [Next]_vars => MatchInv'
  <1> SUFFICES ASSUME KeepsPlanned, Inv0, CandleInv, MatchInv, [Next]_vars
               PROVE  MatchInv'
    BY DEF CandlesInv
  <1> USE DEF Query
  <1>1. CASE CandlesStep
    <2>1. CASE ResolveStart("candles") \/ PlanBatch("candles")
      <3>1. /\ "candles" \notin pending /\ UNCHANGED <<store, candles>>
            /\ pc'["candles"] \notin {"metrics", "commit"}
        BY <2>1 DEF ResolveStart, PlanBatch, FirstStage, Inv0, TypeOK, CheckpointOK, sinks
      <3>2. \A k \in Key : open[k] \subseteq Aggregate(k)'
        BY <3>1 DEF Aggregate, store
      <3>3. QED
        BY <3>1, <3>2 DEF MatchInv, store
    <2>2. CASE ReplayBatch("candles") \/ UpsertRejected \/ InsertMetrics("candles")
      <3>1. /\ UNCHANGED <<log, deleted, checkpoint, store, candles>>
            /\ pc'["candles"] \in {"metrics", "commit"}
                  => pc["candles"] \in {"metrics", "commit"}
        BY <2>2 DEF ReplayBatch, UpsertRejected, InsertMetrics, FirstStage, Inv0,
                    TypeOK, sinks
      <3>2. QED
        BY <3>1, MatchFrame DEF TopicStep, checkpoint
    <2>3. CASE UpsertCandles
      BY <2>3, UpsertMatches DEF UpsertCandles, Inv0, CheckpointOK, BatchStage
    <2>4. CASE CommitCandles
      BY <2>4, MatchCommit
    <2>5. QED
      BY <1>1, <2>1, <2>2, <2>3, <2>4 DEF CandlesStep
  <1>2. CASE Alone /\ (Delete \/ deleted' = deleted)
    <2>1. "candles" \in pending => deleted' = deleted \/ deleted' <= done["candles"]
      <3>1. deleted \in Int /\ done["candles"] \in Int
        BY BoundsAssumption DEF Inv0, TypeOK
      <3>2. QED
        BY <1>2, <3>1 DEF Delete
    <2>2. QED
      BY <1>2, <2>1, MatchFrame DEF Alone, BatchStage
  <1>3. ASSUME NEW Q \in SUBSET Query, Interruption(Q)
        PROVE  MatchInv'
    <2>1. CASE UNCHANGED candles
      BY <1>3, <2>1, MatchFrame DEF Interruption, TopicStep, BatchStage, checkpoint
    <2>2. CASE ~UNCHANGED candles
      BY <2>2, TableChanges, UpsertMatches
    <2>3. QED
      BY <2>1, <2>2
  <1>4. QED
    BY <1>1, <1>2, <1>3, StepKinds

KeptInv == CandlesInv /\ MatchInv

LEMMA KeptInvInvariant ==
    ASSUME KeepsPlanned
    PROVE  Spec => []KeptInv
  <1>1. Init => MatchInv
    BY MatchInit
  <1>2. CandlesInv /\ MatchInv /\ [Next]_vars => MatchInv'
    BY MatchNext
  <1>3. QED
    BY <1>1, <1>2, CandlesInvInvariant, PTL DEF Spec, KeptInv

(* Between batches, the candle of every window that is still open is what  *)
(* the aggregation state says, if the topic keeps what is planned.         *)
THEOREM TableMatchesState ==
    ASSUME KeepsPlanned
    PROVE  Spec => []CandlesMatchState
  <1>1. KeptInv => CandlesMatchState
    BY DEF KeptInv, MatchInv, CandlesMatchState
  <1>2. QED
    BY <1>1, KeptInvInvariant, PTL

LEMMA TableGrows ==
    ASSUME KeptInv, [Next]_vars, NEW k \in Key
    PROVE  candles[k] \subseteq candles'[k]
  BY TableChanges, UpsertGrows DEF KeptInv, CandlesInv

(* Replaying an upsert never takes a trade out of a candle, if the topic   *)
(* keeps what is planned.                                                  *)
THEOREM CandlesNeverShrink ==
    ASSUME KeepsPlanned
    PROVE  Spec => CandleNeverShrinks
  <1>1. KeptInv /\ [Next]_vars => [\A k \in Key : candles[k] \subseteq candles'[k]]_vars
    BY TableGrows
  <1>2. QED
    BY <1>1, KeptInvInvariant, PTL DEF Spec, CandleNeverShrinks

-----------------------------------------------------------------------------
(***************************************************************************)
(* The refinement: an upsert is Table!Add, every other step Table!Close,   *)
(* of the windows the watermark passes, if any.                            *)
(***************************************************************************)
TradesOf(k) == {<<o, log[o]>> : o \in candles[k]}
TradeTable  == [k \in Key |-> TradesOf(k)]

TradesOK ==
    /\ TradeTable \in [Key -> SUBSET (Offset \X Event)]
    /\ \A k \in Key : \A t \in TradesOf(k) : KeyOf(t[2]) = k
    /\ \A k, l \in Key : \A s \in TradesOf(k), t \in TradesOf(l) :
          s[2] = t[2] => s = t

LEMMA TradesFacts == CandlesInv => TradesOK
  <1> SUFFICES ASSUME CandlesInv
               PROVE  TradesOK
    OBVIOUS
  <1>1. \A k \in Key : \A o \in candles[k] :
           o \in Offset /\ log[o] \in Event /\ KeyOf(log[o]) = k
    <2>1. \A k \in Key : \A o \in candles[k] :
             o \in Offset /\ o <= Len(log) /\ KeyOf(log[o]) = k
      BY DEF CandlesInv, CandleInv, ServedInv, CandlesOfTheirWindow, Inv0, TypeOK
    <2>2. log \in Seq(Event)
      BY DEF CandlesInv, Inv0, TypeOK
    <2>3. QED
      BY <2>1, <2>2, BoundsAssumption DEF Offset
  <1>2. \A k \in Key : TradesOf(k) \in SUBSET (Offset \X Event)
    BY <1>1 DEF TradesOf
  <1>3. \A k \in Key : \A t \in TradesOf(k) : KeyOf(t[2]) = k
    BY <1>1 DEF TradesOf
  <1>4. \A k, l \in Key : \A s \in TradesOf(k), t \in TradesOf(l) :
           s[2] = t[2] => s = t
    BY DEF TradesOf, CandlesInv, CandleInv, ServedInv, NoTradeCountedTwice
  <1>5. QED
    BY <1>2, <1>3, <1>4 DEF TradesOK, TradeTable

LEMMA TableInit == Init => Table!Init
  BY DEF Init, Table!Init

(***************************************************************************)
(* Every step leaves the records in the candles as they are and moves the  *)
(* watermark forward only.                                                 *)
(***************************************************************************)
LEMMA StepFacts ==
    ASSUME CandlesInv, [Next]_vars
    PROVE  TopicStep /\ wm <= wm'
  <1>1. wm \in Int /\ wm <= wmNext
    BY DEF CandlesInv, CandleInv, StoreInv, Inv0, TypeOK
  <1>2. TopicStep /\ (wm' = wm \/ wm' = wmNext)
    <2>1. CASE CandlesStep
      BY <2>1 DEF CandlesStep, ResolveStart, PlanBatch, ReplayBatch, UpsertCandles,
                  UpsertRejected, InsertMetrics, CommitCandles, TopicStep, store
    <2>2. CASE Alone
      BY <2>2 DEF Alone, store
    <2>3. ASSUME NEW Q \in SUBSET Query, Interruption(Q)
          PROVE  TopicStep /\ wm' = wm
      BY <2>3 DEF Interruption, TopicStep, store
    <2>4. QED
      BY <2>1, <2>2, <2>3, StepKinds DEF CandlesInv
  <1>3. QED
    BY <1>1, <1>2

LEMMA TableNext ==
    ASSUME KeptInv, TradesOK', [Next]_vars
    PROVE  Table!Next
  <1>1. \A k \in Key : \A o \in candles[k] : o \in Offset /\ o <= Len(log)
    BY DEF KeptInv, CandlesInv, CandleInv, ServedInv, CandlesOfTheirWindow, Inv0, TypeOK
  <1>2. \A k \in Key : \A o \in candles[k] : log'[o] = log[o]
    BY <1>1, StepFacts, LogFrame DEF KeptInv, CandlesInv
  <1>3. \A k \in Key : EndOf(k) \in Int
    BY KeyFacts DEF Key
  <1>4. wm \in Int
    BY DEF KeptInv, CandlesInv, Inv0, TypeOK
  <1>5. CASE candles' # candles
    <2>1. /\ wm' = wm /\ candles' = Upserted
          /\ \A k \in Updated : EndOf(k) > wm
      BY <1>5, TableChanges, UpdatedOpen DEF KeptInv, CandlesInv, store
    <2>2. \A k \in Key : EndOf(k) <= wm => candles'[k] = candles[k]
      <3>1. \A k \in Key : EndOf(k) <= wm => k \notin Updated
        BY <1>3, <1>4, <2>1
      <3>2. QED
        BY <2>1, <3>1 DEF Upserted
    <2>3. \A k \in Key : /\ TradesOf(k) \subseteq TradesOf(k)'
                         /\ EndOf(k) <= wm => TradesOf(k)' = TradesOf(k)
      BY <1>2, <2>2, TableGrows DEF TradesOf
    <2>4. Table!Add
      BY <2>1, <2>3
         DEF Table!Add, Table!EachEventOnce, Table!Recorded, TradesOK, TradeTable,
             TradesOf, EventOfTrade, KeyOfTrade
    <2>5. QED
      BY <2>4 DEF Table!Next
  <1>6. CASE candles' = candles
    <2>1. wm' \in Int /\ wm <= wm'
      BY <1>4, StepFacts, Inv0Next DEF KeptInv, CandlesInv, Inv0, TypeOK
    <2>2. \A k \in Key : TradesOf(k)' = TradesOf(k)
      BY <1>2, <1>6 DEF TradesOf
    <2>3. Table!Close
      BY <1>3, <1>4, <2>1, <2>2 DEF Table!Close, TradesOf
    <2>4. QED
      BY <2>3 DEF Table!Next
  <1>7. QED
    BY <1>5, <1>6

(* With all its checkpoints, replays and crashes, the job does to          *)
(* analytics.candles_1m what CandleTable says: every trade once, in its    *)
(* own candle, never lost, closed candles final, if the topic keeps what   *)
(* is planned.                                                             *)
THEOREM JobImplementsCandleTable ==
    ASSUME KeepsPlanned
    PROVE  Spec => ImplementsCandleTable
  <1>1. KeptInv /\ TradesOK' /\ [Next]_vars => [Table!Next]_(Table!vars)
    BY TableNext
  <1>2. KeptInv => TradesOK
    BY TradesFacts DEF KeptInv
  <1>3. QED
    BY <1>1, <1>2, TableInit, KeptInvInvariant, PTL
       DEF Spec, ImplementsCandleTable, Table!Spec
=============================================================================
