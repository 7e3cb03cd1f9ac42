------------------------ MODULE StreamContractProofs ------------------------
(***************************************************************************)
(* StreamJob!IsValid stands for the verdict of validate_and_enrich, which  *)
(* module Validation follows check by check.  That it may, and what then   *)
(* is known of the trades in a candle, is proved here.                     *)
(***************************************************************************)
EXTENDS StreamCandlesProofs

(***************************************************************************)
(* Of Validation the two contracts matter here, not the record that its    *)
(* behaviours follow: the variables get values.                            *)
(***************************************************************************)
Contract == INSTANCE ValidationProofs WITH
    Times <- Int, Start <- 0,
    record <- 0, producer <- "none", stream <- "none"

Verdict(r, ts) == Contract!ValidateAndEnrich(r, ts)
OK == Contract!Accepted

(***************************************************************************)
(* Records of the events: a malformed event is one whose record is         *)
(* rejected whatever the time is.                                          *)
(***************************************************************************)
Records(RecordOf) ==
    /\ RecordOf \in [Event -> Contract!Record]
    /\ \A e \in Event : RecordOf[e].time = TimeOf[e]
    /\ Malformed = {e \in Event : \A ts \in Int : Verdict(RecordOf[e], ts) # OK}

LEMMA VerdictFacts ==
    ASSUME NEW r \in Contract!Record, NEW ts \in Int
    PROVE  Verdict(r, ts) = OK <=> Contract!StreamAccepts(r, ts)
  BY Contract!StreamAcceptsExactly, TimesAssumption, BoundsAssumption
     DEF Verdict, OK

LEMMA NowIsClock ==
    ASSUME NEW ts \in Int
    PROVE  /\ NowMs(ts) = Contract!StreamClock(ts) /\ NowMs(ts) \in Int
           /\ MaxSkew \in Nat /\ LateAfter \in Nat
  BY TimesAssumption, Z3 DEF NowMs, Contract!StreamClock

(* IsValid at the timestamp of a batch is is_valid of validate_and_enrich  *)
(* with that current_timestamp, whatever the records of the events are.    *)
THEOREM IsValidIsContract ==
    ASSUME NEW RecordOf, Records(RecordOf), NEW e \in Event, NEW ts \in Int
    PROVE  IsValid(e, ts) <=> Verdict(RecordOf[e], ts) = OK
  <1>1. /\ RecordOf[e] \in Contract!Record
        /\ RecordOf[e].time = TimeOf[e] /\ TimeOf[e] \in Int
        /\ e \in Malformed <=> \A t \in Int : Verdict(RecordOf[e], t) # OK
    BY TimesAssumption DEF Records
  <1>2. \A t \in Int : Verdict(RecordOf[e], t) = OK
                          <=> Contract!StreamAccepts(RecordOf[e], t)
    BY <1>1, VerdictFacts
  <1>3. ASSUME IsValid(e, ts)
        PROVE  Verdict(RecordOf[e], ts) = OK
    <2>1. PICK t \in Int : Contract!StreamAccepts(RecordOf[e], t)
      BY <1>1, <1>2, <1>3 DEF IsValid
    <2>2. /\ ~Contract!OutsideSkew(RecordOf[e].time, Contract!StreamClock(ts))
          /\ ~Contract!Late(RecordOf[e].time, Contract!StreamClock(ts))
      BY <1>1, <1>3, NowIsClock DEF IsValid, IsLate, Contract!OutsideSkew, Contract!Late
    <2>3. Contract!StreamAccepts(RecordOf[e], ts)
      BY <2>1, <2>2 DEF Contract!StreamAccepts
    <2>4. QED
      BY <1>2, <2>3
  <1>4. ASSUME Verdict(RecordOf[e], ts) = OK
        PROVE  IsValid(e, ts)
    <2>1. e \notin Malformed
      BY <1>1, <1>4
    <2>2. /\ ~Contract!OutsideSkew(RecordOf[e].time, Contract!StreamClock(ts))
          /\ ~Contract!Late(RecordOf[e].time, Contract!StreamClock(ts))
      BY <1>2, <1>4 DEF Contract!StreamAccepts
    <2>3. QED
      BY <1>1, <2>1, <2>2, NowIsClock
         DEF IsValid, IsLate, Contract!OutsideSkew, Contract!Late
  <1>5. QED
    BY <1>3, <1>4

-----------------------------------------------------------------------------
(***************************************************************************)
(* No malformed event is in a candle.                                      *)
(***************************************************************************)
WellFormedInv == \A k \in Key : \A o \in candles[k] : log[o] \in Event \ Malformed

LEMMA WellFormedNext == CandlesInv /\ WellFormedInv /\ [Next]_vars => WellFormedInv'
  <1> SUFFICES ASSUME CandlesInv, WellFormedInv, [Next]_vars,
                      NEW k \in Key, NEW o \in candles'[k]
               PROVE  log'[o] \in Event \ Malformed
    BY DEF WellFormedInv
  <1>1. CASE candles' = candles
    <2>1. o \in Offset /\ o <= Len(log)
      BY <1>1 DEF CandlesInv, Inv0, TypeOK, CandleInv, ServedInv, CandlesOfTheirWindow
    <2>2. log'[o] = log[o]
      BY <2>1, StepFacts, LogFrame DEF CandlesInv
    <2>3. QED
      BY <1>1, <2>2 DEF WellFormedInv
  <1>2. CASE candles' # candles
    <2>1. candles' = Upserted /\ log' = log
      BY <1>2, TableChanges DEF CandlesInv
    <2>2. o \in candles[k] \/ o \in open[k] \/ o \in Contribution(k)
      BY <2>1 DEF Upserted, Aggregate
    <2>3. ASSUME o \in Contribution(k)
          PROVE  log[o] \in Event \ Malformed
      <3>1. o \in Accepted
        BY <2>3 DEF Contribution
      <3>2. log[o] \in Event
        BY <3>1, AcceptedFacts DEF CandlesInv
      <3>3. IsValid(log[o], plan["candles"].ts)
        BY <3>1 DEF Accepted, Fresh, Valid
      <3>4. QED
        BY <3>2, <3>3 DEF IsValid
    <2>4. ASSUME o \in open[k]
          PROVE  log[o] \in Event \ Malformed
      <3>1. log[o] \in seen /\ KeyOf(log[o]) = k
        BY <2>4 DEF CandlesInv, CandleInv, StoreInv
      <3>2. \E p \in candles[k] : log[p] = log[o]
        BY <3>1 DEF CandlesInv, CandleInv, ServedInv, RememberedTradeInCandle
      <3>3. QED
        BY <3>2 DEF WellFormedInv
    <2>5. QED
      BY <2>1, <2>2, <2>3, <2>4 DEF WellFormedInv
  <1>3. QED
    BY <1>1, <1>2

(* From the topic to the serving table: a trade in a candle has a price    *)
(* that is a positive DECIMAL(20,8), a quantity that is a DECIMAL(38,12)   *)
(* and not negative, and a trade time, whoever published its record and    *)
(* however often its batch was run.                                        *)
THEOREM CandleFiguresDefined ==
    ASSUME NEW RecordOf, Records(RecordOf)
    PROVE  Spec => [](\A k \in Key : \A o \in candles[k] :
                         /\ Contract!PriceCast(RecordOf[log[o]].price) = "+"
                         /\ Contract!QuantityCast(RecordOf[log[o]].quantity) \in {"0", "+"}
                         /\ RecordOf[log[o]].timed)
  <1>1. Init => WellFormedInv
    BY DEF Init, WellFormedInv
  <1>2. ASSUME NEW e \in Event \ Malformed
        PROVE  /\ Contract!PriceCast(RecordOf[e].price) = "+"
               /\ Contract!QuantityCast(RecordOf[e].quantity) \in {"0", "+"}
               /\ RecordOf[e].timed
    <2>1. RecordOf[e] \in Contract!Record
      BY DEF Records
    <2>2. PICK t \in Int : Verdict(RecordOf[e], t) = OK
      BY DEF Records
    <2>3. Contract!StreamAccepts(RecordOf[e], t)
      BY <2>1, <2>2, VerdictFacts
    <2>4. RecordOf[e].price \in Contract!Numeral /\ RecordOf[e].quantity \in Contract!Numeral
      BY <2>1 DEF Contract!Record
    <2>5. QED
      BY <2>3, <2>4, Contract!CastFacts, TimesAssumption, BoundsAssumption
         DEF Contract!StreamAccepts, Contract!Counted
  <1>3. WellFormedInv =>
            \A k \in Key : \A o \in candles[k] :
                /\ Contract!PriceCast(RecordOf[log[o]].price) = "+"
                /\ Contract!QuantityCast(RecordOf[log[o]].quantity) \in {"0", "+"}
                /\ RecordOf[log[o]].timed
    BY <1>2 DEF WellFormedInv
  <1>4. QED
    BY <1>1, <1>3, WellFormedNext, CandlesInvInvariant, PTL DEF Spec
=============================================================================
