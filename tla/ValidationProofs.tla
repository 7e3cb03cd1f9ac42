-------------------------- MODULE ValidationProofs --------------------------
(***************************************************************************)
(* What the two statements of the validation contract say of every record, *)
(* for any skew, lateness, trade time and clock.                           *)
(***************************************************************************)
EXTENDS Validation, WellFoundedInduction, TLAPS

-----------------------------------------------------------------------------
(***************************************************************************)
(* The first check that fails gives the verdict.                           *)
(***************************************************************************)
LEMMA MinFacts ==
    ASSUME NEW P \in SUBSET Nat, P # {}
    PROVE  Min(P) \in P /\ \A j \in P : Min(P) <= j
  <1>1. PICK k \in P : \A j \in P : <<j, k>> \notin OpToRel(<, Nat)
    BY WFMin, NatLessThanWellFounded, Zenon
  <1>2. \A j \in P : ~(j < k)
    BY <1>1 DEF OpToRel
  <1>3. \A j \in P : k <= j
    BY <1>2
  <1>4. QED
    BY <1>3 DEF Min

LEMMA FirstFailureFacts ==
    ASSUME NEW checks, NEW n \in Nat, DOMAIN checks = 1..n
    PROVE  \/ /\ \A i \in 1..n : ~checks[i].fails
              /\ FirstFailure(checks) = Accepted
           \/ \E i \in 1..n :
                  /\ checks[i].fails
                  /\ \A j \in 1..n : j < i => ~checks[j].fails
                  /\ FirstFailure(checks) = checks[i].code
  <1> DEFINE failing == {i \in DOMAIN checks : checks[i].fails}
  <1>1. CASE failing = {}
    <2>1. FirstFailure(checks) = Accepted
      BY <1>1 DEF FirstFailure
    <2>2. QED
      BY <1>1, <2>1
  <1>2. CASE failing # {}
    <2>1. FirstFailure(checks) = checks[Min(failing)].code
      BY <1>2 DEF FirstFailure
    <2>2. Min(failing) \in failing /\ \A j \in failing : Min(failing) <= j
      BY <1>2, MinFacts
    <2>3. ASSUME NEW j \in 1..n, j < Min(failing)
          PROVE  ~checks[j].fails
      <3>1. Min(failing) \in Nat /\ ~(Min(failing) <= j)
        BY <2>2, <2>3
      <3>2. j \notin failing
        BY <2>2, <3>1
      <3>3. QED
        BY <3>2
    <2>4. QED
      BY <2>1, <2>2, <2>3
  <1>3. QED
    BY <1>1, <1>2

(***************************************************************************)
(* The two lists of checks, by position.                                   *)
(***************************************************************************)
LEMMA ElevenChecks ==
    ASSUME NEW a1, NEW a2, NEW a3, NEW a4, NEW a5, NEW a6, NEW a7, NEW a8,
           NEW a9, NEW a10, NEW a11,
           Accepted \notin {a1.code, a2.code, a3.code, a4.code, a5.code, a6.code,
                            a7.code, a8.code, a9.code, a10.code, a11.code}
    PROVE  FirstFailure(<<a1, a2, a3, a4, a5, a6, a7, a8, a9, a10, a11>>) = Accepted
           <=> /\ ~a1.fails /\ ~a2.fails /\ ~a3.fails /\ ~a4.fails /\ ~a5.fails
               /\ ~a6.fails /\ ~a7.fails /\ ~a8.fails /\ ~a9.fails /\ ~a10.fails
               /\ ~a11.fails
  <1>1. PICK c : c = <<a1, a2, a3, a4, a5, a6, a7, a8, a9, a10, a11>>
    OBVIOUS
  <1>2. /\ DOMAIN c = 1..11
        /\ c[1] = a1 /\ c[2] = a2 /\ c[3] = a3 /\ c[4] = a4 /\ c[5] = a5
        /\ c[6] = a6 /\ c[7] = a7 /\ c[8] = a8 /\ c[9] = a9 /\ c[10] = a10
        /\ c[11] = a11
    BY <1>1
  <1>3. \A i \in 1..11 :
            c[i] \in {a1, a2, a3, a4, a5, a6, a7, a8, a9, a10, a11}
    BY <1>2
  <1>4. \A i \in 1..11 : c[i].code # Accepted
    <2>1. \A x \in {a1, a2, a3, a4, a5, a6, a7, a8, a9, a10, a11} : x.code # Accepted
      OBVIOUS
    <2>2. QED
      BY <1>3, <2>1, Zenon
  <1>5. FirstFailure(c) = Accepted <=> \A i \in 1..11 : ~c[i].fails
    <2>1. DOMAIN c = 1..11 /\ 11 \in Nat
      BY <1>2
    <2>2. \/ (\A i \in 1..11 : ~c[i].fails) /\ FirstFailure(c) = Accepted
          \/ \E i \in 1..11 : c[i].fails /\ FirstFailure(c) = c[i].code
      BY <2>1, FirstFailureFacts
    <2>3. QED
      BY <1>4, <2>2, Zenon
  <1>6. (\A i \in 1..11 : ~c[i].fails) =>
            /\ ~a1.fails /\ ~a2.fails /\ ~a3.fails /\ ~a4.fails /\ ~a5.fails
            /\ ~a6.fails /\ ~a7.fails /\ ~a8.fails /\ ~a9.fails /\ ~a10.fails
            /\ ~a11.fails
    BY <1>2
  <1>7. QED
    BY <1>1, <1>3, <1>5, <1>6

LEMMA SevenChecks ==
    ASSUME NEW a1, NEW a2, NEW a3, NEW a4, NEW a5, NEW a6, NEW a7,
           NEW v, v = FirstFailure(<<a1, a2, a3, a4, a5, a6, a7>>)
    PROVE  \/ /\ ~a1.fails /\ ~a2.fails /\ ~a3.fails /\ ~a4.fails /\ ~a5.fails
              /\ ~a6.fails /\ ~a7.fails
              /\ v = Accepted
           \/ a1.fails /\ v = a1.code
           \/ a2.fails /\ ~a1.fails /\ v = a2.code
           \/ a3.fails /\ v = a3.code
           \/ a4.fails /\ ~a3.fails /\ v = a4.code
           \/ a5.fails /\ v = a5.code
           \/ a6.fails /\ v = a6.code
           \/ a7.fails /\ v = a7.code
  <1>1. PICK c : c = <<a1, a2, a3, a4, a5, a6, a7>>
    OBVIOUS
  <1>2. /\ DOMAIN c = 1..7
        /\ c[1] = a1 /\ c[2] = a2 /\ c[3] = a3 /\ c[4] = a4 /\ c[5] = a5
        /\ c[6] = a6 /\ c[7] = a7
    BY <1>1
  <1>3. CASE (\A i \in 1..7 : ~c[i].fails) /\ v = Accepted
    BY <1>2, <1>3
  <1>4. ASSUME NEW i \in 1..7, c[i].fails, v = c[i].code,
               \A j \in 1..7 : j < i => ~c[j].fails
        PROVE  \/ a1.fails /\ v = a1.code
               \/ a2.fails /\ ~a1.fails /\ v = a2.code
               \/ a3.fails /\ v = a3.code
               \/ a4.fails /\ ~a3.fails /\ v = a4.code
               \/ a5.fails /\ v = a5.code
               \/ a6.fails /\ v = a6.code
               \/ a7.fails /\ v = a7.code
    <2>1. i = 1 \/ i = 2 \/ i = 3 \/ i = 4 \/ i = 5 \/ i = 6 \/ i = 7
      OBVIOUS
    <2>2. (i = 2 => ~c[1].fails) /\ (i = 4 => ~c[3].fails)
      BY <1>4
    <2>3. QED
      BY <1>2, <1>4, <2>1, <2>2
  <1>5. \/ (\A i \in 1..7 : ~c[i].fails) /\ v = Accepted
        \/ \E i \in 1..7 : /\ c[i].fails
                           /\ \A j \in 1..7 : j < i => ~c[j].fails
                           /\ v = c[i].code
    <2>1. v = FirstFailure(c)
      BY <1>1
    <2>2. \/ (\A i \in 1..7 : ~c[i].fails) /\ FirstFailure(c) = Accepted
          \/ \E i \in 1..7 : /\ c[i].fails
                             /\ \A j \in 1..7 : j < i => ~c[j].fails
                             /\ FirstFailure(c) = c[i].code
      BY <1>2, FirstFailureFacts
    <2>3. QED
      BY <2>1, <2>2, Zenon
  <1>6. QED
    BY <1>3, <1>4, <1>5

LEMMA CheckFacts ==
    ASSUME NEW code, NEW P \in BOOLEAN
    PROVE  Check(code, P).code = code /\ (Check(code, P).fails <=> P)
  BY DEF Check

-----------------------------------------------------------------------------
(***************************************************************************)
(* validate_trade accepts exactly the records that are complete and as the *)
(* schema wants them, of an allowed symbol, recent, and whose price is     *)
(* positive and quantity not negative.                                     *)
(***************************************************************************)
Incomplete(r) == "null" \in {r.price, r.quantity, r.symbol} \/ ~r.timed \/ ~r.conforms

LEMMA TradeVerdict ==
    ASSUME NEW r \in Record, NEW at \in Int
    PROVE  ValidateTrade(r, at) = Accepted <=>
               /\ ~Incomplete(r)
               /\ r.price \notin {"blank", "text", "nan", "zero"} \cup Negative
               /\ r.quantity \notin {"blank", "text", "nan"} \cup Negative
               /\ r.symbol = "allowed"
               /\ ~OutsideSkew(r.time, at)
  <1>1. PICK a1 : a1 = Check("SCHEMA_VALIDATION_FAILED", Incomplete(r))
    OBVIOUS
  <1>2. PICK a2 : a2 = Check("NULL_PRICE", r.price = "blank")
    OBVIOUS
  <1>3. PICK a3 : a3 = Check("INVALID_PRICE", r.price = "text")
    OBVIOUS
  <1>4. PICK a4 : a4 = Check(Raises, r.price = "nan")
    OBVIOUS
  <1>5. PICK a5 : a5 = Check("INVALID_PRICE", r.price \in Negative \cup {"zero"})
    OBVIOUS
  <1>6. PICK a6 : a6 = Check("NULL_QUANTITY", r.quantity = "blank")
    OBVIOUS
  <1>7. PICK a7 : a7 = Check("NEGATIVE_QUANTITY", r.quantity = "text")
    OBVIOUS
  <1>8. PICK a8 : a8 = Check(Raises, r.quantity = "nan")
    OBVIOUS
  <1>9. PICK a9 : a9 = Check("NEGATIVE_QUANTITY", r.quantity \in Negative)
    OBVIOUS
  <1>10. PICK a10 : a10 = Check("INVALID_SYMBOL", r.symbol # "allowed")
    OBVIOUS
  <1>11. PICK a11 : a11 = Check("INVALID_TIMESTAMP", OutsideSkew(r.time, at))
    OBVIOUS
  <1>12. Accepted \notin {a1.code, a2.code, a3.code, a4.code, a5.code, a6.code,
                          a7.code, a8.code, a9.code, a10.code, a11.code}
    <2>1. /\ a1.code = "SCHEMA_VALIDATION_FAILED" /\ a2.code = "NULL_PRICE"
          /\ a3.code = "INVALID_PRICE" /\ a4.code = Raises /\ a5.code = "INVALID_PRICE"
          /\ a6.code = "NULL_QUANTITY" /\ a7.code = "NEGATIVE_QUANTITY"
      BY <1>1, <1>2, <1>3, <1>4, <1>5, <1>6, <1>7 DEF Check
    <2>2. /\ a8.code = Raises /\ a9.code = "NEGATIVE_QUANTITY"
          /\ a10.code = "INVALID_SYMBOL" /\ a11.code = "INVALID_TIMESTAMP"
      BY <1>8, <1>9, <1>10, <1>11 DEF Check
    <2>3. /\ Accepted # a1.code /\ Accepted # a2.code /\ Accepted # a3.code
          /\ Accepted # a4.code /\ Accepted # a5.code /\ Accepted # a6.code
          /\ Accepted # a7.code
      BY <2>1 DEF Accepted, Raises
    <2>4. /\ Accepted # a8.code /\ Accepted # a9.code /\ Accepted # a10.code
          /\ Accepted # a11.code
      BY <2>2 DEF Accepted, Raises
    <2>5. QED
      BY <2>3, <2>4, Zenon
  <1>13. ValidateTrade(r, at)
           = FirstFailure(<<a1, a2, a3, a4, a5, a6, a7, a8, a9, a10, a11>>)
    BY <1>1, <1>2, <1>3, <1>4, <1>5, <1>6, <1>7, <1>8, <1>9, <1>10, <1>11, ZenonT(40)
       DEF ValidateTrade, Incomplete
  <1>14. /\ a1.fails <=> Incomplete(r)
         /\ a2.fails <=> r.price = "blank"
         /\ a3.fails <=> r.price = "text"
         /\ a4.fails <=> r.price = "nan"
         /\ a5.fails <=> r.price \in Negative \cup {"zero"}
         /\ a6.fails <=> r.quantity = "blank"
         /\ a7.fails <=> r.quantity = "text"
         /\ a8.fails <=> r.quantity = "nan"
         /\ a9.fails <=> r.quantity \in Negative
         /\ a10.fails <=> r.symbol # "allowed"
         /\ a11.fails <=> OutsideSkew(r.time, at)
    BY <1>1, <1>2, <1>3, <1>4, <1>5, <1>6, <1>7, <1>8, <1>9, <1>10, <1>11
       DEF Check, OutsideSkew, Incomplete
  <1>15. QED
    BY <1>12, <1>13, <1>14, ElevenChecks

-----------------------------------------------------------------------------
(***************************************************************************)
(* validate_and_enrich: when each condition of its CASE is true.           *)
(***************************************************************************)
LEMMA CastFacts ==
    ASSUME NEW n \in Numeral
    PROVE  /\ PriceCast(n) = "+" <=> n = "plain"
           /\ PriceCast(n) = "0" <=> n \in {"zero", "dust", "fine", "-dust", "-fine"}
           /\ PriceCast(n) = "-" <=> n = "-plain"
           /\ PriceCast(n) = "NULL" <=>
                 n \in {"null", "blank", "text", "nan", "vast", "unfit", "-vast", "-unfit"}
           /\ QuantityCast(n) = "+" <=> n \in {"fine", "plain", "vast"}
           /\ QuantityCast(n) = "0" <=> n \in {"zero", "dust", "-dust"}
           /\ QuantityCast(n) = "-" <=> n \in {"-fine", "-plain", "-vast"}
           /\ QuantityCast(n) = "NULL" <=>
                 n \in {"null", "blank", "text", "nan", "unfit", "-unfit"}
  BY DEF Numeral, Positive, Negative, PriceCast, QuantityCast, Cast

LEMMA PriceCondition ==
    ASSUME NEW n \in Numeral
    PROVE  SQLOr(CastFails(n, PriceCast(n)), SignIn(PriceCast(n), {"-", "0"})) = "true"
           <=> ~Missing(n) /\ n # "plain"
  BY CastFacts DEF Numeral, Positive, Negative, Missing, CastFails, SignIn, SQL, SQLNot,
                   SQLOr, SQLAnd

\* The quantities that are not negative once they are cast.
Counted == {"zero", "dust", "-dust", "fine", "plain", "vast"}

LEMMA QuantityCondition ==
    ASSUME NEW n \in Numeral
    PROVE  SQLOr(CastFails(n, QuantityCast(n)), NegativeQuantity(QuantityCast(n))) = "true"
           <=> ~Missing(n) /\ n \notin Counted
  BY CastFacts DEF Counted, Numeral, Positive, Negative, Missing, CastFails,
                   NegativeQuantity, SignIn, SQL, SQLNot, SQLOr, SQLAnd

\* The stream's clock is behind by less than a second.
LEMMA ClockFacts ==
    ASSUME NEW at \in Int
    PROVE  /\ StreamClock(at) \in Int
           /\ at - Second < StreamClock(at) /\ StreamClock(at) <= at
  <1>1. at % Second \in 0..Second - 1
    BY Z3, ClockAssumption
  <1>2. QED
    BY <1>1, ClockAssumption DEF StreamClock

LEMMA SymbolCondition ==
    ASSUME NEW symbol \in {"allowed", "other", "null"}
    PROVE  SQLNot(SymbolIsValid(symbol)) = "true" <=> symbol = "other"
  BY DEF SymbolIsValid, SQL, SQLNot

(***************************************************************************)
(* validate_and_enrich accepts exactly the records whose price is a        *)
(* positive DECIMAL(20,8) and quantity a DECIMAL(38,12) that is not        *)
(* negative, recent and not late, of an allowed symbol or of none; and     *)
(* what each of its codes says of the record.                              *)
(***************************************************************************)
StreamAccepts(r, at) ==
    /\ r.price = "plain"
    /\ r.quantity \in Counted
    /\ r.timed /\ ~OutsideSkew(r.time, StreamClock(at)) /\ ~Late(r.time, StreamClock(at))
    /\ r.symbol \in {"allowed", "null"}

CodeExplained(r, at, code) ==
    \/ code = Accepted /\ StreamAccepts(r, at)
    \/ code = "NULL_PRICE" /\ Missing(r.price)
    \/ code = "INVALID_PRICE" /\ ~Missing(r.price) /\ r.price # "plain"
    \/ code = "NULL_QUANTITY" /\ Missing(r.quantity)
    \/ code = "NEGATIVE_QUANTITY" /\ ~Missing(r.quantity) /\ r.quantity \notin Counted
    \/ code = "INVALID_TIMESTAMP" /\ (~r.timed \/ OutsideSkew(r.time, StreamClock(at)))
    \/ code = "LATE_EVENT" /\ Late(r.time, StreamClock(at))
    \/ code = "INVALID_SYMBOL" /\ r.symbol = "other"

LEMMA EnrichVerdict ==
    ASSUME NEW r \in Record, NEW at \in Int
    PROVE  CodeExplained(r, at, ValidateAndEnrich(r, at))
  <1> DEFINE price    == PriceCast(r.price)
             quantity == QuantityCast(r.quantity)
             clock    == StreamClock(at)
  <1>1. PICK a1 : a1 = When("NULL_PRICE", SQL(Missing(r.price)))
    OBVIOUS
  <1>2. PICK a2 : a2 = When("INVALID_PRICE", SQLOr(CastFails(r.price, price),
                                                   SignIn(price, {"-", "0"})))
    OBVIOUS
  <1>3. PICK a3 : a3 = When("NULL_QUANTITY", SQL(Missing(r.quantity)))
    OBVIOUS
  <1>4. PICK a4 : a4 = When("NEGATIVE_QUANTITY",
                            SQLOr(CastFails(r.quantity, quantity),
                                  NegativeQuantity(quantity)))
    OBVIOUS
  <1>5. PICK a5 : a5 = When("INVALID_TIMESTAMP",
                            SQL(~r.timed \/ OutsideSkew(r.time, clock)))
    OBVIOUS
  <1>6. PICK a6 : a6 = When("LATE_EVENT", SQL(Late(r.time, clock)))
    OBVIOUS
  <1>7. PICK a7 : a7 = When("INVALID_SYMBOL", SQLNot(SymbolIsValid(r.symbol)))
    OBVIOUS
  <1>8. PICK v : v = FirstFailure(<<a1, a2, a3, a4, a5, a6, a7>>)
    OBVIOUS
  <1>9. ValidateAndEnrich(r, at) = v
    BY <1>1, <1>2, <1>3, <1>4, <1>5, <1>6, <1>7, <1>8, Zenon DEF ValidateAndEnrich
  <1>10. /\ a1.code = "NULL_PRICE" /\ a2.code = "INVALID_PRICE"
         /\ a3.code = "NULL_QUANTITY" /\ a4.code = "NEGATIVE_QUANTITY"
         /\ a5.code = "INVALID_TIMESTAMP" /\ a6.code = "LATE_EVENT"
         /\ a7.code = "INVALID_SYMBOL"
    BY <1>1, <1>2, <1>3, <1>4, <1>5, <1>6, <1>7 DEF When, Check
  <1>11. a1.fails <=> Missing(r.price)
    BY <1>1 DEF When, Check, SQL, Missing
  <1>12. a2.fails <=> ~Missing(r.price) /\ r.price # "plain"
    <2>1. a2.fails <=> SQLOr(CastFails(r.price, price),
                             SignIn(price, {"-", "0"})) = "true"
      BY <1>2 DEF When, Check
    <2>2. r.price \in Numeral
      BY DEF Record
    <2>3. QED
      BY <2>1, <2>2, PriceCondition, Zenon
  <1>13. a3.fails <=> Missing(r.quantity)
    BY <1>3 DEF When, Check, SQL, Missing
  <1>14. a4.fails <=> ~Missing(r.quantity) /\ r.quantity \notin Counted
    <2>1. a4.fails <=> SQLOr(CastFails(r.quantity, quantity),
                             NegativeQuantity(quantity)) = "true"
      BY <1>4 DEF When, Check
    <2>2. r.quantity \in Numeral
      BY DEF Record
    <2>3. QED
      BY <2>1, <2>2, QuantityCondition, Zenon
  <1>15. a5.fails <=> ~r.timed \/ OutsideSkew(r.time, clock)
    BY <1>5 DEF When, Check, SQL, OutsideSkew
  <1>16. a6.fails <=> Late(r.time, clock)
    BY <1>6 DEF When, Check, SQL, Late
  <1>17. a7.fails <=> r.symbol = "other"
    <2>1. a7.fails <=> SQLNot(SymbolIsValid(r.symbol)) = "true"
      BY <1>7 DEF When, Check
    <2>2. r.symbol \in {"allowed", "other", "null"}
      BY DEF Record
    <2>3. QED
      BY <2>1, <2>2, SymbolCondition, Zenon
  <1>18. r.symbol \in {"allowed", "other", "null"} /\ r.quantity \in Numeral
         /\ r.price \in Numeral
    BY DEF Record
  <1>19. \/ /\ ~a1.fails /\ ~a2.fails /\ ~a3.fails /\ ~a4.fails /\ ~a5.fails
            /\ ~a6.fails /\ ~a7.fails
            /\ v = Accepted
         \/ a1.fails /\ v = a1.code
         \/ a2.fails /\ ~a1.fails /\ v = a2.code
         \/ a3.fails /\ v = a3.code
         \/ a4.fails /\ ~a3.fails /\ v = a4.code
         \/ a5.fails /\ v = a5.code
         \/ a6.fails /\ v = a6.code
         \/ a7.fails /\ v = a7.code
    BY <1>8, SevenChecks
  <1> HIDE DEF price, quantity
  <1>20. CASE /\ ~a1.fails /\ ~a2.fails /\ ~a3.fails /\ ~a4.fails /\ ~a5.fails
              /\ ~a6.fails /\ ~a7.fails
              /\ v = Accepted
    <2>1. StreamAccepts(r, at)
      BY <1>11, <1>12, <1>13, <1>14, <1>15, <1>16, <1>17, <1>18, <1>20
         DEF StreamAccepts, Missing, OutsideSkew, Late
    <2>2. QED
      BY <1>9, <1>20, <2>1, Zenon DEF CodeExplained
  <1>21. QED
    BY <1>9, <1>10, <1>11, <1>12, <1>13, <1>14, <1>15, <1>16, <1>17, <1>19, <1>20,
       Zenon
       DEF CodeExplained

LEMMA StreamAcceptsExactly ==
    ASSUME NEW r \in Record, NEW at \in Int
    PROVE  ValidateAndEnrich(r, at) = Accepted <=> StreamAccepts(r, at)
  <1>1. CodeExplained(r, at, ValidateAndEnrich(r, at))
    BY EnrichVerdict
  <1>2. ASSUME ValidateAndEnrich(r, at) = Accepted
        PROVE  StreamAccepts(r, at)
    BY <1>1, <1>2 DEF CodeExplained, Accepted
  <1>3. ASSUME StreamAccepts(r, at)
        PROVE  ValidateAndEnrich(r, at) = Accepted
    BY <1>1, <1>3 DEF CodeExplained, StreamAccepts, Missing, Counted
  <1>4. QED
    BY <1>2, <1>3

-----------------------------------------------------------------------------
(***************************************************************************)
(* The inductive invariant: what the producer published it accepted at a   *)
(* time that is past, so the record was not too far ahead of the clock     *)
(* then and is not now.                                                    *)
(***************************************************************************)
PublishedBefore ==
    producer = Accepted => \E t \in Int : t <= now /\ ValidateTrade(record, t) = Accepted

ContractInv ==
    /\ record \in Record /\ now \in Int
    /\ PublishedBefore
    /\ CandleInputsDefined

(***************************************************************************)
(* The stream's verdict on a record the producer accepted no later: what   *)
(* StreamConfirmsProducer says of it.                                      *)
(***************************************************************************)
Confirms(r, at, code) ==
    /\ code = "INVALID_TIMESTAMP" =>
          \/ r.time < at - MaxSkew
          \/ StreamClock(at) < r.time - MaxSkew /\ r.time - MaxSkew <= at
    /\ code = "LATE_EVENT" => r.time < at - LateAfter
    /\ code = "INVALID_PRICE" => r.price \in {"dust", "fine", "vast", "unfit"}
    /\ code = "NEGATIVE_QUANTITY" => r.quantity = "unfit"
    /\ code \notin {"NULL_PRICE", "NULL_QUANTITY", "INVALID_SYMBOL"}

LEMMA VerdictOnPublished ==
    ASSUME NEW r \in Record, NEW t \in Int, NEW at \in Int, t <= at,
           ValidateTrade(r, t) = Accepted,
           NEW code, code = ValidateAndEnrich(r, at)
    PROVE  Confirms(r, at, code)
  <1>1. CodeExplained(r, at, code)
    BY EnrichVerdict
  <1>2. /\ ~Incomplete(r)
        /\ r.price \notin {"blank", "text", "nan", "zero"} \cup Negative
        /\ r.quantity \notin {"blank", "text", "nan"} \cup Negative
        /\ r.symbol = "allowed"
        /\ ~OutsideSkew(r.time, t)
    BY TradeVerdict
  <1>3. r.time \in Int /\ r.price \in Numeral /\ r.quantity \in Numeral
    BY ClockAssumption DEF Record
  <1>4. /\ r.timed
        /\ r.price \in Positive /\ r.quantity \in Positive \cup {"zero"}
    BY <1>2, <1>3 DEF Incomplete, Numeral
  <1>5. PICK clock \in Int : clock = StreamClock(at) /\ clock <= at
    BY ClockFacts
  <1>6. code = "INVALID_TIMESTAMP" =>
            r.time < at - MaxSkew \/ (clock < r.time - MaxSkew /\ r.time - MaxSkew <= at)
    <2>1. code = "INVALID_TIMESTAMP" => OutsideSkew(r.time, clock)
      BY <1>1, <1>4, <1>5 DEF CodeExplained, Accepted
    <2>2. OutsideSkew(r.time, clock) =>
            r.time < at - MaxSkew \/ (clock < r.time - MaxSkew /\ r.time - MaxSkew <= at)
      BY <1>2, <1>3, <1>5, ClockAssumption DEF OutsideSkew
    <2>3. QED
      BY <2>1, <2>2
  <1>7. code = "LATE_EVENT" => r.time < at - LateAfter
    <2>1. code = "LATE_EVENT" => Late(r.time, clock)
      BY <1>1, <1>5 DEF CodeExplained, Accepted
    <2>2. Late(r.time, clock) => r.time < at - LateAfter
      BY <1>3, <1>5, ClockAssumption DEF Late
    <2>3. QED
      BY <2>1, <2>2
  <1>8. code = "INVALID_PRICE" => r.price \in {"dust", "fine", "vast", "unfit"}
    BY <1>1, <1>4 DEF CodeExplained, Accepted, Positive
  <1>9. code = "NEGATIVE_QUANTITY" => r.quantity = "unfit"
    BY <1>1, <1>4 DEF CodeExplained, Accepted, Positive, Counted
  <1>10. code \notin {"NULL_PRICE", "NULL_QUANTITY", "INVALID_SYMBOL"}
    BY <1>1, <1>2, <1>4 DEF CodeExplained, Accepted, Missing, Positive
  <1>11. QED
    BY <1>5, <1>6, <1>7, <1>8, <1>9, <1>10 DEF Confirms

LEMMA ContractInit == Init => ContractInv
  BY ClockAssumption
     DEF Init, ContractInv, PublishedBefore, CandleInputsDefined, Accepted

LEMMA ContractNext == ContractInv /\ [Next]_vars => ContractInv'
  <1> SUFFICES ASSUME ContractInv, [Next]_vars
               PROVE  ContractInv'
    OBVIOUS
  <1>1. record \in Record /\ now \in Int /\ record.time \in Int
    BY ClockAssumption DEF ContractInv, Record
  <1>2. CASE ProducerJudges
    <2>1. PublishedBefore'
      <3>1. now <= now
        BY <1>1
      <3>2. producer' = ValidateTrade(record, now) /\ record' = record /\ now' = now
        BY <1>2 DEF ProducerJudges
      <3>3. QED
        BY <1>1, <3>1, <3>2, Zenon DEF PublishedBefore
    <2>2. CandleInputsDefined'
      BY <1>2 DEF ProducerJudges, CandleInputsDefined, Accepted
    <2>3. QED
      BY <1>1, <1>2, <2>1, <2>2 DEF ProducerJudges, ContractInv
  <1>3. CASE Tick
    <2>1. PublishedBefore'
      <3>1. ASSUME producer = Accepted
            PROVE  \E t \in Int : t <= now + 1 /\ ValidateTrade(record, t) = Accepted
        <4>1. PICK t \in Int : t <= now /\ ValidateTrade(record, t) = Accepted
          BY <3>1 DEF ContractInv, PublishedBefore
        <4>2. t <= now + 1
          BY <1>1, <4>1
        <4>3. QED
          BY <4>1, <4>2
      <3>2. QED
        BY <1>3, <3>1 DEF Tick, PublishedBefore
    <2>2. CandleInputsDefined'
      BY <1>3 DEF Tick, ContractInv, CandleInputsDefined
    <2>3. QED
      BY <1>1, <1>3, <2>1, <2>2 DEF Tick, ContractInv
  <1>4. CASE StreamJudges
    <2>1. PublishedBefore'
      BY <1>4 DEF StreamJudges, ContractInv, PublishedBefore
    <2>2. CandleInputsDefined'
      <3>1. SUFFICES ASSUME stream' = Accepted
                     PROVE  CandleInputsDefined'
        BY DEF CandleInputsDefined, Accepted
      <3>2. StreamAccepts(record, now)
        BY <1>1, <1>4, <3>1, StreamAcceptsExactly DEF StreamJudges
      <3>3. record.price \in Numeral /\ record.quantity \in Numeral
        BY <1>1 DEF Record
      <3>4. PriceCast(record.price) = "+" /\ QuantityCast(record.quantity) \in {"0", "+"}
        BY <3>2, <3>3, CastFacts DEF StreamAccepts, Counted
      <3>5. QED
        BY <1>4, <3>4 DEF StreamJudges, CandleInputsDefined
    <2>3. QED
      BY <1>1, <1>4, <2>1, <2>2 DEF StreamJudges, ContractInv
  <1>5. CASE UNCHANGED vars
    BY <1>5 DEF vars, ContractInv, PublishedBefore, CandleInputsDefined
  <1>6. QED
    BY <1>2, <1>3, <1>4, <1>5 DEF Next

LEMMA ContractHolds == Spec => []ContractInv
  BY ContractInit, ContractNext, PTL DEF Spec

\* Only StreamJudges gives the stream's verdict.
LEMMA StreamVerdict ==
    ASSUME [Next]_vars, StreamHasJudged
    PROVE  stream' = ValidateAndEnrich(record, now)
  BY DEF StreamHasJudged, Next, ProducerJudges, Tick, StreamJudges, vars

-----------------------------------------------------------------------------
(* What the stream rejects of what validate_trade let onto the topic, it   *)
(* rejects for its age, for lying ahead of the stream's floored clock, or  *)
(* because a figure rounds to zero in DECIMAL(20,8) or does not fit it or  *)
(* DECIMAL(38,12): for every record, skew, lateness and length of a second *)
(* and however long after the producer the stream judges.                  *)
THEOREM ContractsAgree == Spec => StreamConfirmsProducer
  <1>1. ASSUME ContractInv, [Next]_vars
        PROVE  [(producer = Accepted /\ StreamHasJudged) => Confirms(record, now, stream')]_vars
    <2>1. SUFFICES ASSUME producer = Accepted, StreamHasJudged
                   PROVE  Confirms(record, now, stream')
      OBVIOUS
    <2>2. PICK t \in Int : t <= now /\ ValidateTrade(record, t) = Accepted
      BY <1>1, <2>1 DEF ContractInv, PublishedBefore
    <2>3. stream' = ValidateAndEnrich(record, now)
      BY <1>1, <2>1, StreamVerdict
    <2>4. QED
      BY <1>1, <2>2, <2>3, VerdictOnPublished DEF ContractInv
  <1>2. QED
    BY <1>1, ContractHolds, PTL DEF Spec, StreamConfirmsProducer, Confirms

(* No NULL and no price that is not positive reaches a candle, whether the *)
(* producer saw the record or not.                                         *)
THEOREM FiguresDefined == Spec => []CandleInputsDefined
  <1>1. ContractInv => CandleInputsDefined
    BY DEF ContractInv
  <1>2. QED
    BY <1>1, ContractHolds, PTL

(* is_valid of the stream implies what validate_trade would say at that    *)
(* moment, but for a record without a symbol, one that only TradeEvent     *)
(* refuses, a negative quantity that rounds to zero, and one that is too   *)
(* old by less than the stream's clock lacks: of all classes of records    *)
(* these are the only ones that slip in.                                   *)
THEOREM NothingSlipsIn == Spec => StreamAcceptsNoMore
  <1> DEFINE Excepted ==
          \/ record.symbol = "null" \/ ~record.conforms \/ record.quantity = "-dust"
          \/ StreamClock(now) <= record.time + MaxSkew /\ record.time + MaxSkew < now
  <1>1. ASSUME ContractInv, [Next]_vars
        PROVE  [(StreamHasJudged /\ stream' = Accepted) =>
                   ValidateTrade(record, now) = Accepted \/ Excepted]_vars
    <2>1. SUFFICES ASSUME StreamHasJudged, stream' = Accepted, ~Excepted
                   PROVE  ValidateTrade(record, now) = Accepted
      OBVIOUS
    <2>2. record \in Record /\ now \in Int
      BY <1>1 DEF ContractInv
    <2>3. StreamAccepts(record, now)
      BY <1>1, <2>1, <2>2, StreamVerdict, StreamAcceptsExactly
    <2>4. PICK clock \in Int : clock = StreamClock(now) /\ clock <= now
      BY <2>2, ClockFacts
    <2>5. record.time \in Int
      BY <2>2, ClockAssumption DEF Record
    <2>6. ~OutsideSkew(record.time, clock)
      BY <2>3, <2>4 DEF StreamAccepts
    <2>7. ~(clock <= record.time + MaxSkew /\ record.time + MaxSkew < now)
      BY <2>1, <2>4
    <2>8. ~OutsideSkew(record.time, now)
      BY <2>2, <2>4, <2>5, <2>6, <2>7, ClockAssumption DEF OutsideSkew
    <2>9. ~Incomplete(record) /\ record.symbol = "allowed"
      BY <2>1, <2>3 DEF StreamAccepts, Incomplete, Counted
    <2>10. /\ record.price \notin {"blank", "text", "nan", "zero"} \cup Negative
           /\ record.quantity \notin {"blank", "text", "nan"} \cup Negative
      BY <2>1, <2>3 DEF StreamAccepts, Counted, Negative
    <2>11. QED
      BY <2>2, <2>8, <2>9, <2>10, TradeVerdict
  <1>2. QED
    BY <1>1, ContractHolds, PTL DEF Spec, StreamAcceptsNoMore
=============================================================================
