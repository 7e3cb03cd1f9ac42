----------------------------- MODULE Validation -----------------------------
(***************************************************************************)
(* The validation contract, stated twice in the code: validate_trade of    *)
(* shared/validation.py judges a record when the producer receives it, and *)
(* validate_and_enrich of spark_streaming/transforms.py judges it again    *)
(* when a micro-batch reads it, later.  This module follows one record     *)
(* through both.                                                           *)
(*                                                                         *)
(* A price or quantity is a class of strings: the classes are those that   *)
(* Python's Decimal and Spark's DECIMAL(20,8) and DECIMAL(38,12) tell      *)
(* apart.                                                                  *)
(***************************************************************************)
EXTENDS Integers, FiniteSets, Sequences, FiniteSetsExt

CONSTANTS MaxSkew,     \* MAX_TIME_SKEW_MS, the same in both
          LateAfter,   \* LATE_EVENT_AFTER_MINUTES, of the stream only
          Second,      \* a second: the stream's clock shows no less
          Times,       \* trade times
          Start,       \* the clock when the record arrives
          MaxNow       \* bound: clock

ASSUME ClockAssumption ==
    /\ MaxSkew \in Nat /\ LateAfter \in Nat /\ Second \in Nat \ {0}
    /\ Times \subseteq Int /\ Start \in Nat /\ MaxNow \in Nat

VARIABLES record,    \* what is judged
          now,       \* the clock
          producer,  \* the producer's verdict, "none" before it
          stream     \* the stream's

vars == <<record, now, producer, stream>>

Positive == {"dust",    \* rounds to 0 in 12 decimals
             "fine",    \* rounds to 0 in 8 decimals, not in 12
             "plain",
             "vast",    \* 13 to 26 integer digits
             "unfit"}   \* more, or written as Decimal reads it and Spark does not: 1_000

Negative == {"-dust", "-fine", "-plain", "-vast", "-unfit"}

Numeral == {"null",     \* absent
            "blank",    \* empty or blanks
            "text",     \* not a number
            "nan",      \* Decimal("NaN")
            "zero"} \cup Positive \cup Negative

Record == [price : Numeral, quantity : Numeral,
           symbol : {"allowed", "other", "null"},
           time : Times,
           timed : BOOLEAN,     \* trade_time_ms is there
           conforms : BOOLEAN]  \* so are event_id and trade_id, every field has
                                \* its JSON type and none is unknown

Accepted == "OK"

(***************************************************************************)
(* A list of checks and the code of the first that fails.                  *)
(***************************************************************************)
FirstFailure(checks) ==
    LET failing == {i \in DOMAIN checks : checks[i].fails}
    IN  IF failing = {} THEN Accepted ELSE checks[Min(failing)].code

Check(code, fails) == [code |-> code, fails |-> fails]

OutsideSkew(time, at) == time <= 0 \/ time < at - MaxSkew \/ time > at + MaxSkew

-----------------------------------------------------------------------------
(***************************************************************************)
(* validate_trade.  TradeEvent strips white space, wants strings for       *)
(* price, quantity and symbol and forbids what it does not know.           *)
(* Comparing a NaN raises InvalidOperation, outside the try of             *)
(* _parse_positive_decimal: not a verdict.                                 *)
(***************************************************************************)
Raises == "RAISES"

ValidateTrade(r, at) ==
    FirstFailure(<<
        Check("SCHEMA_VALIDATION_FAILED",
              "null" \in {r.price, r.quantity, r.symbol} \/ ~r.timed \/ ~r.conforms),
        Check("NULL_PRICE", r.price = "blank"),
        Check("INVALID_PRICE", r.price = "text"),
        Check(Raises, r.price = "nan"),
        Check("INVALID_PRICE", r.price \in Negative \cup {"zero"}),
        Check("NULL_QUANTITY", r.quantity = "blank"),
        Check("NEGATIVE_QUANTITY", r.quantity = "text"),
        Check(Raises, r.quantity = "nan"),
        Check("NEGATIVE_QUANTITY", r.quantity \in Negative),
        Check("INVALID_SYMBOL", r.symbol # "allowed"),
        Check("INVALID_TIMESTAMP", OutsideSkew(r.time, at))>>)

-----------------------------------------------------------------------------
(***************************************************************************)
(* validate_and_enrich, in SQL's three-valued logic.  A WHEN is taken only *)
(* if its condition is "true".  Its now_ms is the batch's time stamp in    *)
(* whole seconds, and it knows the fields it names only.                   *)
(***************************************************************************)
SQL(b) == IF b THEN "true" ELSE "false"

SQLNot(x) == CASE x = "true" -> "false"
               [] x = "false" -> "true"
               [] OTHER -> "NULL"

SQLOr(x, y) == CASE "true" \in {x, y} -> "true"
                 [] {x, y} = {"false"} -> "false"
                 [] OTHER -> "NULL"

SQLAnd(x, y) == SQLNot(SQLOr(SQLNot(x), SQLNot(y)))

\* a comparison of a number with 0: NULL if the number is
SignIn(sign, signs) == IF sign = "NULL" THEN "NULL" ELSE SQL(sign \in signs)

When(code, condition) == Check(code, condition = "true")

\* The sign of a numeral cast to a DECIMAL in which those in nil round to 0
\* and that cannot hold those in unfit.
Cast(n, nil, unfit) == CASE n \in nil \cup {"zero"} -> "0"
                         [] n \in Positive \ (nil \cup unfit) -> "+"
                         [] n \in Negative \ (nil \cup unfit) -> "-"
                         [] OTHER -> "NULL"

PriceCast(n) ==     \* DECIMAL(20,8)
    Cast(n, {"dust", "fine", "-dust", "-fine"}, {"vast", "unfit", "-vast", "-unfit"})

QuantityCast(n) ==  \* DECIMAL(38,12)
    Cast(n, {"dust", "-dust"}, {"unfit", "-unfit"})

Missing(n) == n \in {"null", "blank"}

MutantCastFails(n, sign) == SQL(FALSE)
CastFails(n, sign) == SQLAnd(SQL(sign = "NULL"), SQLNot(SQL(Missing(n))))

MutantNegativeQuantity(sign) == SignIn(sign, {"-", "0"})
NegativeQuantity(sign) == SignIn(sign, {"-"})

MutantSymbolIsValid(symbol) == IF symbol = "null" THEN "NULL" ELSE "true"
SymbolIsValid(symbol) == IF symbol = "null" THEN "NULL" ELSE SQL(symbol = "allowed")

StreamClock(at) == at - (at % Second)

Late(time, at) == time < at - LateAfter

ValidateAndEnrich(r, at) ==
    LET price    == PriceCast(r.price)
        quantity == QuantityCast(r.quantity)
        clock    == StreamClock(at)
    IN  FirstFailure(<<
            When("NULL_PRICE", SQL(Missing(r.price))),
            When("INVALID_PRICE", SQLOr(CastFails(r.price, price),
                                        SignIn(price, {"-", "0"}))),
            When("NULL_QUANTITY", SQL(Missing(r.quantity))),
            When("NEGATIVE_QUANTITY", SQLOr(CastFails(r.quantity, quantity),
                                            NegativeQuantity(quantity))),
            When("INVALID_TIMESTAMP", SQL(~r.timed \/ OutsideSkew(r.time, clock))),
            When("LATE_EVENT", SQL(Late(r.time, clock))),
            When("INVALID_SYMBOL", SQLNot(SymbolIsValid(r.symbol)))>>)

-----------------------------------------------------------------------------
Init ==
    /\ record \in Record
    /\ now = Start
    /\ producer = "none"
    /\ stream = "none"

(***************************************************************************)
(* The producer judges what the exchange sends; a record put on the topic  *)
(* by hand never meets it.                                                 *)
(***************************************************************************)
ProducerJudges ==
    /\ producer = "none" /\ stream = "none"
    /\ producer' = ValidateTrade(record, now)
    /\ UNCHANGED <<record, now, stream>>

Tick ==
    /\ now < MaxNow
    /\ now' = now + 1
    /\ UNCHANGED <<record, producer, stream>>

StreamJudges ==
    /\ producer \in {"none", Accepted}
    /\ stream = "none"
    /\ stream' = ValidateAndEnrich(record, now)
    /\ UNCHANGED <<record, now, producer>>

Next == ProducerJudges \/ Tick \/ StreamJudges

Spec == Init /\ [][Next]_vars

-----------------------------------------------------------------------------
(***************************************************************************)
(* PROPERTIES                                                              *)
(***************************************************************************)

StreamHasJudged == stream = "none" /\ stream' # "none"

(* What the stream rejects of what the producer published, it rejects      *)
(* because of its age, because it lies ahead of the stream's clock by what *)
(* that clock lacks, or because a figure rounds to zero or does not fit    *)
(* the stream's decimals: the contracts differ in nothing else.            *)
StreamConfirmsProducer ==
    [][(producer = Accepted /\ StreamHasJudged) =>
          /\ stream' = "INVALID_TIMESTAMP" =>
                \/ record.time < now - MaxSkew
                \/ StreamClock(now) < record.time - MaxSkew /\ record.time - MaxSkew <= now
          /\ stream' = "LATE_EVENT" => record.time < now - LateAfter
          /\ stream' = "INVALID_PRICE" => record.price \in {"dust", "fine", "vast", "unfit"}
          /\ stream' = "NEGATIVE_QUANTITY" => record.quantity = "unfit"
          /\ stream' \notin {"NULL_PRICE", "NULL_QUANTITY", "INVALID_SYMBOL"}]_vars

(* What the stream accepts the producer would accept at that moment,       *)
(* except where the two contracts do part: a record without a symbol,      *)
(* which passes NOT (symbol IN (...)), one that only TradeEvent finds      *)
(* fault with, a negative quantity that rounds to zero, and one that is    *)
(* too old by less than the stream's clock lacks.                          *)
StreamAcceptsNoMore ==
    [][(StreamHasJudged /\ stream' = Accepted) =>
          \/ ValidateTrade(record, now) = Accepted
          \/ record.symbol = "null"
          \/ ~record.conforms
          \/ record.quantity = "-dust"
          \/ StreamClock(now) <= record.time + MaxSkew /\ record.time + MaxSkew < now]_vars

(* A figure the stream lets through is one it can compute with: no NULL    *)
(* and no price that is not positive enters a candle.                      *)
CandleInputsDefined ==
    stream = Accepted =>
        PriceCast(record.price) = "+" /\ QuantityCast(record.quantity) \in {"0", "+"}
=============================================================================
