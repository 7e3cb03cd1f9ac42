---------------------------- MODULE CandleTable ----------------------------
(***************************************************************************)
(* What the 1-minute candles promise their readers, without Spark,         *)
(* checkpoints or Postgres: every trade adds to the candle of its own      *)
(* symbol and minute, at most once however often it was delivered; nothing *)
(* that was added is lost; a closed candle never changes again.            *)
(*                                                                         *)
(* A trade is a pair <<offset, event>>; two deliveries of one event differ *)
(* in their offset.  StreamJob implements this table (StreamJob!Table).    *)
(***************************************************************************)

CONSTANTS Trade,            \* every <<offset, event>> there can be
          Key,              \* <<symbol, end of the minute>>
          KeyOfTrade(_),    \* the candle a trade belongs to
          EventOfTrade(_)   \* what identifies a trade: its event_id

VARIABLES table,            \* [Key -> SUBSET Trade]: the trades in each candle
          closed            \* the keys whose candle is final

vars == <<table, closed>>

Recorded(T) == UNION {T[k] : k \in Key}

EachEventOnce(S) ==
    \A s, t \in S : EventOfTrade(s) = EventOfTrade(t) => s = t

TypeOK == /\ table \in [Key -> SUBSET Trade]
          /\ closed \in SUBSET Key

(***************************************************************************)
(* No trade is in any candle; minutes that are already over may be closed. *)
(***************************************************************************)
Init == /\ table = [k \in Key |-> {}]
        /\ closed \in SUBSET Key

(***************************************************************************)
(* Trades enter the open candles, each its own, no event twice.            *)
(***************************************************************************)
Add ==
    /\ table' \in [Key -> SUBSET Trade]
    /\ \A k \in Key :
          /\ table[k] \subseteq table'[k]
          /\ k \in closed => table'[k] = table[k]
          /\ \A t \in table'[k] : KeyOfTrade(t) = k
    /\ EachEventOnce(Recorded(table'))
    /\ UNCHANGED closed

(***************************************************************************)
(* Minutes pass: candles become final.                                     *)
(***************************************************************************)
Close ==
    /\ closed' \in SUBSET Key
    /\ closed \subseteq closed'
    /\ UNCHANGED table

Next == Add \/ Close

Spec == Init /\ [][Next]_vars
=============================================================================
