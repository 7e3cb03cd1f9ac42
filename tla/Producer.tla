------------------------------ MODULE Producer ------------------------------
(***************************************************************************)
(* The WebSocket producer: services/producer.                              *)
(*                                                                         *)
(* One asyncio task receives a frame, judges it and hands it to librdkafka *)
(* (run_producer); a thread of librdkafka's sends what is queued.  Kafka   *)
(* keeps the order of records of one topic and key: such a sequence is a   *)
(* Lane.  The idempotent producer writes a record once, or drops it when   *)
(* its retries have run out.                                               *)
(*                                                                         *)
(* Abstractions.  One symbol.  A record is the number of its frame.  How   *)
(* long a backoff lasts, and so consecutive_failures, is left out, and so  *)
(* are the counters that are only logged.  Frames that get lost before     *)
(* recv() has returned them are not frames.                                *)
(***************************************************************************)
EXTENDS Integers, Sequences, FiniteSets

CONSTANTS QueueMax,    \* queue.buffering.max.messages of librdkafka
          MaxReceived  \* bound: frames received

ASSUME SizesAssumption == QueueMax \in Nat \ {0} /\ MaxReceived \in Nat

VARIABLES
    pc,         \* where run_producer is
    kinds,      \* the kind of each frame received
    queue,      \* [Lane -> Seq(frame)]: handed to librdkafka
    delivered,  \* [Lane -> Seq(frame)]: in Kafka
    mishap      \* something has happened that may lose a record

vars == <<pc, kinds, queue, delivered, mishap>>

Lane == {"trades",     \* crypto_trades, by symbol
         "rejected",   \* dead_letter_queue, by symbol
         "malformed"}  \* dead_letter_queue, no key

Kind == {"trade",      \* passes validate_trade
         "invalid",    \* does not
         "malformed",  \* KeyError, ValueError or TypeError in normalize_...
         "raising"}    \* another exception: not an object, or a price of NaN

LaneOf == [trade |-> "trades", invalid |-> "rejected", malformed |-> "malformed"]

Frame == 1..MaxReceived

Empty == [l \in Lane |-> <<>>]

Queued == Len(queue["trades"]) + Len(queue["rejected"]) + Len(queue["malformed"])

Init ==
    /\ pc = "connecting"
    /\ kinds = <<>>
    /\ queue = Empty
    /\ delivered = Empty
    /\ mishap = FALSE

-----------------------------------------------------------------------------
Connect ==
    /\ pc = "connecting"
    /\ pc' = "receiving"
    /\ UNCHANGED <<kinds, queue, delivered, mishap>>

(***************************************************************************)
(* The handler `except Exception': the connection cannot be made, closes,  *)
(* or brings a frame that recv_json cannot read.                           *)
(***************************************************************************)
Disconnect ==
    /\ pc \in {"connecting", "receiving"}
    /\ pc' = "sleeping"
    /\ UNCHANGED <<kinds, queue, delivered, mishap>>

Receive(kind) ==
    /\ pc = "receiving"
    /\ Len(kinds) < MaxReceived
    /\ kinds' = Append(kinds, kind)

(***************************************************************************)
(* kafka.produce_json to crypto_trades or to dead_letter_queue, after      *)
(* which the loop continues with the next frame.                           *)
(***************************************************************************)
MutantHandleFallsThrough(kind) ==
    LET frame == Len(kinds) + 1 IN
    /\ Receive(kind)
    /\ kind # "raising"
    /\ Queued < QueueMax
    /\ queue' = [l \in Lane |-> IF l \in {LaneOf[kind], "trades"}
                                THEN Append(queue[l], frame) ELSE queue[l]]
    /\ UNCHANGED <<pc, delivered, mishap>>

MutantHandleUnbounded(kind) ==
    /\ Receive(kind)
    /\ kind # "raising"
    /\ queue' = [queue EXCEPT ![LaneOf[kind]] = Append(@, Len(kinds'))]
    /\ UNCHANGED <<pc, delivered, mishap>>

Handle(kind) ==
    /\ Receive(kind)
    /\ kind # "raising"
    /\ Queued < QueueMax
    /\ queue' = [queue EXCEPT ![LaneOf[kind]] = Append(@, Len(kinds'))]
    /\ UNCHANGED <<pc, delivered, mishap>>

(***************************************************************************)
(* A frame whose handling raises (BufferError when the queue is full)      *)
(* counts as a disconnection, and nothing is sent of it.                   *)
(***************************************************************************)
HandleRaises(kind) ==
    /\ Receive(kind)
    /\ kind = "raising" \/ Queued >= QueueMax
    /\ pc' = "sleeping"
    /\ mishap' = TRUE
    /\ UNCHANGED <<queue, delivered>>

(***************************************************************************)
(* asyncio.sleep(backoff_seconds), then `finally: kafka.flush()', which    *)
(* waits for ten seconds at most and leaves the rest in the queue.         *)
(***************************************************************************)
EndSleep ==
    /\ pc = "sleeping"
    /\ pc' = "flushing"
    /\ UNCHANGED <<kinds, queue, delivered, mishap>>

FlushCompletes ==
    /\ pc \in {"flushing", "closing"}
    /\ Queued = 0
    /\ pc' = IF pc = "flushing" THEN "connecting" ELSE "ended"
    /\ UNCHANGED <<kinds, queue, delivered, mishap>>

MutantFlushWaits ==
    /\ pc = "closing"
    /\ Queued > 0
    /\ pc' = "ended"
    /\ queue' = Empty
    /\ mishap' = TRUE
    /\ UNCHANGED <<kinds, delivered>>

MutantFlushPurges ==
    /\ pc \in {"flushing", "closing"}
    /\ Queued > 0
    /\ queue' = Empty
    /\ pc' = IF pc = "flushing" THEN "connecting" ELSE "ended"
    /\ UNCHANGED <<kinds, delivered, mishap>>

FlushTimesOut ==
    /\ pc \in {"flushing", "closing"}
    /\ Queued > 0
    /\ \/ /\ pc = "flushing"
          /\ pc' = "connecting"
          /\ UNCHANGED <<queue, mishap>>
       \/ /\ pc = "closing"
          /\ pc' = "ended"
          /\ queue' = Empty
          /\ mishap' = TRUE
    /\ UNCHANGED <<kinds, delivered>>

(***************************************************************************)
(* The task is cancelled (Ctrl-C) at one of its awaits: the queue is       *)
(* flushed, then run_producer returns.                                     *)
(***************************************************************************)
MutantCancelAtOnce ==
    /\ pc \in {"connecting", "receiving", "sleeping"}
    /\ pc' = "ended"
    /\ queue' = Empty
    /\ UNCHANGED <<kinds, delivered, mishap>>

Cancel ==
    /\ pc \in {"connecting", "receiving", "sleeping"}
    /\ pc' = "closing"
    /\ UNCHANGED <<kinds, queue, delivered, mishap>>

(***************************************************************************)
(* The process is killed (docker stop, out of memory): it handles no       *)
(* signal but Ctrl-C, so that nothing is flushed.                          *)
(***************************************************************************)
Kill ==
    /\ pc # "ended"
    /\ pc' = "ended"
    /\ queue' = Empty
    /\ mishap' = (mishap \/ Queued > 0)
    /\ UNCHANGED <<kinds, delivered>>

\* restart: unless-stopped
Restart ==
    /\ pc = "ended"
    /\ pc' = "connecting"
    /\ UNCHANGED <<kinds, queue, delivered, mishap>>

-----------------------------------------------------------------------------
(***************************************************************************)
(* librdkafka's thread: Kafka acknowledges the oldest record of a lane, or *)
(* its retries run out and it is dropped; no callback tells the program.   *)
(***************************************************************************)
Send(l) ==
    /\ queue[l] # <<>>
    /\ queue' = [queue EXCEPT ![l] = Tail(@)]
    /\ delivered' = [delivered EXCEPT ![l] = Append(@, Head(queue[l]))]
    /\ UNCHANGED <<pc, kinds, mishap>>

Drop(l) ==
    /\ queue[l] # <<>>
    /\ queue' = [queue EXCEPT ![l] = Tail(@)]
    /\ mishap' = TRUE
    /\ UNCHANGED <<pc, kinds, delivered>>

Next ==
    \/ Connect \/ Disconnect
    \/ \E kind \in Kind : Handle(kind) \/ HandleRaises(kind)
    \/ EndSleep \/ FlushCompletes \/ FlushTimesOut
    \/ Cancel \/ Kill \/ Restart
    \/ \E l \in Lane : Send(l) \/ Drop(l)

Spec == Init /\ [][Next]_vars

(***************************************************************************)
(* A sleep ends, a flush ends, Docker restarts the process; the exchange   *)
(* accepts a connection if asked often enough.  Nothing is assumed of      *)
(* Kafka.                                                                  *)
(***************************************************************************)
Fairness ==
    /\ WF_vars(EndSleep) /\ WF_vars(FlushCompletes \/ FlushTimesOut)
    /\ WF_vars(Restart)
    /\ SF_vars(Connect)

FairSpec == Spec /\ Fairness

-----------------------------------------------------------------------------
(***************************************************************************)
(* PROPERTIES                                                              *)
(***************************************************************************)

(* Types, and librdkafka's queue never holds more than it may.             *)
TypeOK ==
    /\ pc \in {"connecting", "receiving", "sleeping", "flushing", "closing", "ended"}
    /\ kinds \in Seq(Kind) /\ Len(kinds) <= MaxReceived
    /\ queue \in [Lane -> Seq(Frame)]
    /\ delivered \in [Lane -> Seq(Frame)]
    /\ mishap \in BOOLEAN
    /\ Queued <= QueueMax

(* What reaches Kafka, across disconnections, flushes that time out and    *)
(* restarts: each record once, in the one lane its verdict calls for, in   *)
(* the order the exchange sent it.                                         *)
InLane(l) == delivered[l] \o queue[l]

LanesInOrder ==
    \A l \in Lane :
        /\ \A i, j \in DOMAIN InLane(l) : i < j => InLane(l)[i] < InLane(l)[j]
        /\ \A i \in DOMAIN InLane(l) :
              kinds[InLane(l)[i]] # "raising" /\ LaneOf[kinds[InLane(l)[i]]] = l

(* Disconnections, backoffs and clean shutdowns lose nothing that recv()   *)
(* returned: only a full queue, an unexpected exception, a kill, retries   *)
(* that ran out or a last flush that timed out do.                         *)
OnlyMishapsLose ==
    ~mishap => \A f \in DOMAIN kinds : \E l \in Lane :
                   \E i \in DOMAIN InLane(l) : InLane(l)[i] = f

(* The producer keeps coming back to receiving, whatever Kafka does and    *)
(* however often it is disconnected, cancelled or killed.                  *)
ReceivesAgain == []<>(pc = "receiving")

(* If Kafka accepts records, all that was received gets there, a flush     *)
(* that timed out notwithstanding, unless there was a mishap.              *)
ReceivedIsDelivered ==
    (\A l \in Lane : SF_vars(Send(l))) =>
        \A f \in Frame :
            (Len(kinds) >= f) ~>
                (mishap \/ \E l \in Lane : \E i \in DOMAIN delivered[l] :
                               delivered[l][i] = f)
=============================================================================
