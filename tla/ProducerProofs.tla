--------------------------- MODULE ProducerProofs ---------------------------
(***************************************************************************)
(* What the producer guarantees for any queue size and any number of       *)
(* frames, disconnections, flushes, kills and dropped records.             *)
(***************************************************************************)
EXTENDS Producer, SequenceTheorems, TLAPS

-----------------------------------------------------------------------------
(***************************************************************************)
(* Sequences of frames: what becomes of the order and of the verdicts when *)
(* records are sent, dropped or added.                                     *)
(***************************************************************************)
Ascending(s) == \A i, j \in DOMAIN s : i < j => s[i] < s[j]

\* t is what is left of s when some records are gone.
Thinned(t, s) ==
    \E f \in [DOMAIN t -> DOMAIN s] :
        /\ \A i, j \in DOMAIN t : i < j => f[i] < f[j]
        /\ \A i \in DOMAIN t : t[i] = s[f[i]]

LEMMA ThinnedSame ==
    ASSUME NEW s
    PROVE  Thinned(s, s)
  <1> DEFINE f == [i \in DOMAIN s |-> i]
  <1>1. f \in [DOMAIN s -> DOMAIN s]
    OBVIOUS
  <1>2. /\ \A i, j \in DOMAIN s : i < j => f[i] < f[j]
        /\ \A i \in DOMAIN s : s[i] = s[f[i]]
    OBVIOUS
  <1>3. QED
    BY <1>1, <1>2 DEF Thinned

\* What is queued behind what is delivered goes: the process ends.
LEMMA ThinnedToPrefix ==
    ASSUME NEW d \in Seq(Frame), NEW q \in Seq(Frame)
    PROVE  Thinned(d, d \o q)
  <1> DEFINE f == [i \in DOMAIN d |-> i]
  <1>1. /\ DOMAIN d = 1..Len(d) /\ DOMAIN (d \o q) = 1..Len(d) + Len(q)
        /\ Len(d) \in Nat /\ Len(q) \in Nat
        /\ \A i \in 1..Len(d) : (d \o q)[i] = d[i]
    BY ConcatProperties, LenProperties
  <1>2. f \in [DOMAIN d -> DOMAIN (d \o q)]
    BY <1>1
  <1>3. /\ \A i, j \in DOMAIN d : i < j => f[i] < f[j]
        /\ \A i \in DOMAIN d : d[i] = (d \o q)[f[i]]
    BY <1>1
  <1>4. QED
    BY <1>2, <1>3 DEF Thinned

\* The oldest record of the queue goes: its retries have run out.
LEMMA ThinnedByHead ==
    ASSUME NEW d \in Seq(Frame), NEW q \in Seq(Frame), q # <<>>
    PROVE  Thinned(d \o Tail(q), d \o q)
  <1> DEFINE n == Len(d)
             t == d \o Tail(q)
             s == d \o q
             f == [i \in DOMAIN t |-> IF i <= n THEN i ELSE i + 1]
  <1>1. /\ Tail(q) \in Seq(Frame) /\ Len(Tail(q)) = Len(q) - 1
        /\ \A i \in 1..Len(Tail(q)) : Tail(q)[i] = q[i + 1]
        /\ n \in Nat /\ Len(q) \in Nat /\ Len(q) - 1 \in Nat
    BY HeadTailProperties, LenProperties, EmptySeq
  <1>2. /\ DOMAIN s = 1..n + Len(q) /\ DOMAIN t = 1..n + Len(q) - 1
        /\ \A i \in 1..n + Len(q) : s[i] = IF i <= n THEN d[i] ELSE q[i - n]
        /\ \A i \in 1..n + Len(q) - 1 : t[i] = IF i <= n THEN d[i] ELSE Tail(q)[i - n]
    <2>1. /\ s \in Seq(Frame) /\ Len(s) = n + Len(q)
          /\ \A i \in 1..n + Len(q) : s[i] = IF i <= n THEN d[i] ELSE q[i - n]
      BY ConcatProperties
    <2>2. /\ t \in Seq(Frame) /\ Len(t) = n + Len(Tail(q))
          /\ \A i \in 1..n + Len(Tail(q)) : t[i] = IF i <= n THEN d[i] ELSE Tail(q)[i - n]
      BY <1>1, ConcatProperties
    <2>3. n + Len(Tail(q)) = n + Len(q) - 1
      BY <1>1
    <2>4. DOMAIN s = 1..Len(s) /\ DOMAIN t = 1..Len(t)
      BY <2>1, <2>2, LenProperties
    <2>5. QED
      BY <2>1, <2>2, <2>3, <2>4
  <1>3. f \in [DOMAIN t -> DOMAIN s]
    BY <1>1, <1>2
  <1>4. \A i, j \in DOMAIN t : i < j => f[i] < f[j]
    BY <1>1, <1>2
  <1>5. ASSUME NEW i \in DOMAIN t
        PROVE  t[i] = s[f[i]]
    <2>1. CASE i <= n
      BY <1>1, <1>2, <2>1
    <2>2. CASE ~(i <= n)
      <3>1. i \in 1..n + Len(q) - 1
        BY <1>2
      <3>2. i - n \in 1..Len(Tail(q)) /\ i + 1 \in 1..n + Len(q) /\ ~(i + 1 <= n)
        BY <1>1, <2>2, <3>1
      <3>3. t[i] = q[i - n + 1] /\ s[i + 1] = q[i + 1 - n]
        BY <1>1, <1>2, <2>2, <3>1, <3>2
      <3>4. i - n + 1 = i + 1 - n
        BY <1>1, <3>1
      <3>5. QED
        BY <2>2, <3>3, <3>4
    <2>3. QED
      BY <2>1, <2>2
  <1>6. QED
    BY <1>3, <1>4, <1>5 DEF Thinned

\* The oldest record of the queue is delivered: the lane is the same.
LEMMA LaneOfSent ==
    ASSUME NEW d \in Seq(Frame), NEW q \in Seq(Frame), q # <<>>
    PROVE  Append(d, Head(q)) \o Tail(q) = d \o q
  <1> DEFINE n == Len(d)
             e == Append(d, Head(q))
  <1>1. /\ Head(q) \in Frame
        /\ Tail(q) \in Seq(Frame) /\ Len(Tail(q)) = Len(q) - 1
        /\ \A i \in 1..Len(Tail(q)) : Tail(q)[i] = q[i + 1]
        /\ n \in Nat /\ Len(q) \in Nat /\ Len(q) - 1 \in Nat
    BY HeadTailProperties, LenProperties, EmptySeq
  <1>2. /\ e \in Seq(Frame) /\ Len(e) = n + 1
        /\ \A i \in 1..n : e[i] = d[i]
        /\ e[n + 1] = q[1]
    <2>1. Head(q) = q[1]
      OBVIOUS
    <2>2. QED
      BY <1>1, <2>1, AppendProperties
  <1>3. /\ e \o Tail(q) \in Seq(Frame) /\ Len(e \o Tail(q)) = n + Len(q)
        /\ \A i \in 1..n + Len(q) :
               (e \o Tail(q))[i] = IF i <= n + 1 THEN e[i] ELSE Tail(q)[i - (n + 1)]
    <2>1. Len(e) + Len(Tail(q)) = n + Len(q)
      BY <1>1, <1>2
    <2>2. QED
      BY <1>1, <1>2, <2>1, ConcatProperties
  <1>4. /\ d \o q \in Seq(Frame) /\ Len(d \o q) = n + Len(q)
        /\ \A i \in 1..n + Len(q) : (d \o q)[i] = IF i <= n THEN d[i] ELSE q[i - n]
    BY ConcatProperties
  <1>5. ASSUME NEW i \in 1..n + Len(q)
        PROVE  (e \o Tail(q))[i] = (d \o q)[i]
    <2>1. CASE i <= n
      BY <1>1, <1>2, <1>3, <1>4, <2>1
    <2>2. CASE i = n + 1
      BY <1>1, <1>2, <1>3, <1>4, <2>2
    <2>3. CASE i > n + 1
      <3>1. i - (n + 1) \in 1..Len(Tail(q)) /\ i - (n + 1) + 1 = i - n
        BY <1>1, <2>3
      <3>2. (e \o Tail(q))[i] = Tail(q)[i - (n + 1)]
        BY <1>1, <1>3, <2>3
      <3>3. (d \o q)[i] = q[i - n]
        BY <1>1, <1>4, <2>3
      <3>4. QED
        BY <1>1, <3>1, <3>2, <3>3
    <2>4. QED
      BY <1>1, <2>1, <2>2, <2>3
  <1>6. QED
    BY <1>3, <1>4, <1>5, SeqEqual

\* A record is added to the queue, and so to the lane.
LEMMA LaneOfQueued ==
    ASSUME NEW d \in Seq(Frame), NEW q \in Seq(Frame), NEW f \in Frame
    PROVE  d \o Append(q, f) = Append(d \o q, f)
  <1>1. d \o (q \o <<f>>) = (d \o q) \o <<f>>
    BY ConcatAssociative, <<f>> \in Seq(Frame)
  <1>2. Append(q, f) = q \o <<f>>
    BY AppendIsConcat
  <1>3. d \o q \in Seq(Frame)
    BY ConcatProperties
  <1>4. Append(d \o q, f) = (d \o q) \o <<f>>
    BY <1>3, AppendIsConcat
  <1>5. QED
    BY <1>1, <1>2, <1>4

-----------------------------------------------------------------------------
(***************************************************************************)
(* Types and the limit of the queue                                        *)
(***************************************************************************)
LEMMA LaneOfKind ==
    ASSUME NEW kind \in Kind, kind # "raising"
    PROVE  LaneOf[kind] \in Lane
  BY DEF Kind, LaneOf, Lane

LEMMA QueuedFacts ==
    ASSUME queue \in [Lane -> Seq(Frame)]
    PROVE  /\ \A l \in Lane : Len(queue[l]) \in Nat
           /\ Queued \in Nat
           /\ Queued = 0 => queue = Empty
  <1>1. \A l \in Lane : queue[l] \in Seq(Frame) /\ Len(queue[l]) \in Nat
    BY LenProperties
  <1>2. Queued \in Nat
    BY <1>1 DEF Queued, Lane
  <1>3. ASSUME Queued = 0
        PROVE  queue = Empty
    <2>1. \A l \in Lane : Len(queue[l]) = 0
      BY <1>1, <1>3 DEF Queued, Lane
    <2>2. \A l \in Lane : queue[l] = <<>>
      BY <1>1, <2>1, EmptySeq
    <2>3. QED
      BY <2>2 DEF Empty
  <1>4. QED
    BY <1>1, <1>2, <1>3

LEMMA QueuedChanges ==
    ASSUME queue \in [Lane -> Seq(Frame)], NEW lane \in Lane, NEW d \in Int,
           Len(queue'[lane]) = Len(queue[lane]) + d,
           \A l \in Lane \ {lane} : Len(queue'[l]) = Len(queue[l])
    PROVE  Queued' = Queued + d
  <1>1. ASSUME NEW x \in Nat, NEW y \in Nat, NEW z \in Nat
        PROVE  /\ (x + d) + y + z = x + y + z + d
               /\ x + (y + d) + z = x + y + z + d
               /\ x + y + (z + d) = x + y + z + d
    OBVIOUS
  <1>2. /\ Len(queue["trades"]) \in Nat /\ Len(queue["rejected"]) \in Nat
        /\ Len(queue["malformed"]) \in Nat
    BY QueuedFacts DEF Lane
  <1>3. CASE lane = "trades"
    <2>1. /\ Len(queue'["trades"]) = Len(queue["trades"]) + d
          /\ Len(queue'["rejected"]) = Len(queue["rejected"])
          /\ Len(queue'["malformed"]) = Len(queue["malformed"])
      BY <1>3 DEF Lane
    <2>2. Queued' = (Len(queue["trades"]) + d) + Len(queue["rejected"]) + Len(queue["malformed"])
      BY <2>1, Zenon DEF Queued
    <2>3. QED
      BY <1>1, <1>2, <2>2 DEF Queued
  <1>4. CASE lane = "rejected"
    <2>1. /\ Len(queue'["trades"]) = Len(queue["trades"])
          /\ Len(queue'["rejected"]) = Len(queue["rejected"]) + d
          /\ Len(queue'["malformed"]) = Len(queue["malformed"])
      BY <1>4 DEF Lane
    <2>2. Queued' = Len(queue["trades"]) + (Len(queue["rejected"]) + d) + Len(queue["malformed"])
      BY <2>1, Zenon DEF Queued
    <2>3. QED
      BY <1>1, <1>2, <2>2 DEF Queued
  <1>5. CASE lane = "malformed"
    <2>1. /\ Len(queue'["trades"]) = Len(queue["trades"])
          /\ Len(queue'["rejected"]) = Len(queue["rejected"])
          /\ Len(queue'["malformed"]) = Len(queue["malformed"]) + d
      BY <1>5 DEF Lane
    <2>2. Queued' = Len(queue["trades"]) + Len(queue["rejected"]) + (Len(queue["malformed"]) + d)
      BY <2>1, Zenon DEF Queued
    <2>3. QED
      BY <1>1, <1>2, <2>2 DEF Queued
  <1>6. QED
    BY <1>3, <1>4, <1>5 DEF Lane

LEMMA EmptyFacts ==
    /\ Empty \in [Lane -> Seq(Frame)]
    /\ \A l \in Lane : Len(Empty[l]) = 0
  BY EmptySeq DEF Empty

LEMMA HandleQueues ==
    ASSUME TypeOK, NEW kind \in Kind, Handle(kind)
    PROVE  /\ Len(kinds) + 1 \in Frame
           /\ kinds' \in Seq(Kind) /\ Len(kinds') = Len(kinds) + 1
           /\ LaneOf[kind] \in Lane
           /\ queue' = [queue EXCEPT ![LaneOf[kind]] =
                            Append(queue[LaneOf[kind]], Len(kinds) + 1)]
  <1>1. /\ kinds \in Seq(Kind) /\ Len(kinds) \in Nat /\ Len(kinds) < MaxReceived
        /\ kinds' = Append(kinds, kind)
    BY LenProperties DEF TypeOK, Handle, Receive
  <1>2. Len(kinds) + 1 \in Frame
    BY <1>1, SizesAssumption DEF Frame
  <1>3. kinds' \in Seq(Kind) /\ Len(kinds') = Len(kinds) + 1
    BY <1>1, AppendProperties
  <1>4. LaneOf[kind] \in Lane
    BY LaneOfKind DEF Handle
  <1>5. QED
    BY <1>2, <1>3, <1>4 DEF Handle

LEMMA TypeInit == Init => TypeOK
  <1> SUFFICES ASSUME Init
               PROVE  TypeOK
    OBVIOUS
  <1>1. /\ kinds \in Seq(Kind) /\ Len(kinds) = 0
    BY EmptySeq DEF Init
  <1>2. Queued = 0
    BY EmptyFacts DEF Init, Queued, Lane
  <1>3. Queued <= QueueMax /\ Len(kinds) <= MaxReceived
    BY <1>1, <1>2, SizesAssumption
  <1>4. queue \in [Lane -> Seq(Frame)] /\ delivered \in [Lane -> Seq(Frame)]
    BY EmptyFacts DEF Init
  <1>5. QED
    BY <1>1, <1>3, <1>4 DEF Init, TypeOK

LEMMA TypeStep == TypeOK /\ [Next]_vars => TypeOK'
  <1> SUFFICES ASSUME TypeOK, [Next]_vars
               PROVE  TypeOK'
    OBVIOUS
  <1> USE DEF TypeOK
  <1>1. CASE Connect \/ Disconnect \/ EndSleep \/ FlushCompletes \/ Cancel \/ Restart
    BY <1>1 DEF Connect, Disconnect, EndSleep, FlushCompletes, Cancel, Restart, Queued
  <1>2. ASSUME NEW kind \in Kind, Handle(kind)
        PROVE  TypeOK'
    <2> DEFINE lane == LaneOf[kind]
               longer == Append(queue[lane], Len(kinds) + 1)
    <2>1. /\ Len(kinds) + 1 \in Frame
          /\ kinds' \in Seq(Kind) /\ Len(kinds') = Len(kinds) + 1 /\ Len(kinds) < MaxReceived
          /\ lane \in Lane /\ queue[lane] \in Seq(Frame)
          /\ queue' = [queue EXCEPT ![lane] = longer]
      BY <1>2, HandleQueues DEF Handle, Receive
    <2>2. longer \in Seq(Frame) /\ Len(longer) = Len(queue[lane]) + 1
      BY <2>1, AppendProperties
    <2>3. queue' \in [Lane -> Seq(Frame)]
      BY <2>1, <2>2
    <2>4. /\ Len(queue'[lane]) = Len(queue[lane]) + 1
          /\ \A l \in Lane \ {lane} : queue'[l] = queue[l]
      BY <2>1, <2>2
    <2>5. Queued' = Queued + 1
      BY <2>1, <2>4, QueuedChanges
    <2>6. Queued \in Nat /\ Queued < QueueMax /\ QueueMax \in Nat
      BY <1>2, QueuedFacts, SizesAssumption DEF Handle
    <2>7. Queued' <= QueueMax
      BY <2>5, <2>6
    <2>8. Len(kinds') <= MaxReceived
      BY <2>1, LenProperties, SizesAssumption
    <2>9. UNCHANGED <<pc, delivered, mishap>>
      BY <1>2 DEF Handle
    <2>10. QED
      BY <2>1, <2>3, <2>7, <2>8, <2>9
  <1>3. ASSUME NEW kind \in Kind, HandleRaises(kind)
        PROVE  TypeOK'
    <2>1. kinds' \in Seq(Kind) /\ Len(kinds') = Len(kinds) + 1 /\ Len(kinds) < MaxReceived
      BY <1>3, AppendProperties DEF HandleRaises, Receive
    <2>2. Len(kinds') <= MaxReceived
      BY <2>1, LenProperties, SizesAssumption
    <2>3. QED
      BY <1>3, <2>1, <2>2 DEF HandleRaises, Queued
  <1>4. CASE FlushTimesOut \/ Kill
    <2>1. queue' = queue \/ queue' = Empty
      BY <1>4 DEF FlushTimesOut, Kill
    <2>2. queue' \in [Lane -> Seq(Frame)] /\ Queued' <= QueueMax
      <3>1. CASE queue' = queue
        BY <3>1 DEF Queued
      <3>2. CASE queue' = Empty
        <4>1. Queued' = 0
          BY <3>2, EmptyFacts DEF Queued, Lane
        <4>2. QED
          BY <3>2, <4>1, EmptyFacts, SizesAssumption
      <3>3. QED
        BY <2>1, <3>1, <3>2
    <2>3. mishap' \in BOOLEAN
      BY <1>4 DEF FlushTimesOut, Kill
    <2>4. QED
      BY <1>4, <2>2, <2>3 DEF FlushTimesOut, Kill
  <1>5. ASSUME NEW l \in Lane, Send(l) \/ Drop(l)
        PROVE  TypeOK'
    <2>1. /\ queue[l] \in Seq(Frame) /\ queue[l] # <<>>
          /\ queue' = [queue EXCEPT ![l] = Tail(queue[l])]
      BY <1>5 DEF Send, Drop
    <2>2. /\ Head(queue[l]) \in Frame
          /\ Tail(queue[l]) \in Seq(Frame) /\ Len(Tail(queue[l])) = Len(queue[l]) - 1
      BY <2>1, HeadTailProperties
    <2>3. queue' \in [Lane -> Seq(Frame)]
      BY <2>1, <2>2
    <2>4. /\ Len(queue'[l]) = Len(queue[l]) - 1
          /\ \A m \in Lane \ {l} : queue'[m] = queue[m]
      BY <2>1, <2>2
    <2>5. Queued' = Queued - 1
      <3>1. PICK d \in Int : d = -1
        OBVIOUS
      <3>2. Len(queue'[l]) = Len(queue[l]) + d
        <4>1. \A x \in Nat : x - 1 = x + d
          BY <3>1
        <4>2. Len(queue[l]) \in Nat
          BY QueuedFacts
        <4>3. QED
          BY <2>4, <4>1, <4>2
      <3>3. Queued' = Queued + d
        BY <2>4, <3>2, QueuedChanges
      <3>4. QED
        BY <3>1, <3>3, QueuedFacts
    <2>6. Queued' <= QueueMax
      BY <2>5, QueuedFacts, SizesAssumption
    <2>7. delivered' \in [Lane -> Seq(Frame)]
      <3>1. CASE Send(l)
        <4>1. Append(delivered[l], Head(queue[l])) \in Seq(Frame)
          BY <2>2, AppendProperties
        <4>2. QED
          BY <3>1, <4>1 DEF Send
      <3>2. CASE Drop(l)
        BY <3>2 DEF Drop
      <3>3. QED
        BY <1>5, <3>1, <3>2
    <2>8. mishap' \in BOOLEAN /\ UNCHANGED <<pc, kinds>>
      BY <1>5 DEF Send, Drop
    <2>9. QED
      BY <2>3, <2>6, <2>7, <2>8
  <1>6. CASE UNCHANGED vars
    BY <1>6 DEF vars, Queued
  <1>7. QED
    BY <1>1, <1>2, <1>3, <1>4, <1>5, <1>6 DEF Next

(* Types, and librdkafka's queue never holds more than it may, whatever    *)
(* arrives while Kafka does not answer.                                    *)
THEOREM TypeCorrect == Spec => []TypeOK
  BY TypeInit, TypeStep, PTL DEF Spec

-----------------------------------------------------------------------------
(***************************************************************************)
(* What a step can do to the lanes                                         *)
(***************************************************************************)
LanesStay ==
    /\ UNCHANGED <<kinds, mishap>>
    /\ \A l \in Lane : InLane(l)' = InLane(l)

\* A frame is handled: its lane grows by it.
LaneGrows(kind) ==
    /\ UNCHANGED mishap
    /\ kinds' = Append(kinds, kind)
    /\ \A l \in Lane : InLane(l)' = IF l = LaneOf[kind]
                                     THEN Append(InLane(l), Len(kinds) + 1) ELSE InLane(l)

\* A frame that is handled raises, or records are lost.
LanesLose ==
    /\ mishap'
    /\ UNCHANGED kinds \/ \E kind \in Kind : kinds' = Append(kinds, kind)
    /\ \A l \in Lane : Thinned(InLane(l)', InLane(l))

LEMMA LaneStep ==
    TypeOK /\ [Next]_vars =>
        \/ LanesStay
        \/ \E kind \in Kind \ {"raising"} : LaneGrows(kind)
        \/ LanesLose
  <1> SUFFICES ASSUME TypeOK, [Next]_vars
               PROVE  \/ LanesStay
                      \/ \E kind \in Kind \ {"raising"} : LaneGrows(kind)
                      \/ LanesLose
    OBVIOUS
  <1>0. \A l \in Lane : delivered[l] \in Seq(Frame) /\ queue[l] \in Seq(Frame)
    BY DEF TypeOK
  <1>1. CASE Connect \/ Disconnect \/ EndSleep \/ FlushCompletes \/ Cancel \/ Restart
    BY <1>1 DEF Connect, Disconnect, EndSleep, FlushCompletes, Cancel, Restart,
                LanesStay, InLane
  <1>2. ASSUME NEW kind \in Kind, Handle(kind)
        PROVE  LaneGrows(kind) /\ kind # "raising"
    <2>1. /\ Len(kinds) + 1 \in Frame /\ LaneOf[kind] \in Lane
          /\ queue' = [queue EXCEPT ![LaneOf[kind]] =
                            Append(queue[LaneOf[kind]], Len(kinds) + 1)]
      BY <1>2, HandleQueues
    <2>2. UNCHANGED <<delivered, mishap>> /\ kinds' = Append(kinds, kind)
      BY <1>2 DEF Handle, Receive
    <2>3. ASSUME NEW l \in Lane
          PROVE  InLane(l)' = IF l = LaneOf[kind] THEN Append(InLane(l), Len(kinds) + 1)
                              ELSE InLane(l)
      <3>1. CASE l = LaneOf[kind]
        <4>1. queue'[l] = Append(queue[l], Len(kinds) + 1)
          BY <2>1, <3>1 DEF TypeOK
        <4>2. delivered[l] \o Append(queue[l], Len(kinds) + 1)
                  = Append(delivered[l] \o queue[l], Len(kinds) + 1)
          BY <1>0, <2>1, LaneOfQueued
        <4>3. QED
          BY <2>2, <3>1, <4>1, <4>2 DEF InLane
      <3>2. CASE l # LaneOf[kind]
        <4>1. queue'[l] = queue[l]
          BY <2>1, <3>2 DEF TypeOK
        <4>2. QED
          BY <2>2, <3>2, <4>1 DEF InLane
      <3>3. QED
        BY <3>1, <3>2
    <2>4. kind # "raising"
      BY <1>2 DEF Handle
    <2>5. QED
      BY <2>2, <2>3, <2>4 DEF LaneGrows
  <1>3. ASSUME NEW kind \in Kind, HandleRaises(kind)
        PROVE  LanesLose
    <2>1. \A l \in Lane : InLane(l)' = InLane(l)
      BY <1>3 DEF HandleRaises, InLane
    <2>2. \A l \in Lane : Thinned(InLane(l)', InLane(l))
      BY <2>1, ThinnedSame
    <2>3. mishap' /\ kinds' = Append(kinds, kind)
      BY <1>3 DEF HandleRaises, Receive
    <2>4. QED
      BY <2>2, <2>3 DEF LanesLose
  <1>4. ASSUME queue' = Empty, UNCHANGED <<kinds, delivered>>, mishap'
        PROVE  LanesLose
    <2>1. ASSUME NEW l \in Lane
          PROVE  Thinned(InLane(l)', InLane(l))
      <3>1. InLane(l)' = delivered[l]
        <4>1. queue'[l] = <<>>
          BY <1>4 DEF Empty
        <4>2. delivered[l] \o <<>> = delivered[l]
          BY <1>0, ConcatEmptySeq
        <4>3. QED
          BY <1>4, <4>1, <4>2 DEF InLane
      <3>2. QED
        BY <1>0, <3>1, ThinnedToPrefix DEF InLane
    <2>2. QED
      BY <1>4, <2>1 DEF LanesLose
  <1>5. CASE FlushTimesOut
    <2>1. CASE pc = "flushing"
      BY <1>5, <2>1 DEF FlushTimesOut, LanesStay, InLane
    <2>2. CASE pc = "closing"
      <3>1. queue' = Empty /\ UNCHANGED <<kinds, delivered>> /\ mishap'
        BY <1>5, <2>2 DEF FlushTimesOut
      <3>2. QED
        BY <1>4, <3>1
    <2>3. QED
      BY <1>5, <2>1, <2>2 DEF FlushTimesOut
  <1>6. CASE Kill
    <2>1. queue' = Empty /\ UNCHANGED <<kinds, delivered>>
      BY <1>6 DEF Kill
    <2>2. CASE mishap'
      BY <1>4, <2>1, <2>2
    <2>3. CASE ~mishap'
      <3>1. ~mishap /\ ~(Queued > 0)
        BY <1>6, <2>3 DEF Kill
      <3>2. Queued = 0 /\ queue = Empty
        <4>1. Queued \in Nat /\ (Queued = 0 => queue = Empty)
          BY QueuedFacts DEF TypeOK
        <4>2. QED
          BY <3>1, <4>1
      <3>3. UNCHANGED queue
        BY <2>1, <3>2
      <3>4. mishap = FALSE /\ mishap' = FALSE
        <4>1. mishap \in BOOLEAN /\ mishap' \in BOOLEAN
          BY <1>6 DEF Kill, TypeOK
        <4>2. QED
          BY <2>3, <3>1, <4>1
      <3>5. QED
        BY <2>1, <3>3, <3>4 DEF LanesStay, InLane
    <2>4. QED
      BY <2>2, <2>3
  <1>7. ASSUME NEW l \in Lane, Send(l)
        PROVE  LanesStay
    <2>1. /\ queue[l] # <<>> /\ UNCHANGED <<kinds, mishap>>
          /\ queue' = [queue EXCEPT ![l] = Tail(queue[l])]
          /\ delivered' = [delivered EXCEPT ![l] = Append(delivered[l], Head(queue[l]))]
      BY <1>7 DEF Send
    <2>2. InLane(l)' = InLane(l)
      <3>1. queue'[l] = Tail(queue[l]) /\ delivered'[l] = Append(delivered[l], Head(queue[l]))
        BY <2>1 DEF TypeOK
      <3>2. Append(delivered[l], Head(queue[l])) \o Tail(queue[l]) = delivered[l] \o queue[l]
        BY <1>0, <2>1, LaneOfSent
      <3>3. QED
        BY <3>1, <3>2 DEF InLane
    <2>3. \A m \in Lane \ {l} : InLane(m)' = InLane(m)
      BY <2>1 DEF InLane, TypeOK
    <2>4. QED
      BY <2>1, <2>2, <2>3 DEF LanesStay
  <1>8. ASSUME NEW l \in Lane, Drop(l)
        PROVE  LanesLose
    <2>1. /\ queue[l] # <<>> /\ UNCHANGED <<kinds, delivered>> /\ mishap'
          /\ queue' = [queue EXCEPT ![l] = Tail(queue[l])]
      BY <1>8 DEF Drop
    <2>2. Thinned(InLane(l)', InLane(l))
      <3>1. queue'[l] = Tail(queue[l])
        BY <2>1 DEF TypeOK
      <3>2. Thinned(delivered[l] \o Tail(queue[l]), delivered[l] \o queue[l])
        BY <1>0, <2>1, ThinnedByHead
      <3>3. QED
        BY <2>1, <3>1, <3>2 DEF InLane
    <2>3. ASSUME NEW m \in Lane \ {l}
          PROVE  Thinned(InLane(m)', InLane(m))
      <3>1. InLane(m)' = InLane(m)
        BY <2>1 DEF InLane, TypeOK
      <3>2. QED
        BY <3>1, ThinnedSame
    <2>4. QED
      BY <2>1, <2>2, <2>3 DEF LanesLose
  <1>9. CASE UNCHANGED vars
    BY <1>9 DEF vars, LanesStay, InLane
  <1>10. QED
    BY <1>1, <1>2, <1>3, <1>5, <1>6, <1>7, <1>8, <1>9 DEF Next

-----------------------------------------------------------------------------
(***************************************************************************)
(* Order, verdicts and losses                                              *)
(***************************************************************************)
\* Every record of a lane is a frame that was received and belongs there.
Judged(l) ==
    \A i \in DOMAIN InLane(l) :
        LET f == InLane(l)[i] IN
        f \in DOMAIN kinds /\ kinds[f] # "raising" /\ LaneOf[kinds[f]] = l

LaneInv == \A l \in Lane : Ascending(InLane(l)) /\ Judged(l)

LEMMA LaneTypes ==
    ASSUME TypeOK
    PROVE  /\ kinds \in Seq(Kind) /\ Len(kinds) \in Nat /\ DOMAIN kinds = 1..Len(kinds)
           /\ \A l \in Lane : InLane(l) \in Seq(Frame)
  <1>1. kinds \in Seq(Kind) /\ Len(kinds) \in Nat /\ DOMAIN kinds = 1..Len(kinds)
    BY LenProperties DEF TypeOK
  <1>2. ASSUME NEW l \in Lane
        PROVE  InLane(l) \in Seq(Frame)
    <2>1. delivered[l] \in Seq(Frame) /\ queue[l] \in Seq(Frame)
      BY DEF TypeOK
    <2>2. QED
      BY <2>1, ConcatProperties DEF InLane
  <1>3. QED
    BY <1>1, <1>2

LEMMA KindsKept ==
    ASSUME TypeOK, UNCHANGED kinds \/ \E kind \in Kind : kinds' = Append(kinds, kind)
    PROVE  \A f \in DOMAIN kinds : f \in DOMAIN kinds' /\ kinds'[f] = kinds[f]
  <1>1. CASE UNCHANGED kinds
    BY <1>1
  <1>2. ASSUME NEW kind \in Kind, kinds' = Append(kinds, kind)
        PROVE  \A f \in DOMAIN kinds : f \in DOMAIN kinds' /\ kinds'[f] = kinds[f]
    <2>1. /\ kinds' \in Seq(Kind) /\ Len(kinds') = Len(kinds) + 1
          /\ \A f \in 1..Len(kinds) : kinds'[f] = kinds[f]
      <3>1. kinds \in Seq(Kind)
        BY DEF TypeOK
      <3>2. /\ Append(kinds, kind) \in Seq(Kind) /\ Len(Append(kinds, kind)) = Len(kinds) + 1
            /\ \A f \in 1..Len(kinds) : Append(kinds, kind)[f] = kinds[f]
        BY <3>1, AppendProperties
      <3>3. QED
        BY <1>2, <3>2
    <2>2. DOMAIN kinds' = 1..Len(kinds) + 1
      BY <2>1, LenProperties
    <2>3. QED
      BY <2>1, <2>2, LaneTypes
  <1>3. QED
    BY <1>1, <1>2

LEMMA LaneInvInit == Init => LaneInv
  <1> SUFFICES ASSUME Init, NEW l \in Lane
               PROVE  Ascending(InLane(l)) /\ Judged(l)
    BY DEF LaneInv
  <1>1. InLane(l) = <<>>
    <2>1. delivered[l] = <<>> /\ queue[l] = <<>>
      BY DEF Init, Empty
    <2>2. <<>> \o <<>> = <<>>
      BY ConcatEmptySeq, EmptySeq
    <2>3. QED
      BY <2>1, <2>2 DEF InLane
  <1>2. DOMAIN InLane(l) = {}
    BY <1>1
  <1>3. QED
    BY <1>2 DEF Ascending, Judged

LEMMA LaneInvStep == LaneInv /\ TypeOK /\ [Next]_vars => LaneInv'
  <1> SUFFICES ASSUME LaneInv, TypeOK, [Next]_vars, NEW l \in Lane
               PROVE  Ascending(InLane(l))' /\ Judged(l)'
    BY DEF LaneInv
  <1>1. Ascending(InLane(l)) /\ Judged(l)
    BY DEF LaneInv
  <1>2. CASE LanesStay
    <2>1. InLane(l)' = InLane(l) /\ UNCHANGED kinds
      BY <1>2 DEF LanesStay
    <2>2. QED
      BY <1>1, <2>1 DEF Ascending, Judged
  <1>3. ASSUME NEW kind \in Kind, kind # "raising", LaneGrows(kind)
        PROVE  Ascending(InLane(l))' /\ Judged(l)'
    <2> DEFINE s == InLane(l)
               n == Len(s)
               new == Len(kinds) + 1
    <2>1. /\ s \in Seq(Frame) /\ n \in Nat /\ DOMAIN s = 1..n
          /\ new \in Nat
      BY LaneTypes, LenProperties
    <2>2. \A f \in DOMAIN kinds : f \in DOMAIN kinds' /\ kinds'[f] = kinds[f]
      BY <1>3, KindsKept DEF LaneGrows
    <2>3. CASE l # LaneOf[kind]
      <3>1. InLane(l)' = s
        BY <1>3, <2>3 DEF LaneGrows
      <3>2. QED
        BY <1>1, <2>2, <3>1 DEF Ascending, Judged
    <2>4. CASE l = LaneOf[kind]
      <3>1. InLane(l)' = Append(s, new)
        BY <1>3, <2>4 DEF LaneGrows
      <3>2. new \in DOMAIN kinds' /\ kinds'[new] = kind
        <4>1. /\ Append(kinds, kind) \in Seq(Kind) /\ Len(Append(kinds, kind)) = new
              /\ Append(kinds, kind)[new] = kind
          BY LaneTypes, AppendProperties
        <4>2. DOMAIN Append(kinds, kind) = 1..new
          BY <4>1, LenProperties
        <4>3. QED
          BY <1>3, <2>1, <4>1, <4>2, LaneTypes DEF LaneGrows
      <3>3. PICK t : t = Append(s, new)
        OBVIOUS
      <3>4. /\ DOMAIN t = 1..n + 1
            /\ \A i \in 1..n : t[i] = s[i]
            /\ t[n + 1] = new
        BY <2>1, <3>3
      <3>5. \A i \in 1..n : s[i] \in 1..Len(kinds)
        BY <1>1, <2>1, LaneTypes DEF Judged
      <3>6. Ascending(t)
        <4> SUFFICES ASSUME NEW i \in 1..n + 1, NEW j \in 1..n + 1, i < j
                     PROVE  t[i] < t[j]
          BY <3>4 DEF Ascending
        <4>1. i \in 1..n
          BY <2>1
        <4>2. CASE j = n + 1
          <5>1. s[i] \in 1..Len(kinds)
            BY <3>5, <4>1
          <5>2. QED
            BY <3>4, <4>1, <4>2, <5>1, LaneTypes
        <4>3. CASE j # n + 1
          <5>1. j \in 1..n
            BY <2>1, <4>3
          <5>2. QED
            BY <1>1, <2>1, <3>4, <4>1, <5>1 DEF Ascending
        <4>4. QED
          BY <4>2, <4>3
      <3>7. ASSUME NEW i \in 1..n + 1
            PROVE  /\ t[i] \in DOMAIN kinds' /\ kinds'[t[i]] # "raising"
                   /\ LaneOf[kinds'[t[i]]] = l
        <4>1. CASE i = n + 1
          BY <1>3, <2>4, <3>2, <3>4, <4>1
        <4>2. CASE i # n + 1
          <5>1. i \in 1..n
            BY <2>1, <4>2
          <5>2. QED
            BY <1>1, <2>1, <2>2, <3>4, <5>1 DEF Judged
        <4>3. QED
          BY <4>1, <4>2
      <3>8. QED
        BY <3>1, <3>3, <3>4, <3>6, <3>7 DEF Judged, Ascending
    <2>5. QED
      BY <2>3, <2>4
  <1>4. CASE LanesLose
    <2>1. \A f \in DOMAIN kinds : f \in DOMAIN kinds' /\ kinds'[f] = kinds[f]
      BY <1>4, KindsKept DEF LanesLose
    <2>2. PICK s, t : s = InLane(l) /\ t = InLane(l)'
      OBVIOUS
    <2>3. PICK f \in [DOMAIN t -> DOMAIN s] :
              /\ \A i, j \in DOMAIN t : i < j => f[i] < f[j]
              /\ \A i \in DOMAIN t : t[i] = s[f[i]]
      BY <1>4, <2>2 DEF LanesLose, Thinned
    <2>4. \A i, j \in DOMAIN t : i < j => t[i] < t[j]
      BY <1>1, <2>2, <2>3 DEF Ascending
    <2>5. \A i \in DOMAIN t : /\ t[i] \in DOMAIN kinds' /\ kinds'[t[i]] # "raising"
                             /\ LaneOf[kinds'[t[i]]] = l
      BY <1>1, <2>1, <2>2, <2>3 DEF Judged
    <2>6. QED
      BY <2>2, <2>4, <2>5 DEF Ascending, Judged
  <1>5. QED
    BY <1>2, <1>3, <1>4, LaneStep

(* Each record reaches Kafka once, in the lane its verdict calls for, and  *)
(* in the order of the exchange, whatever is retried, dropped or lost.     *)
THEOREM LanesKeepOrder == Spec => []LanesInOrder
  <1>1. LaneInv => LanesInOrder
    BY DEF LaneInv, LanesInOrder, Ascending, Judged
  <1>2. QED
    BY <1>1, TypeInit, TypeStep, LaneInvInit, LaneInvStep, PTL DEF Spec

\* Frame f is on its way to Kafka or there.
Underway(f) == \E l \in Lane : \E i \in DOMAIN InLane(l) : InLane(l)[i] = f

LEMMA LossStep == OnlyMishapsLose /\ TypeOK /\ [Next]_vars => OnlyMishapsLose'
  <1> SUFFICES ASSUME OnlyMishapsLose, TypeOK, [Next]_vars, ~mishap', NEW f \in DOMAIN kinds'
               PROVE  Underway(f)'
    BY DEF OnlyMishapsLose, Underway
  <1>1. CASE LanesStay
    <2>1. f \in DOMAIN kinds /\ ~mishap
      BY <1>1 DEF LanesStay
    <2>2. Underway(f)
      BY <2>1 DEF OnlyMishapsLose, Underway
    <2>3. QED
      BY <1>1, <2>2 DEF LanesStay, Underway
  <1>2. ASSUME NEW kind \in Kind, kind # "raising", LaneGrows(kind)
        PROVE  Underway(f)'
    <2> DEFINE new == Len(kinds) + 1
    <2>1. DOMAIN kinds' = 1..new /\ DOMAIN kinds = 1..Len(kinds) /\ Len(kinds) \in Nat
      <3>1. Append(kinds, kind) \in Seq(Kind) /\ Len(Append(kinds, kind)) = new
        BY LaneTypes, AppendProperties
      <3>2. DOMAIN Append(kinds, kind) = 1..new
        BY <3>1, LenProperties
      <3>3. QED
        BY <1>2, <3>2, LaneTypes DEF LaneGrows
    <2>2. ASSUME NEW l \in Lane
          PROVE  /\ \A i \in DOMAIN InLane(l) :
                        i \in DOMAIN InLane(l)' /\ InLane(l)'[i] = InLane(l)[i]
                 /\ l = LaneOf[kind] => \E i \in DOMAIN InLane(l)' : InLane(l)'[i] = new
      <3>1. PICK s, t : s = InLane(l) /\ t = InLane(l)'
        OBVIOUS
      <3>2. s \in Seq(Frame)
        BY <3>1, LaneTypes
      <3>3. t = IF l = LaneOf[kind] THEN Append(s, new) ELSE s
        BY <1>2, <3>1 DEF LaneGrows
      <3>4. \A i \in DOMAIN s : i \in DOMAIN t /\ t[i] = s[i]
        BY <3>2, <3>3
      <3>5. l = LaneOf[kind] => Len(s) + 1 \in DOMAIN t /\ t[Len(s) + 1] = new
        BY <3>2, <3>3
      <3>6. QED
        BY <3>1, <3>4, <3>5
    <2>3. CASE f = new
      <3>1. LaneOf[kind] \in Lane
        BY <1>2, LaneOfKind
      <3>2. PICK i \in DOMAIN InLane(LaneOf[kind])' : InLane(LaneOf[kind])'[i] = new
        BY <2>2, <3>1
      <3>3. QED
        BY <2>3, <3>1, <3>2 DEF Underway
    <2>4. CASE f # new
      <3>1. f \in DOMAIN kinds /\ ~mishap
        BY <1>2, <2>1, <2>4 DEF LaneGrows
      <3>2. PICK l \in Lane : \E i \in DOMAIN InLane(l) : InLane(l)[i] = f
        BY <3>1 DEF OnlyMishapsLose
      <3>3. QED
        BY <2>2, <3>2 DEF Underway
    <2>5. QED
      BY <2>3, <2>4
  <1>3. QED
    BY <1>1, <1>2, LaneStep DEF LanesLose

(* Disconnections, backoffs, flushes that time out and clean shutdowns     *)
(* lose nothing that was received.                                         *)
THEOREM MishapsAloneLose == Spec => []OnlyMishapsLose
  <1>1. Init => OnlyMishapsLose
    BY DEF Init, OnlyMishapsLose
  <1>2. QED
    BY <1>1, TypeInit, TypeStep, LossStep, PTL DEF Spec
=============================================================================
