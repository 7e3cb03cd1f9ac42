--------------------------- MODULE BackfillProofs ---------------------------
(***************************************************************************)
(* What the gap fill fetches and leaves in the archive, for any page size, *)
(* look-back, delay, trades, retries and failures.                         *)
(***************************************************************************)
EXTENDS Backfill, FiniteSetTheorems, WellFoundedInduction, TLAPS

(***************************************************************************)
(* Sets of trades have a first and a last member.                          *)
(***************************************************************************)
LEMMA FirstExists ==
    ASSUME NEW P \in SUBSET Nat, P # {}
    PROVE  \E k \in P : \A j \in P : k <= j
  <1>1. PICK k \in P : \A j \in P : <<j, k>> \notin OpToRel(<, Nat)
    BY WFMin, NatLessThanWellFounded, Zenon
  <1>2. \A j \in P : ~(j < k)
    BY <1>1 DEF OpToRel
  <1>3. QED
    BY <1>2

LEMMA LastFacts ==
    ASSUME NEW n \in Nat, NEW P \in SUBSET (1..n), P # {}
    PROVE  LastOf(P) \in P /\ \A j \in P : j <= LastOf(P)
  <1> DEFINE Q == {n - j : j \in P}
  <1>1. Q \in SUBSET Nat /\ Q # {}
    <2>1. \A j \in 1..n : n - j \in Nat
      OBVIOUS
    <2>2. PICK j \in P : TRUE
      OBVIOUS
    <2>3. n - j \in Q
      BY <2>2
    <2>4. QED
      BY <2>1, <2>3
  <1>2. PICK q \in Q : \A j \in Q : q <= j
    BY <1>1, FirstExists
  <1>3. PICK k \in P : q = n - k
    OBVIOUS
  <1>4. \A j \in P : j <= k
    <2> TAKE j \in P
    <2>1. n - j \in Q
      OBVIOUS
    <2>2. n - k <= n - j
      BY <1>2, <1>3, <2>1
    <2>3. j \in Nat /\ k \in Nat
      OBVIOUS
    <2>4. QED
      BY <2>2, <2>3
  <1>5. QED
    BY <1>4 DEF LastOf

-----------------------------------------------------------------------------
(***************************************************************************)
(* The pages of the exchange                                               *)
(***************************************************************************)
Found(start) == {k \in DOMAIN made : start <= made[k] /\ made[k] <= end}

Earlier(start, k) == {j \in Found(start) : j < k}

LEMMA PageDef ==
    \A start : Page(start) = {k \in Found(start) : Cardinality(Earlier(start, k)) < Limit}
  BY DEF Page, Found, Earlier

LEMMA FoundFacts ==
    ASSUME made \in Seq(Time), NEW start
    PROVE  /\ Found(start) \subseteq 1..Len(made)
           /\ IsFiniteSet(Found(start))
           /\ \A k : /\ IsFiniteSet(Earlier(start, k))
                    /\ Cardinality(Earlier(start, k)) \in Nat
  <1>1. Found(start) \subseteq 1..Len(made) /\ Len(made) \in Nat
    BY DEF Found
  <1>2. IsFiniteSet(1..Len(made))
    BY <1>1, FS_Interval
  <1>3. IsFiniteSet(Found(start))
    BY <1>1, <1>2, FS_Subset
  <1>4. ASSUME NEW k
        PROVE  IsFiniteSet(Earlier(start, k)) /\ Cardinality(Earlier(start, k)) \in Nat
    <2>1. Earlier(start, k) \subseteq Found(start)
      BY DEF Earlier
    <2>2. IsFiniteSet(Earlier(start, k))
      BY <1>3, <2>1, FS_Subset
    <2>3. QED
      BY <2>2, FS_CardinalityType
  <1>5. QED
    BY <1>1, <1>3, <1>4

\* The later of two trades has more trades before it.
LEMMA EarlierGrows ==
    ASSUME made \in Seq(Time), NEW start, NEW j \in Found(start), NEW k \in Found(start), j < k
    PROVE  Cardinality(Earlier(start, j)) < Cardinality(Earlier(start, k))
  <1>1. Found(start) \subseteq Nat
    BY FoundFacts
  <1>2. Earlier(start, j) \subseteq Earlier(start, k)
    BY <1>1 DEF Earlier
  <1>3. j \in Earlier(start, k) /\ j \notin Earlier(start, j)
    BY <1>1 DEF Earlier
  <1>4. IsFiniteSet(Earlier(start, k))
    BY FoundFacts
  <1>5. QED
    BY <1>2, <1>3, <1>4, FS_Subset, FoundFacts

(***************************************************************************)
(* A page has at most Limit trades; it begins with the first one found and *)
(* leaves none out before its last; if it is not full there are no more.   *)
(***************************************************************************)
LEMMA PageFacts ==
    ASSUME made \in Seq(Time), NEW start
    PROVE  /\ Page(start) \subseteq Found(start)
           /\ IsFiniteSet(Page(start)) /\ Cardinality(Page(start)) \in 0..Limit
           /\ \A k \in Page(start), j \in Found(start) : j < k => j \in Page(start)
           /\ Cardinality(Page(start)) < Limit => Page(start) = Found(start)
  <1>1. Page(start) \subseteq Found(start) /\ Found(start) \subseteq 1..Len(made)
    BY PageDef, FoundFacts
  <1>2. IsFiniteSet(Page(start))
    BY <1>1, FoundFacts, FS_Subset
  <1>3. Cardinality(Page(start)) \in 0..Limit
    <2> DEFINE rank == [k \in Page(start) |-> Cardinality(Earlier(start, k))]
    <2>1. \A k \in Page(start) : rank[k] \in 0..Limit - 1
      BY PageDef, FoundFacts, BackfillAssumption
    <2>2. \A j, k \in Page(start) : j < k => rank[j] < rank[k]
      BY <1>1, EarlierGrows
    <2>3. \A j, k \in Page(start) : rank[j] = rank[k] => j = k
      <3> SUFFICES ASSUME NEW j \in Page(start), NEW k \in Page(start), rank[j] = rank[k]
                   PROVE  j = k
        OBVIOUS
      <3>1. j \in Nat /\ k \in Nat /\ rank[j] \in Nat
        BY <1>1, <2>1
      <3>2. ~(j < k) /\ ~(k < j)
        BY <2>1, <2>2, <3>1
      <3>3. QED
        BY <3>1, <3>2
    <2>4. rank \in Injection(Page(start), 0..Limit - 1)
      BY <2>1, <2>3 DEF Injection, IsInjective
    <2>5. IsFiniteSet(0..Limit - 1) /\ Cardinality(0..Limit - 1) = Limit
      BY FS_Interval, BackfillAssumption
    <2>6. Cardinality(Page(start)) <= Limit
      BY <2>4, <2>5, FS_Injection
    <2>7. QED
      BY <2>6, <1>2, FS_CardinalityType, BackfillAssumption
  <1>4. \A k \in Page(start), j \in Found(start) : j < k => j \in Page(start)
    <2> SUFFICES ASSUME NEW k \in Page(start), NEW j \in Found(start), j < k
                 PROVE  j \in Page(start)
      OBVIOUS
    <2>1. Cardinality(Earlier(start, j)) < Cardinality(Earlier(start, k))
      BY <1>1, EarlierGrows
    <2>2. Cardinality(Earlier(start, k)) < Limit
      BY PageDef
    <2>3. QED
      BY <2>1, <2>2, FoundFacts, PageDef, BackfillAssumption
  <1>5. ASSUME Cardinality(Page(start)) < Limit
        PROVE  Page(start) = Found(start)
    <2> DEFINE missing == Found(start) \ Page(start)
    <2> SUFFICES ASSUME missing # {}
                 PROVE  FALSE
      BY <1>1
    <2>1. missing \in SUBSET Nat
      BY <1>1
    <2>2. PICK k \in missing : \A j \in missing : k <= j
      BY <2>1, FirstExists
    <2>3. Earlier(start, k) \subseteq Page(start)
      <3> SUFFICES ASSUME NEW j \in Earlier(start, k)
                   PROVE  j \in Page(start)
        OBVIOUS
      <3>1. j \in Found(start) /\ j < k /\ j \in Nat /\ k \in Nat
        BY <1>1, <2>2 DEF Earlier
      <3>2. QED
        BY <3>1, <2>2
    <2>4. Cardinality(Earlier(start, k)) <= Cardinality(Page(start))
      BY <2>3, <1>2, FS_Subset
    <2>5. Cardinality(Earlier(start, k)) < Limit
      BY <2>4, <1>5, <1>3, FoundFacts, BackfillAssumption
    <2>6. QED
      BY <2>5, <2>2, PageDef
  <1>6. QED
    BY <1>1, <1>2, <1>3, <1>4, <1>5

-----------------------------------------------------------------------------
(***************************************************************************)
(* Types                                                                   *)
(***************************************************************************)
LEMMA AppendedFacts ==
    ASSUME NEW b \in Archive!Rows, NEW S
    PROVE  /\ Archive!Appended(b, S) \in Archive!Rows
           /\ \A r \in Row : b[r] > 0 => Archive!Appended(b, S)[r] > 0
           /\ \A r \in Row : r \in S => Archive!Appended(b, S)[r] > 0
  BY BackfillAssumption DEF Archive!Rows, Archive!Appended

LEMMA FetchedAreTrades ==
    ASSUME pages \in Seq(SUBSET Trade)
    PROVE  Fetched \in SUBSET Trade
  BY DEF Fetched

LEMMA WindowFacts ==
    ASSUME TypeOK
    PROVE  WindowStart \in Int
  BY BackfillAssumption DEF TypeOK, Time, WindowStart

\* A page that is not empty, and the trade the cursor is moved by.
LEMMA NextPage ==
    ASSUME TypeOK, NEW start \in Int, Page(start) # {}
    PROVE  /\ Page(start) \in SUBSET Trade /\ Page(start) \subseteq DOMAIN made
           /\ LastOf(Page(start)) \in Page(start)
           /\ \A k \in Page(start) : k <= LastOf(Page(start))
           /\ made[LastOf(Page(start))] \in Nat
           /\ start <= made[LastOf(Page(start))] /\ made[LastOf(Page(start))] <= end
  <1>1. made \in Seq(Time) /\ Len(made) \in Nat /\ Len(made) <= MaxTrades
    BY DEF TypeOK
  <1>2. Page(start) \subseteq Found(start) /\ Found(start) \subseteq 1..Len(made)
    BY <1>1, PageFacts, FoundFacts
  <1>3. Page(start) \in SUBSET (1..Len(made))
    BY <1>2
  <1>4. LastOf(Page(start)) \in Page(start) /\ \A k \in Page(start) : k <= LastOf(Page(start))
    BY <1>1, <1>3, LastFacts
  <1>5. LastOf(Page(start)) \in Found(start)
    BY <1>2, <1>4
  <1>6. start <= made[LastOf(Page(start))] /\ made[LastOf(Page(start))] <= end
    BY <1>5 DEF Found
  <1>7. made[LastOf(Page(start))] \in Nat
    <2>1. \A k \in 1..Len(made) : made[k] \in Time
      BY <1>1
    <2>2. Time \subseteq Nat
      BY BackfillAssumption DEF Time
    <2>3. QED
      BY <1>2, <1>5, <2>1, <2>2
  <1>8. Page(start) \in SUBSET Trade /\ Page(start) \subseteq DOMAIN made
    BY <1>1, <1>3, BackfillAssumption DEF Trade
  <1>9. QED
    BY <1>4, <1>6, <1>7, <1>8

LEMMA TypeInit == Init => TypeOK
  <1> SUFFICES ASSUME Init
               PROVE  TypeOK
    OBVIOUS
  <1>1. raw \in Archive!Rows
    BY BackfillAssumption DEF Init, Archive!ArchiveInit, Archive!NoRows, Archive!Rows
  <1>2. made \in Seq(Time) /\ Len(made) <= MaxTrades /\ pages \in Seq(SUBSET Trade)
    BY BackfillAssumption DEF Init
  <1>3. now \in Time /\ end \in Time /\ cursor \in Int /\ failures \in 0..Retries
    BY BackfillAssumption DEF Init, Time
  <1>4. cut \in BOOLEAN /\ lost \in SUBSET Nat /\ unwritten \in SUBSET (Trade \ Invalid)
    BY DEF Init
  <1>5. QED
    BY <1>1, <1>2, <1>3, <1>4, BackfillAssumption DEF Init, TypeOK

\* An attempt that ends leaves nothing behind, and the run goes on or is over.
LEMMA EndOfAttempt ==
    ASSUME TypeOK, ForgetAttempt
    PROVE  /\ end' \in Time /\ cursor' \in Int
           /\ pages' \in Seq(SUBSET Trade) /\ cut' \in BOOLEAN
           /\ NextRun => run' \in Nat /\ failures' \in 0..Retries
  <1>1. pages' \in Seq(SUBSET Trade)
    BY DEF ForgetAttempt
  <1>2. 0 \in Time /\ 0 \in Int /\ 0 \in 0..Retries
    BY BackfillAssumption DEF Time
  <1>3. NextRun => run' \in Nat /\ failures' \in 0..Retries
    BY <1>2 DEF NextRun, TypeOK
  <1>4. end' \in Time /\ cursor' \in Int
    BY <1>2 DEF ForgetAttempt
  <1>5. cut' \in BOOLEAN
    BY DEF ForgetAttempt
  <1>6. QED
    BY <1>1, <1>3, <1>4, <1>5

LEMMA TypeStep == TypeOK /\ [Next]_vars => TypeOK'
  <1> SUFFICES ASSUME TypeOK, [Next]_vars
               PROVE  TypeOK'
    OBVIOUS
  <1> USE BackfillAssumption DEF TypeOK, world, attempt, airflow
  <1>1. CASE MakeTrade
    <2>1. made' \in Seq(Time) /\ Len(made') <= MaxTrades
      BY <1>1 DEF MakeTrade, Time
    <2>2. QED
      BY <1>1, <2>1 DEF MakeTrade
  <1>2. ASSUME NEW k \in Trade, StreamArchives(k)
        PROVE  TypeOK'
    <2>1. raw' \in Archive!Rows
      BY <1>2, AppendedFacts DEF StreamArchives, Archive!AppendFile
    <2>2. QED
      BY <1>2, <2>1 DEF StreamArchives
  <1>3. CASE Tick
    <2>1. now' \in Time
      BY <1>3 DEF Tick, Time
    <2>2. QED
      BY <1>3, <2>1 DEF Tick
  <1>4. CASE Begin
    <2>1. end' \in Time /\ pages' \in Seq(SUBSET Trade)
      BY <1>4 DEF Begin
    <2>2. cursor' = end' - Lookback
      BY <1>4 DEF Begin, WindowStart
    <2>3. cursor' \in Int
      BY <2>1, <2>2 DEF Time
    <2>4. QED
      BY <1>4, <2>1, <2>3 DEF Begin
  <1>5. CASE FetchPage
    <2>1. cursor \in Int
      OBVIOUS
    <2>2. /\ Page(cursor) \in SUBSET Trade
          /\ made[LastOf(Page(cursor))] \in Nat /\ made[LastOf(Page(cursor))] <= end
      BY <1>5, <2>1, NextPage DEF FetchPage
    <2>3. pages' \in Seq(SUBSET Trade)
      BY <1>5, <2>2 DEF FetchPage
    <2>4. cursor' \in Int
      BY <1>5, <2>2 DEF FetchPage, Time
    <2>5. pc' \in {"fetch", "validate"}
      BY <1>5 DEF FetchPage
    <2>6. UNCHANGED <<now, made, raw, end, cut, unwritten, run, failures, lost, faults>>
      BY <1>5 DEF FetchPage
    <2>7. QED
      BY <2>3, <2>4, <2>5, <2>6
  <1>6. CASE EndFetch
    BY <1>6 DEF EndFetch
  <1>7. CASE AnswerIsNoList
    BY <1>7 DEF AnswerIsNoList
  <1>8. CASE Validate
    <2>1. unwritten' \in SUBSET (Trade \ Invalid)
      BY <1>8, FetchedAreTrades DEF Validate
    <2>2. QED
      BY <1>8, <2>1 DEF Validate
  <1>9. ASSUME NEW S \in SUBSET unwritten, AppendRaw(S)
        PROVE  TypeOK'
    <2>1. raw' \in Archive!Rows
      BY <1>9, AppendedFacts DEF AppendRaw, Archive!AppendFile
    <2>2. QED
      BY <1>9, <2>1 DEF AppendRaw
  <1>10. CASE RecordMetrics
    <2>1. ForgetAttempt /\ NextRun
      BY <1>10 DEF RecordMetrics
    <2>2. lost' \in SUBSET Nat
      BY <1>10 DEF RecordMetrics
    <2>3. UNCHANGED <<now, made, raw, unwritten, faults>> /\ pc' = "due"
      BY <1>10 DEF RecordMetrics
    <2>4. QED
      BY <2>1, <2>2, <2>3, EndOfAttempt
  <1>11. CASE Fail
    <2>1. ForgetAttempt /\ unwritten' = {} /\ pc' = "due"
      BY <1>11 DEF Fail
    <2>2. faults' \in 0..MaxFaults /\ UNCHANGED <<now, made, raw>>
      BY <1>11 DEF Fail
    <2>3. lost' \in SUBSET Nat /\ run' \in Nat /\ failures' \in 0..Retries
      <3>1. CASE failures < Retries /\ failures' = failures + 1 /\ UNCHANGED <<run, lost>>
        BY <3>1
      <3>2. CASE failures = Retries /\ NextRun /\ lost' = lost \cup {run}
        BY <2>1, <3>2, EndOfAttempt
      <3>3. QED
        BY <1>11, <3>1, <3>2 DEF Fail
    <2>4. QED
      BY <2>1, <2>2, <2>3, EndOfAttempt
  <1>12. CASE UNCHANGED vars
    BY <1>12 DEF vars
  <1>13. QED
    BY <1>1, <1>2, <1>3, <1>4, <1>5, <1>6, <1>7, <1>8, <1>9, <1>10, <1>11, <1>12
       DEF Next, Run

(* The clock, the archive and the variables of the task keep their types.  *)
THEOREM TypeCorrect == Spec => []TypeOK
  BY TypeInit, TypeStep, PTL DEF Spec

-----------------------------------------------------------------------------
(***************************************************************************)
(* The pages that are fetched                                              *)
(***************************************************************************)
\* The exchange numbers its trades in the order of their times, none of which is
\* in the future, and neither is the end of a window.
TradesOrdered ==
    /\ \A k \in DOMAIN made : made[k] \in Nat /\ made[k] <= now
    /\ \A j, k \in DOMAIN made : j < k => made[j] <= made[k]
    /\ end <= now

PagesOfTrades ==
    \A i \in DOMAIN pages : pages[i] # {} /\ pages[i] \subseteq DOMAIN made

NoPagesYet == pc = "due" => pages = <<>>

\* What is fetched lies behind the cursor.
CursorAhead ==
    pc = "fetch" => WindowStart <= cursor /\ \A k \in Fetched : made[k] < cursor

\* Behind the cursor only ties are missed.
Missed(k) == WindowStart <= made[k] /\ made[k] < end /\ k \notin Fetched

Cut(k) == \E i \in DOMAIN pages : CutBy(pages[i], k)

MissesBehindCursor ==
    pc = "fetch" =>
        \A k \in DOMAIN made : Missed(k) /\ made[k] < cursor => Cut(k)

FetchInv ==
    /\ TradesOrdered /\ PagesOfTrades /\ NoPagesYet
    /\ FetchedOnceInOrder /\ CursorAhead
    /\ MissesBehindCursor /\ FetchMissesOnlyTies

MissesOnlyTies ==
    pc \in {"validate", "append", "metrics"} =>
        \A k \in DOMAIN made : Missed(k) => Cut(k) \/ (cut /\ cursor <= made[k])

LEMMA MissesByName ==
    /\ FetchMissesOnlyTies <=> MissesOnlyTies
    /\ FetchMissesOnlyTies' <=> MissesOnlyTies'
  BY DEF FetchMissesOnlyTies, MissesOnlyTies, Missed, Cut

LEMMA FetchInit == Init => FetchInv
  BY DEF Init, FetchInv, TradesOrdered, PagesOfTrades, NoPagesYet, FetchedOnceInOrder,
         CursorAhead, MissesBehindCursor, FetchMissesOnlyTies, Fetched

\* An attempt that has ended keeps no pages.
LEMMA NoPages ==
    ASSUME FetchInv, TypeOK, UNCHANGED <<now, made>>, ForgetAttempt, pc' = "due"
    PROVE  FetchInv'
  <1>1. TradesOrdered'
    BY DEF FetchInv, TradesOrdered, TypeOK, Time, ForgetAttempt
  <1>2. Fetched' = {} /\ pages' = <<>>
    BY DEF Fetched, ForgetAttempt
  <1>3. QED
    BY <1>1, <1>2 DEF FetchInv, PagesOfTrades, NoPagesYet, FetchedOnceInOrder, CursorAhead,
                      MissesBehindCursor, FetchMissesOnlyTies

\* Steps that neither fetch nor end the attempt keep what is known of the pages.
LEMMA SamePages ==
    ASSUME FetchInv, UNCHANGED <<made, attempt>>, now' \in Nat, now <= now', TypeOK,
           pc' = "fetch" => pc = "fetch",
           pc' = "due" => pc = "due",
           pc' \in {"validate", "append", "metrics"} =>
               pc \in {"validate", "append", "metrics"}
    PROVE  FetchInv'
  <1>1. /\ UNCHANGED <<made, end, cursor, pages, cut>>
        /\ Fetched' = Fetched /\ WindowStart' = WindowStart
    BY DEF attempt, Fetched, WindowStart
  <1>2. TradesOrdered'
    BY <1>1 DEF FetchInv, TradesOrdered, TypeOK, Time
  <1>3. PagesOfTrades' /\ NoPagesYet' /\ FetchedOnceInOrder' /\ CursorAhead'
    BY <1>1 DEF FetchInv, PagesOfTrades, NoPagesYet, FetchedOnceInOrder, CursorAhead
  <1>4. \A k : (Cut(k)' <=> Cut(k)) /\ (Missed(k)' <=> Missed(k))
    BY <1>1 DEF Cut, CutBy, Missed
  <1>5. MissesBehindCursor' /\ MissesOnlyTies'
    BY <1>1, <1>4, MissesByName DEF FetchInv, MissesBehindCursor, MissesOnlyTies
  <1>6. QED
    BY <1>2, <1>3, <1>5, MissesByName DEF FetchInv

\* A trade made now is after all others, and left to the next run.
LEMMA MakeTradeKeepsFetch ==
    ASSUME FetchInv, TypeOK, MakeTrade
    PROVE  FetchInv'
  <1> DEFINE n == Len(made)
  <1>1. /\ n \in Nat /\ now \in Nat
        /\ DOMAIN made = 1..n /\ DOMAIN made' = 1..n + 1
        /\ \A k \in 1..n : made'[k] = made[k]
        /\ made'[n + 1] = now
    BY BackfillAssumption DEF TypeOK, MakeTrade, Time
  <1>2. Fetched' = Fetched /\ WindowStart' = WindowStart /\ Fetched \subseteq 1..n
    <2>1. \A i \in DOMAIN pages : pages[i] \subseteq 1..n
      BY <1>1 DEF FetchInv, PagesOfTrades
    <2>2. Fetched \subseteq 1..n
      BY <2>1 DEF Fetched
    <2>3. QED
      BY <2>2 DEF MakeTrade, attempt, Fetched, WindowStart
  <1>3. UNCHANGED <<now, end, pages, pc, cursor, cut>>
    BY DEF MakeTrade, attempt
  <1>4. TradesOrdered'
    <2>1. \A k \in 1..n : made[k] \in Nat /\ made[k] <= now
      BY <1>1 DEF FetchInv, TradesOrdered
    <2>2. \A k \in 1..n + 1 : made'[k] \in Nat /\ made'[k] <= now
      BY <1>1, <2>1
    <2>3. ASSUME NEW j \in 1..n + 1, NEW k \in 1..n + 1, j < k
          PROVE  made'[j] <= made'[k]
      <3>1. CASE k = n + 1
        BY <1>1, <2>2, <3>1
      <3>2. CASE k # n + 1
        <4>1. j \in 1..n /\ k \in 1..n
          BY <1>1, <2>3, <3>2
        <4>2. QED
          BY <1>1, <2>3, <4>1 DEF FetchInv, TradesOrdered
      <3>3. QED
        BY <3>1, <3>2
    <2>4. QED
      BY <1>1, <1>3, <2>2, <2>3 DEF FetchInv, TradesOrdered
  <1>5. PagesOfTrades' /\ NoPagesYet'
    BY <1>1, <1>3 DEF FetchInv, PagesOfTrades, NoPagesYet
  <1>6. FetchedOnceInOrder' /\ CursorAhead'
    BY <1>1, <1>2, <1>3 DEF FetchInv, FetchedOnceInOrder, CursorAhead
  <1>7. ASSUME NEW k \in DOMAIN made', Missed(k)'
        PROVE  k \in 1..n /\ Missed(k)
    <2>1. made'[k] < end
      BY <1>3, <1>7 DEF Missed
    <2>2. end \in Nat /\ end <= now
      BY BackfillAssumption DEF TypeOK, Time, FetchInv, TradesOrdered
    <2>3. k \in 1..n
      BY <1>1, <2>1, <2>2
    <2>4. QED
      BY <1>1, <1>2, <1>3, <1>7, <2>3 DEF Missed
  <1>8. ASSUME NEW k \in 1..n, Cut(k)
        PROVE  Cut(k)'
    <2>1. PICK i \in DOMAIN pages : CutBy(pages[i], k)
      BY <1>8 DEF Cut
    <2>2. pages[i] \in SUBSET (1..n) /\ pages[i] # {}
      BY <1>1 DEF FetchInv, PagesOfTrades
    <2>3. LastOf(pages[i]) \in 1..n
      BY <1>1, <2>2, LastFacts
    <2>4. CutBy(pages[i], k)'
      BY <1>1, <1>3, <2>1, <2>3 DEF CutBy
    <2>5. QED
      BY <1>3, <2>4 DEF Cut
  <1>9. MissesBehindCursor' /\ MissesOnlyTies'
    BY <1>1, <1>3, <1>7, <1>8, MissesByName DEF FetchInv, MissesBehindCursor, MissesOnlyTies
  <1>10. QED
    BY <1>4, <1>5, <1>6, <1>9, MissesByName DEF FetchInv

LEMMA BeginKeepsFetch ==
    ASSUME FetchInv, TypeOK, Begin
    PROVE  FetchInv'
  <1>1. /\ UNCHANGED <<now, made>> /\ pages' = <<>> /\ pc' = "fetch"
        /\ end' = now /\ now \in Nat /\ cursor' = WindowStart'
    BY BackfillAssumption DEF Begin, world, TypeOK, Time
  <1>2. Fetched' = {} /\ WindowStart' \in Int
    BY <1>1, BackfillAssumption DEF Fetched, WindowStart
  <1>3. \A k \in DOMAIN made : made[k] \in Nat
    BY DEF FetchInv, TradesOrdered
  <1>4. TradesOrdered' /\ PagesOfTrades' /\ NoPagesYet' /\ FetchedOnceInOrder' /\ CursorAhead'
    BY <1>1, <1>2 DEF FetchInv, TradesOrdered, PagesOfTrades, NoPagesYet,
                      FetchedOnceInOrder, CursorAhead
  <1>5. MissesBehindCursor' /\ MissesOnlyTies'
    BY <1>1, <1>2, <1>3 DEF MissesBehindCursor, MissesOnlyTies, Missed
  <1>6. QED
    BY <1>4, <1>5, MissesByName DEF FetchInv

\* The loop ends: what is missed lies behind the cursor, unless it was cut.
LEMMA EndFetchKeepsFetch ==
    ASSUME FetchInv, TypeOK, EndFetch \/ AnswerIsNoList
    PROVE  FetchInv'
  <1>1. UNCHANGED <<now, made, end, cursor, pages>> /\ pc = "fetch" /\ pc' = "validate"
    BY DEF EndFetch, AnswerIsNoList, world, attempt
  <1>2. Fetched' = Fetched /\ WindowStart' = WindowStart
    BY <1>1 DEF Fetched, WindowStart
  <1>3. TradesOrdered' /\ PagesOfTrades' /\ NoPagesYet' /\ FetchedOnceInOrder' /\ CursorAhead'
    BY <1>1, <1>2 DEF FetchInv, TradesOrdered, PagesOfTrades, NoPagesYet,
                      FetchedOnceInOrder, CursorAhead
  <1>4. \A k : (Cut(k)' <=> Cut(k)) /\ (Missed(k)' <=> Missed(k))
    BY <1>1, <1>2 DEF Cut, CutBy, Missed
  <1>5. cursor \in Int /\ end \in Nat /\ made \in Seq(Time)
    BY BackfillAssumption DEF TypeOK, Time
  <1>6. \A k \in DOMAIN made : made[k] \in Nat
    BY DEF FetchInv, TradesOrdered
  <1>7. ASSUME NEW k \in DOMAIN made, Missed(k)
        PROVE  made[k] < cursor \/ (cut' /\ cursor <= made[k])
    <2>1. CASE EndFetch /\ cursor >= end
      BY <1>5, <1>6, <1>7, <2>1 DEF Missed
    <2>2. CASE EndFetch /\ Page(cursor) = {}
      <3>1. Found(cursor) = {}
        BY <1>5, <2>2, PageFacts, FS_EmptySet, BackfillAssumption
      <3>2. QED
        BY <1>5, <1>6, <1>7, <3>1 DEF Missed, Found
    <2>3. CASE AnswerIsNoList
      BY <1>5, <1>6, <2>3 DEF AnswerIsNoList
    <2>4. QED
      BY <2>1, <2>2, <2>3 DEF EndFetch
  <1>8. MissesBehindCursor' /\ MissesOnlyTies'
    BY <1>1, <1>4, <1>7 DEF FetchInv, MissesBehindCursor, MissesOnlyTies
  <1>9. QED
    BY <1>3, <1>8, MissesByName DEF FetchInv

\* A new page is after the earlier ones and, before its last trade, complete.
LEMMA FetchPageKeepsFetch ==
    ASSUME FetchInv, TypeOK, FetchPage
    PROVE  FetchInv'
  <1> DEFINE page == Page(cursor)
             last == LastOf(page)
             n == Len(pages)
  <1>1. /\ UNCHANGED <<now, made, end, cut>> /\ pc = "fetch" /\ pc' \in {"fetch", "validate"}
        /\ page # {} /\ pages' = Append(pages, page)
    BY DEF FetchPage, world
  <1>2. /\ cursor \in Int /\ end \in Nat /\ made \in Seq(Time)
        /\ pages \in Seq(SUBSET Trade)
    BY BackfillAssumption DEF TypeOK, Time
  <1>3. \A k \in DOMAIN made : made[k] \in Nat
    BY DEF FetchInv, TradesOrdered
  <1>4. /\ page \in SUBSET Trade /\ page \subseteq DOMAIN made
        /\ last \in page /\ \A k \in page : k <= last
        /\ made[last] \in Nat /\ cursor <= made[last] /\ made[last] <= end
    BY <1>1, <1>2, NextPage DEF TypeOK
  <1>5. /\ page \subseteq Found(cursor)
        /\ Cardinality(page) \in 0..Limit
        /\ \A k \in page, j \in Found(cursor) : j < k => j \in page
        /\ Cardinality(page) < Limit => page = Found(cursor)
    BY <1>2, PageFacts
  <1>6. \A k \in page : cursor <= made[k] /\ made[k] <= end
    BY <1>5 DEF Found
  <1>7. /\ n \in Nat /\ DOMAIN pages = 1..n /\ DOMAIN pages' = 1..n + 1
        /\ \A i \in 1..n : pages'[i] = pages[i]
        /\ pages'[n + 1] = page
    BY <1>1, <1>2, <1>4
  <1>8. Fetched' = Fetched \cup page
    BY <1>7 DEF Fetched
  <1>9. WindowStart' = WindowStart /\ WindowStart \in Int /\ WindowStart <= cursor
    BY <1>1, WindowFacts DEF TypeOK, WindowStart, FetchInv, CursorAhead
  <1>10. \A k \in Fetched : k \in DOMAIN made /\ made[k] < cursor
    BY <1>1 DEF FetchInv, PagesOfTrades, CursorAhead, Fetched
  <1>11. TradesOrdered' /\ PagesOfTrades' /\ NoPagesYet'
    BY <1>1, <1>4, <1>7 DEF FetchInv, TradesOrdered, PagesOfTrades, NoPagesYet
  <1>12. FetchedOnceInOrder'
    <2>1. ASSUME NEW i \in 1..n + 1, NEW j \in 1..n + 1, i < j,
                 NEW k \in pages'[i], NEW l \in pages'[j]
          PROVE  k < l
      <3>1. CASE j = n + 1
        <4>1. i \in 1..n /\ k \in pages[i] /\ l \in page
          BY <1>7, <2>1, <3>1
        <4>2. k \in Fetched
          BY <1>7, <4>1 DEF Fetched
        <4>3. /\ k \in DOMAIN made /\ l \in DOMAIN made
              /\ made[k] < cursor /\ cursor <= made[l]
          BY <1>4, <1>6, <1>10, <4>1, <4>2
        <4>4. made[k] < made[l]
          BY <1>2, <1>3, <4>3
        <4>5. k \in Nat /\ l \in Nat /\ made[k] \in Nat /\ made[l] \in Nat
          BY <1>2, <1>3, <4>3
        <4>6. ~(l < k) /\ l # k
          <5>1. l < k => made[l] <= made[k]
            BY <4>3 DEF FetchInv, TradesOrdered
          <5>2. QED
            BY <4>4, <4>5, <5>1
        <4>7. QED
          BY <4>5, <4>6
      <3>2. CASE j # n + 1
        <4>1. i \in 1..n /\ j \in 1..n /\ k \in pages[i] /\ l \in pages[j]
          BY <1>7, <2>1, <3>2
        <4>2. QED
          BY <1>7, <2>1, <4>1 DEF FetchInv, FetchedOnceInOrder
      <3>3. QED
        BY <3>1, <3>2
    <2>2. \A k \in Fetched' : WindowStart <= made[k] /\ made[k] <= end
      <3> SUFFICES ASSUME NEW k \in Fetched'
                   PROVE  WindowStart <= made[k] /\ made[k] <= end
        OBVIOUS
      <3>1. CASE k \in Fetched
        BY <3>1 DEF FetchInv, FetchedOnceInOrder
      <3>2. CASE k \in page
        <4>1. made[k] \in Nat
          BY <1>3, <1>4, <3>2
        <4>2. QED
          BY <1>2, <1>6, <1>9, <3>2, <4>1
      <3>3. QED
        BY <1>8, <3>1, <3>2
    <2>3. QED
      BY <1>1, <1>7, <1>9, <2>1, <2>2 DEF FetchedOnceInOrder
  <1>13. Cardinality(page) < Limit \/ (Cardinality(page) = Limit /\ pc' = "fetch")
    BY <1>1, <1>2, <1>4, <1>5, BackfillAssumption DEF FetchPage
  <1>14. pc' = "fetch" => cursor' = made[last] + 1
    BY <1>1 DEF FetchPage
  <1>15. CursorAhead'
    <2> SUFFICES ASSUME pc' = "fetch"
                 PROVE  WindowStart <= cursor' /\ \A k \in Fetched' : made[k] < cursor'
      BY <1>1, <1>9 DEF CursorAhead
    <2>1. cursor' = made[last] + 1
      BY <1>14
    <2>2. \A k \in Fetched : made[k] < cursor'
      <3> SUFFICES ASSUME NEW k \in Fetched
                   PROVE  made[k] < cursor'
        OBVIOUS
      <3>1. made[k] \in Nat /\ made[k] < cursor
        BY <1>3, <1>10
      <3>2. QED
        BY <1>2, <1>4, <2>1, <3>1
    <2>3. \A k \in page : made[k] < cursor'
      <3> SUFFICES ASSUME NEW k \in page
                   PROVE  made[k] < cursor'
        OBVIOUS
      <3>1. made[k] \in Nat /\ made[k] <= made[last]
        <4>1. k \in DOMAIN made /\ last \in DOMAIN made /\ k <= last /\ k \in Nat /\ last \in Nat
          BY <1>2, <1>4
        <4>2. k < last => made[k] <= made[last]
          BY <4>1 DEF FetchInv, TradesOrdered
        <4>3. k = last => made[k] <= made[last]
          BY <1>4
        <4>4. QED
          BY <1>3, <4>1, <4>2, <4>3
      <3>2. QED
        BY <1>4, <2>1, <3>1
    <2>4. QED
      BY <1>2, <1>4, <1>8, <1>9, <2>1, <2>2, <2>3
  <1>16. ASSUME NEW k \in DOMAIN made, Missed(k)', pc' = "fetch" => made[k] < cursor'
         PROVE  Cut(k)'
    <2>1. Missed(k) /\ k \notin page
      BY <1>1, <1>8, <1>9, <1>16 DEF Missed
    <2>2. made[k] \in Nat /\ k \in Nat /\ last \in Nat /\ last \in DOMAIN made
      BY <1>2, <1>3, <1>4
    <2>3. CASE made[k] < cursor
      <3>1. PICK i \in 1..n : CutBy(pages[i], k)
        BY <1>1, <1>7, <2>1, <2>3 DEF FetchInv, MissesBehindCursor, Cut
      <3>2. CutBy(pages[i], k)'
        BY <1>1, <1>7, <3>1 DEF CutBy
      <3>3. QED
        BY <1>7, <3>1, <3>2 DEF Cut
    <2>4. CASE ~(made[k] < cursor)
      <3>1. k \in Found(cursor)
        BY <1>2, <1>3, <2>1, <2>2, <2>4 DEF Found, Missed
      <3>2. Cardinality(page) = Limit /\ made[k] < made[last] + 1
        BY <1>5, <1>13, <1>14, <1>16, <2>1, <3>1
      <3>3. last < k
        BY <1>4, <1>5, <2>1, <2>2, <3>1
      <3>4. made[last] <= made[k]
        BY <2>2, <3>3 DEF FetchInv, TradesOrdered
      <3>5. made[k] = made[last]
        BY <1>4, <2>2, <3>2, <3>4
      <3>6. PICK i : i = n + 1
        OBVIOUS
      <3>7. i \in DOMAIN pages' /\ pages'[i] = page
        BY <1>7, <3>6
      <3>8. CutBy(pages[i], k)'
        BY <1>1, <3>2, <3>3, <3>5, <3>7 DEF CutBy
      <3>9. QED
        BY <3>7, <3>8 DEF Cut
    <2>5. QED
      BY <2>3, <2>4
  <1>17. MissesBehindCursor' /\ MissesOnlyTies'
    BY <1>1, <1>16 DEF MissesBehindCursor, MissesOnlyTies
  <1>18. QED
    BY <1>11, <1>12, <1>15, <1>17, MissesByName DEF FetchInv

LEMMA FetchStep == FetchInv /\ TypeOK /\ [Next]_vars => FetchInv'
  <1> SUFFICES ASSUME FetchInv, TypeOK, [Next]_vars
               PROVE  FetchInv'
    OBVIOUS
  <1>1. CASE MakeTrade
    BY <1>1, MakeTradeKeepsFetch
  <1>2. now \in Nat
    BY BackfillAssumption DEF TypeOK, Time
  <1>3. ASSUME NEW k \in Trade, StreamArchives(k)
        PROVE  FetchInv'
    BY <1>2, <1>3, SamePages DEF StreamArchives, world
  <1>4. CASE Tick
    BY <1>2, <1>4, SamePages DEF Tick
  <1>5. CASE Begin
    BY <1>5, BeginKeepsFetch
  <1>6. CASE FetchPage
    BY <1>6, FetchPageKeepsFetch
  <1>7. CASE EndFetch \/ AnswerIsNoList
    BY <1>7, EndFetchKeepsFetch
  <1>8. CASE Validate
    BY <1>2, <1>8, SamePages DEF Validate, world
  <1>9. ASSUME NEW S \in SUBSET unwritten, AppendRaw(S)
        PROVE  FetchInv'
    BY <1>2, <1>9, SamePages DEF AppendRaw, world
  <1>10. CASE RecordMetrics \/ Fail
    BY <1>10, NoPages DEF RecordMetrics, Fail, world
  <1>11. CASE UNCHANGED vars
    BY <1>2, <1>11, SamePages DEF vars, world
  <1>12. QED
    BY <1>1, <1>3, <1>4, <1>5, <1>6, <1>7, <1>8, <1>9, <1>10, <1>11 DEF Next, Run

LEMMA FetchAlways == Spec => [](FetchInv /\ TypeOK)
  BY TypeInit, TypeStep, FetchInit, FetchStep, PTL DEF Spec

(* fetch_agg_trades returns no trade twice and the trades of the window in *)
(* the exchange's order, for any page size and any trades made meanwhile.  *)
THEOREM PagesInOrder == Spec => []FetchedOnceInOrder
  <1>1. FetchInv => FetchedOnceInOrder
    BY DEF FetchInv
  <1>2. QED
    BY <1>1, FetchAlways, PTL

(* However many pages there are and whatever is traded meanwhile, what the *)
(* loop misses of its window has the time of a full page's last trade, or  *)
(* comes after an answer that was no list.                                 *)
THEOREM OnlyTiesMissed == Spec => []FetchMissesOnlyTies
  <1>1. FetchInv => FetchMissesOnlyTies
    BY DEF FetchInv
  <1>2. QED
    BY <1>1, FetchAlways, PTL

-----------------------------------------------------------------------------
(***************************************************************************)
(* The archive                                                             *)
(***************************************************************************)
(* The rows of the stream and of the backfill come into the archive as the *)
(* abstract specification allows, and every other step leaves it alone.    *)
THEOREM ArchiveImplemented == Spec => ImplementsArchive
  <1>1. Init => Archive!ArchiveInit
    BY DEF Init
  <1>2. TypeOK /\ [Next]_vars => [Archive!ArchiveNext]_raw
    <2> SUFFICES ASSUME TypeOK, [Next]_vars
                 PROVE  [Archive!ArchiveNext]_raw
      OBVIOUS
    <2>1. ASSUME NEW k \in Trade, StreamArchives(k)
          PROVE  Archive!ArchiveNext
      <3>1. {<<"binance_ws", k>>} \in SUBSET Archivable
        BY <2>1 DEF StreamArchives, Archivable, Source
      <3>2. Archive!AppendFile({<<"binance_ws", k>>})
        BY <2>1 DEF StreamArchives
      <3>3. QED
        BY <3>1, <3>2 DEF Archive!ArchiveNext
    <2>2. ASSUME NEW S \in SUBSET unwritten, AppendRaw(S)
          PROVE  Archive!ArchiveNext
      <3>1. {<<"binance_rest", k>> : k \in S} \in SUBSET Archivable
        BY DEF TypeOK, Archivable, Source
      <3>2. Archive!AppendFile({<<"binance_rest", k>> : k \in S})
        BY <2>2 DEF AppendRaw
      <3>3. QED
        BY <3>1, <3>2 DEF Archive!ArchiveNext
    <2>3. CASE MakeTrade \/ Tick \/ Begin \/ FetchPage \/ EndFetch \/ AnswerIsNoList
               \/ Validate \/ RecordMetrics \/ Fail \/ UNCHANGED vars
      BY <2>3 DEF MakeTrade, Tick, Begin, FetchPage, EndFetch, AnswerIsNoList,
                  Validate, RecordMetrics, Fail, vars
    <2>4. QED
      BY <2>1, <2>2, <2>3 DEF Next, Run
  <1>3. QED
    BY <1>1, <1>2, TypeInit, TypeStep, PTL DEF Spec, ImplementsArchive, Archive!ArchiveSpec

\* What is fetched and valid is in the archive or still to be written.
WrittenOrPending ==
    /\ pc \in {"append", "metrics"} =>
           \A k \in Fetched \ Invalid : k \in unwritten \/ raw[<<"binance_rest", k>>] > 0
    /\ pc = "metrics" => unwritten = {}

LEMMA WrittenStep ==
    WrittenOrPending /\ TypeOK /\ [Next]_vars => WrittenOrPending'
  <1> SUFFICES ASSUME WrittenOrPending, TypeOK, [Next]_vars
               PROVE  WrittenOrPending'
    OBVIOUS
  <1>1. raw \in Archive!Rows /\ Fetched \in SUBSET Trade
    BY FetchedAreTrades DEF TypeOK
  <1>2. \A k \in Trade : <<"binance_rest", k>> \in Row
    BY DEF Row, Source
  <1>3. CASE MakeTrade
    BY <1>3 DEF MakeTrade, attempt, WrittenOrPending, Fetched
  <1>4. ASSUME NEW k \in Trade, StreamArchives(k)
        PROVE  WrittenOrPending'
    <2>1. raw' = Archive!Appended(raw, {<<"binance_ws", k>>})
      BY <1>4 DEF StreamArchives, Archive!AppendFile
    <2>2. \A r \in Row : raw[r] > 0 => raw'[r] > 0
      BY <1>1, <2>1, AppendedFacts
    <2>3. UNCHANGED <<pc, unwritten>> /\ Fetched' = Fetched
      BY <1>4 DEF StreamArchives, attempt, Fetched
    <2>4. QED
      BY <1>1, <1>2, <2>2, <2>3 DEF WrittenOrPending
  <1>5. CASE Validate
    <2>1. UNCHANGED raw /\ Fetched' = Fetched /\ unwritten' = Fetched \ Invalid
      BY <1>5 DEF Validate, attempt, Fetched
    <2>2. pc' = "metrics" => unwritten' = {}
      BY <1>5 DEF Validate
    <2>3. QED
      BY <2>1, <2>2 DEF WrittenOrPending
  <1>6. ASSUME NEW S \in SUBSET unwritten, AppendRaw(S)
        PROVE  WrittenOrPending'
    <2> DEFINE rows == {<<"binance_rest", k>> : k \in S}
    <2>1. raw' = Archive!Appended(raw, rows)
      BY <1>6 DEF AppendRaw, Archive!AppendFile
    <2>2. \A r \in Row : (raw[r] > 0 \/ r \in rows) => raw'[r] > 0
      BY <1>1, <2>1, AppendedFacts
    <2>3. /\ pc = "append" /\ unwritten' = unwritten \ S /\ Fetched' = Fetched
          /\ pc' = "metrics" => unwritten' = {}
      BY <1>6 DEF AppendRaw, attempt, Fetched
    <2>4. QED
      BY <1>1, <1>2, <2>2, <2>3 DEF WrittenOrPending
  <1>7. CASE Begin \/ FetchPage \/ EndFetch \/ AnswerIsNoList \/ RecordMetrics \/ Fail
    BY <1>7 DEF Begin, FetchPage, EndFetch, AnswerIsNoList, RecordMetrics, Fail, WrittenOrPending
  <1>8. CASE Tick \/ UNCHANGED vars
    BY <1>8 DEF Tick, vars, attempt, WrittenOrPending, Fetched
  <1>9. QED
    BY <1>3, <1>4, <1>5, <1>6, <1>7, <1>8 DEF Next, Run

(* A run that records its metrics has every valid trade it fetched in the  *)
(* archive, for any failures and retries before.                           *)
THEOREM MetricsFollowArchive == Spec => RecordedIsArchived
  <1>1. Init => WrittenOrPending
    BY DEF Init, WrittenOrPending
  <1>2. WrittenOrPending =>
            (RecordMetrics => \A k \in Fetched \ Invalid : raw[<<"binance_rest", k>>] > 0)
    BY DEF WrittenOrPending, RecordMetrics
  <1>3. QED
    BY <1>1, <1>2, WrittenStep, TypeInit, TypeStep, PTL DEF Spec, RecordedIsArchived

-----------------------------------------------------------------------------
(***************************************************************************)
(* The gaps                                                                *)
(***************************************************************************)
LEMMA DueFacts ==
    \A n \in Nat : Due(n) \in Nat /\ Due(n + 1) = Due(n) + Interval
  BY Z3, BackfillAssumption DEF Due

\* Runs do not begin before they are due, and are over MaxDelay later.
RunsInTime ==
    /\ \A n \in 0..run - 1 : Due(n) <= now
    /\ now <= Due(run) + MaxDelay
    /\ pc # "due" => Due(run) <= end

GapInv == RunsInTime /\ OnlyLostRunsLeaveGaps

Gap(k) == FirstOfItsTime(k) /\ raw[<<"binance_rest", k>>] = 0

LEMMA GapsByName ==
    /\ OnlyLostRunsLeaveGaps <=>
           \A k \in Trade \ Invalid : Gap(k) =>
               \A n \in 0..run - 1 : Covers(n, k) => n \in lost
    /\ OnlyLostRunsLeaveGaps' <=>
           \A k \in Trade \ Invalid : Gap(k)' =>
               \A n \in 0..run' - 1 : Covers(n, k)' => n \in lost'
  BY DEF OnlyLostRunsLeaveGaps, Gap

\* Rows that are in the archive stay there.
LEMMA RowsStay ==
    ASSUME TypeOK, [Next]_vars, NEW r \in Row, raw'[r] = 0
    PROVE  raw[r] = 0
  <1>1. raw \in Archive!Rows /\ raw[r] \in Nat
    BY BackfillAssumption DEF TypeOK, Archive!Rows
  <1>2. ASSUME NEW S, Archive!AppendFile(S)
        PROVE  raw[r] = 0
    <2>1. raw[r] > 0 => raw'[r] > 0
      BY <1>1, <1>2, AppendedFacts DEF Archive!AppendFile
    <2>2. QED
      BY <1>1, <2>1
  <1>3. UNCHANGED raw => raw[r] = 0
    OBVIOUS
  <1>4. CASE \E k \in Trade : StreamArchives(k)
    BY <1>2, <1>4 DEF StreamArchives
  <1>5. CASE \E S \in SUBSET unwritten : AppendRaw(S)
    BY <1>2, <1>5 DEF AppendRaw
  <1>6. CASE MakeTrade \/ Tick \/ Begin \/ FetchPage \/ EndFetch \/ AnswerIsNoList
             \/ Validate \/ RecordMetrics \/ Fail \/ UNCHANGED vars
    BY <1>3, <1>6 DEF MakeTrade, Tick, Begin, FetchPage, EndFetch, AnswerIsNoList,
                      Validate, RecordMetrics, Fail, vars
  <1>7. QED
    BY <1>4, <1>5, <1>6 DEF Next, Run

\* Steps that end no run and make no trade open no gap.
LEMMA NoNewGap ==
    ASSUME GapInv, TypeOK, [Next]_vars, UNCHANGED <<made, run, lost>>,
           now' \in Nat, now <= now', now' <= Due(run) + MaxDelay,
           pc' # "due" => Due(run) <= end'
    PROVE  GapInv'
  <1>1. \A n : Due(n)' = Due(n) /\ \A k : Covers(n, k)' <=> Covers(n, k)
    BY DEF Due, Covers
  <1>2. \A k \in Trade : Gap(k)' => Gap(k)
    BY RowsStay DEF Gap, FirstOfItsTime, Row, Source
  <1>3. OnlyLostRunsLeaveGaps'
    BY <1>1, <1>2, GapsByName DEF GapInv
  <1>4. ASSUME NEW n \in 0..run - 1
        PROVE  Due(n) <= now'
    <2>1. Due(n) <= now
      BY DEF GapInv, RunsInTime
    <2>2. n \in Nat /\ now \in Nat
      BY BackfillAssumption DEF TypeOK, Time
    <2>3. Due(n) \in Nat
      BY <2>2, DueFacts
    <2>4. QED
      BY <2>1, <2>2, <2>3
  <1>5. RunsInTime'
    BY <1>1, <1>4 DEF RunsInTime
  <1>6. QED
    BY <1>3, <1>5 DEF GapInv

\* A trade that is made now, no run that is over covers.
LEMMA MakeTradeOpensNoGap ==
    ASSUME GapInv, TypeOK, MakeTrade
    PROVE  GapInv'
  <1> DEFINE n == Len(made)
  <1>1. /\ n \in Nat /\ now \in Nat
        /\ DOMAIN made = 1..n /\ DOMAIN made' = 1..n + 1
        /\ \A k \in 1..n : made'[k] = made[k]
        /\ made'[n + 1] = now
    BY BackfillAssumption DEF TypeOK, MakeTrade, Time
  <1>2. UNCHANGED <<now, raw, pc, run, lost, end>>
    BY DEF MakeTrade, attempt, airflow
  <1>3. \A i : Due(i)' = Due(i)
    BY DEF Due
  <1>4. ASSUME NEW k \in Trade \ Invalid, Gap(k)', NEW i \in 0..run - 1, Covers(i, k)'
        PROVE  i \in lost
    <2>1. k \in 1..n + 1
      BY <1>1, <1>4 DEF Gap, FirstOfItsTime
    <2>2. CASE k = n + 1
      <3>1. now < Due(i)
        BY <1>1, <1>3, <1>4, <2>2 DEF Covers
      <3>2. Due(i) <= now /\ Due(i) \in Nat
        BY DueFacts DEF GapInv, RunsInTime
      <3>3. QED
        BY <1>1, <3>1, <3>2
    <2>3. CASE k # n + 1
      <3>1. k \in 1..n
        BY <1>1, <2>1, <2>3
      <3>2. Gap(k)
        BY <1>1, <1>2, <1>4, <3>1 DEF Gap, FirstOfItsTime
      <3>3. Covers(i, k)
        BY <1>1, <1>3, <1>4, <3>1 DEF Covers
      <3>4. QED
        BY <1>4, <3>2, <3>3, GapsByName DEF GapInv
    <2>4. QED
      BY <2>2, <2>3
  <1>5. OnlyLostRunsLeaveGaps'
    BY <1>2, <1>4, GapsByName
  <1>6. QED
    BY <1>2, <1>3, <1>5 DEF GapInv, RunsInTime

\* What a run that ends well, and was not cut, covers is in its last window, so
\* it has fetched the first trade of each time and seen it into the archive.
LEMMA WellEndedCovers ==
    ASSUME GapInv, TypeOK, FetchInv, WrittenOrPending, pc = "metrics", ~cut,
           NEW k \in Trade \ Invalid, FirstOfItsTime(k), Covers(run, k)
    PROVE  raw[<<"binance_rest", k>>] > 0
  <1>1. k \in DOMAIN made /\ made[k] \in Nat
    BY DEF FirstOfItsTime, FetchInv, TradesOrdered
  <1>2. /\ made[k] < Due(run) /\ Due(run) + MaxDelay <= made[k] + Lookback
        /\ Due(run) <= end /\ end <= now /\ now <= Due(run) + MaxDelay
    BY DEF Covers, GapInv, RunsInTime, FetchInv, TradesOrdered
  <1>3. Due(run) \in Nat /\ end \in Nat /\ now \in Nat
    BY DueFacts, BackfillAssumption DEF TypeOK, Time
  <1>4. WindowStart <= made[k] /\ made[k] < end
    BY <1>1, <1>2, <1>3, BackfillAssumption DEF WindowStart
  <1>5. k \in Fetched
    <2> SUFFICES ASSUME k \notin Fetched
                 PROVE  FALSE
      OBVIOUS
    <2>1. Cut(k)
      BY <1>1, <1>4, MissesByName DEF FetchInv, MissesOnlyTies, Missed
    <2>2. PICK i \in DOMAIN pages : CutBy(pages[i], k)
      BY <2>1 DEF Cut
    <2>3. pages[i] \in SUBSET (1..Len(made)) /\ pages[i] # {} /\ Len(made) \in Nat
      BY DEF FetchInv, PagesOfTrades, TypeOK
    <2>4. LastOf(pages[i]) \in 1..Len(made)
      BY <2>3, LastFacts
    <2>5. made[k] = made[LastOf(pages[i])] /\ LastOf(pages[i]) < k
      BY <2>2 DEF CutBy
    <2>6. k <= LastOf(pages[i]) /\ k \in Nat
      BY <1>1, <2>3, <2>4, <2>5 DEF FirstOfItsTime, TypeOK
    <2>7. QED
      BY <2>4, <2>5, <2>6
  <1>6. QED
    BY <1>5 DEF WrittenOrPending

\* The end of a run: each that is over has been judged.
LEMMA RunEndOpensNoGap ==
    ASSUME GapInv, TypeOK, FetchInv, WrittenOrPending,
           UNCHANGED <<now, made, raw>>, pc # "due", pc' = "due",
           run' = run + 1, lost \subseteq lost',
           run \in lost' \/ (pc = "metrics" /\ ~cut)
    PROVE  GapInv'
  <1>1. run \in Nat /\ now \in Nat /\ end \in Nat
    BY BackfillAssumption DEF TypeOK, Time
  <1>2. \A n : Due(n)' = Due(n) /\ \A k : Covers(n, k)' <=> Covers(n, k)
    BY DEF Due, Covers
  <1>3. Due(run) \in Nat /\ Due(run + 1) = Due(run) + Interval
    BY <1>1, DueFacts
  <1>4. Due(run) <= end /\ end <= now /\ now <= Due(run) + MaxDelay
    BY DEF GapInv, RunsInTime, FetchInv, TradesOrdered
  <1>5. \A n \in 0..run' - 1 : n = run \/ n \in 0..run - 1
    BY <1>1
  <1>6. RunsInTime'
    <2>1. \A n \in 0..run' - 1 : Due(n) <= now
      BY <1>1, <1>3, <1>4, <1>5 DEF GapInv, RunsInTime
    <2>2. now <= Due(run + 1) + MaxDelay
      BY <1>1, <1>3, <1>4, BackfillAssumption
    <2>3. QED
      BY <1>2, <2>1, <2>2 DEF RunsInTime
  <1>7. ASSUME NEW k \in Trade \ Invalid, Gap(k)', NEW n \in 0..run' - 1, Covers(n, k)'
        PROVE  n \in lost'
    <2>1. Gap(k) /\ Covers(n, k)
      BY <1>2, <1>7 DEF Gap, FirstOfItsTime
    <2>2. CASE n = run
      <3>1. ~(raw[<<"binance_rest", k>>] > 0)
        BY <2>1 DEF Gap
      <3>2. QED
        BY <2>1, <2>2, <3>1, WellEndedCovers DEF Gap
    <2>3. CASE n \in 0..run - 1
      BY <2>1, <2>3, GapsByName DEF GapInv
    <2>4. QED
      BY <1>5, <2>2, <2>3
  <1>8. QED
    BY <1>6, <1>7, GapsByName DEF GapInv

LEMMA GapInit == Init => GapInv
  <1> SUFFICES ASSUME Init
               PROVE  GapInv
    OBVIOUS
  <1>1. 0..run - 1 = {} /\ Due(run) \in Nat
    BY DueFacts DEF Init
  <1>2. RunsInTime
    BY <1>1, BackfillAssumption DEF Init, RunsInTime
  <1>3. OnlyLostRunsLeaveGaps
    BY <1>1, GapsByName
  <1>4. QED
    BY <1>2, <1>3 DEF GapInv

LEMMA GapStep ==
    GapInv /\ TypeOK /\ FetchInv /\ WrittenOrPending /\ [Next]_vars => GapInv'
  <1> SUFFICES ASSUME GapInv, TypeOK, FetchInv, WrittenOrPending, [Next]_vars
               PROVE  GapInv'
    OBVIOUS
  <1>1. /\ now \in Nat /\ now <= now /\ now <= Due(run) + MaxDelay
        /\ pc # "due" => Due(run) <= end
    BY BackfillAssumption DEF TypeOK, Time, GapInv, RunsInTime
  <1>2. CASE MakeTrade
    BY <1>2, MakeTradeOpensNoGap
  <1>3. ASSUME NEW k \in Trade, StreamArchives(k)
        PROVE  GapInv'
    BY <1>1, <1>3, NoNewGap DEF StreamArchives, world, attempt, airflow
  <1>4. CASE Tick
    <2>1. now' \in Nat /\ now <= now' /\ now' <= Due(run) + MaxDelay
      <3>1. Due(run) \in Nat
        BY DueFacts DEF TypeOK
      <3>2. QED
        BY <1>1, <1>4, <3>1, BackfillAssumption DEF Tick
    <2>2. UNCHANGED <<made, run, lost, pc, end>>
      BY <1>4 DEF Tick, attempt, airflow
    <2>3. QED
      BY <1>1, <2>1, <2>2, NoNewGap
  <1>5. CASE Begin
    <2>1. /\ UNCHANGED <<now, made, run, lost>> /\ end' = now
          /\ Due(run) <= now
      BY <1>1, <1>5, DueFacts DEF Begin, world, airflow, TypeOK
    <2>2. QED
      BY <1>1, <2>1, NoNewGap
  <1>6. CASE FetchPage
    BY <1>1, <1>6, NoNewGap DEF FetchPage, world, airflow
  <1>7. CASE EndFetch
    BY <1>1, <1>7, NoNewGap DEF EndFetch, world, attempt, airflow
  <1>8. CASE AnswerIsNoList
    BY <1>1, <1>8, NoNewGap DEF AnswerIsNoList, world
  <1>9. CASE Validate
    BY <1>1, <1>9, NoNewGap DEF Validate, world, attempt, airflow
  <1>10. ASSUME NEW S \in SUBSET unwritten, AppendRaw(S)
         PROVE  GapInv'
    BY <1>1, <1>10, NoNewGap DEF AppendRaw, world, attempt, airflow
  <1>11. CASE RecordMetrics
    <2>1. /\ UNCHANGED <<now, made, raw>> /\ pc = "metrics" /\ pc' = "due"
          /\ run' = run + 1 /\ lost \subseteq lost'
          /\ cut => run \in lost'
      BY <1>11 DEF RecordMetrics, world, NextRun
    <2>2. cut \in BOOLEAN
      BY DEF TypeOK
    <2>3. QED
      BY <2>1, <2>2, RunEndOpensNoGap
  <1>12. CASE Fail
    <2>1. UNCHANGED <<now, made, raw>> /\ pc # "due" /\ pc' = "due"
      BY <1>12 DEF Fail, world
    <2>2. CASE UNCHANGED <<run, lost>>
      BY <1>1, <2>1, <2>2, NoNewGap
    <2>3. CASE NextRun /\ lost' = lost \cup {run}
      BY <2>1, <2>3, RunEndOpensNoGap DEF NextRun
    <2>4. QED
      BY <1>12, <2>2, <2>3 DEF Fail
  <1>13. CASE UNCHANGED vars
    BY <1>1, <1>13, NoNewGap DEF vars, world, attempt, airflow
  <1>14. QED
    BY <1>2, <1>3, <1>4, <1>5, <1>6, <1>7, <1>8, <1>9, <1>10, <1>11, <1>12, <1>13
       DEF Next, Run

(* However the clock moves between a run and its retries, however the      *)
(* pages fall and whatever is traded meanwhile: a valid trade, the first   *)
(* of its time, is missing in the archive only if every run over by now    *)
(* that covers it has failed all its attempts or was cut.                  *)
THEOREM GapsAreLostRuns == Spec => []OnlyLostRunsLeaveGaps
  <1>1. Init => WrittenOrPending
    BY DEF Init, WrittenOrPending
  <1>2. Spec => [](GapInv /\ TypeOK /\ FetchInv /\ WrittenOrPending)
    BY <1>1, TypeInit, TypeStep, FetchInit, FetchStep, WrittenStep, GapInit, GapStep, PTL DEF Spec
  <1>3. GapInv => OnlyLostRunsLeaveGaps
    BY DEF GapInv
  <1>4. QED
    BY <1>2, <1>3, PTL
=============================================================================
