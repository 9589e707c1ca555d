------------------------- MODULE ReplayEngineProofs -------------------------
(***************************************************************************)
(* Theorems about ReplayEngine for every set of streams, every set of jobs *)
(* and every log.                                                          *)
(***************************************************************************)
EXTENDS ReplayEngine, FiniteSetTheorems, SequenceTheorems, WellFoundedInduction, TLAPS

-----------------------------------------------------------------------------
(* Type correctness *)

LEMMA EngineTypeInit == EngineInit => EngineTypeOK
  BY OffsetsAssumption DEF EngineInit, EngineTypeOK, EnginePC

\* What the client sends is appended to what the stream has delivered.
LEMMA DeliverAppends ==
  ASSUME EngineTypeOK, NEW s \in Streams, Deliver(s)
  PROVE  \E n \in 1..Attempts : \E e \in Seq(Int) :
           /\ delivered' = [delivered EXCEPT ![s] = e]
           /\ e = delivered[s] \o [i \in 1..n |-> cur[s]]
           /\ Len(e) = Len(delivered[s]) + n
           /\ \A i \in 1..Len(e) :
                e[i] = IF i <= Len(delivered[s]) THEN delivered[s][i] ELSE cur[s]
<1>1. delivered[s] \in Seq(Int) /\ cur[s] \in Int
  BY DEF EngineTypeOK
<1>2. PICK n \in 1..Attempts :
        delivered' = [delivered EXCEPT ![s] = delivered[s] \o [i \in 1..n |-> cur[s]]]
  BY DEF Deliver
<1> DEFINE d == delivered[s]
           c == [i \in 1..n |-> cur[s]]
<1>3. n \in Nat
  BY AttemptsAssumption
<1>4. c \in Seq(Int) /\ Len(c) = n /\ \A i \in 1..n : c[i] = cur[s]
  BY <1>1, <1>3
<1>5. /\ d \o c \in Seq(Int)
      /\ Len(d \o c) = Len(d) + Len(c)
      /\ \A i \in 1..Len(d) + Len(c) : (d \o c)[i] = IF i <= Len(d) THEN d[i] ELSE c[i - Len(d)]
  BY <1>1, <1>4, ConcatProperties
<1>6. Len(d) \in Nat
  BY <1>1
<1>7. \A i \in 1..Len(d \o c) : (d \o c)[i] = IF i <= Len(d) THEN d[i] ELSE cur[s]
  <2> SUFFICES ASSUME NEW i \in 1..Len(d) + n, ~(i <= Len(d))
               PROVE  (d \o c)[i] = cur[s]
    BY <1>4, <1>5
  <2>1. i - Len(d) \in 1..n
    BY <1>3, <1>6
  <2> HIDE DEF c, d
  <2>2. (d \o c)[i] = c[i - Len(d)]
    BY <1>4, <1>5
  <2> QED
    BY <1>4, <2>1, <2>2
<1> HIDE DEF c, d
<1>8. delivered' = [delivered EXCEPT ![s] = d \o c]
  BY <1>2 DEF c, d
<1> QED
  BY <1>4, <1>5, <1>7, <1>8 DEF c, d

LEMMA DeliverType ==
  ASSUME EngineTypeOK, NEW s \in Streams, Deliver(s)
  PROVE  /\ delivered' \in [Streams -> Seq(Int)]
         /\ \A t \in Streams : t # s => delivered'[t] = delivered[t]
<1>1. PICK e \in Seq(Int) : delivered' = [delivered EXCEPT ![s] = e]
  BY DeliverAppends
<1> QED
  BY <1>1 DEF EngineTypeOK

LEMMA EngineTypeStep == EngineTypeOK /\ [EngineNext]_engineVars => EngineTypeOK'
<1> SUFFICES ASSUME EngineTypeOK, [EngineNext]_engineVars PROVE EngineTypeOK'
  OBVIOUS
<1> USE DEF EngineTypeOK, EnginePC
<1>1. ASSUME NEW s \in Streams, OpenAccepted(s) PROVE EngineTypeOK'
  BY JobsAssumption, <1>1 DEF OpenAccepted, Moves, source
<1>2. ASSUME NEW s \in Streams, OpenRejected(s) PROVE EngineTypeOK'
  BY <1>2 DEF OpenRejected, Moves, source
<1>3. ASSUME NEW s \in Streams, ConsumeFails(s) PROVE EngineTypeOK'
  BY <1>3 DEF ConsumeFails, Moves, source
<1>4. ASSUME NEW s \in Streams, FetchRecord(s) PROVE EngineTypeOK'
  BY <1>4 DEF FetchRecord, Moves, source
<1>5. ASSUME NEW s \in Streams, FetchPastEnd(s) PROVE EngineTypeOK'
  BY <1>5 DEF FetchPastEnd, Moves, source
<1>6. ASSUME NEW s \in Streams, TransformFails(s) PROVE EngineTypeOK'
  BY <1>6 DEF TransformFails, CountError, Moves, source
<1>7. ASSUME NEW s \in Streams, DryRunSkips(s) PROVE EngineTypeOK'
  BY <1>7 DEF DryRunSkips, CountSuccess, Moves, source
<1>8. ASSUME NEW s \in Streams, ProduceAcknowledged(s) PROVE EngineTypeOK'
  <2>1. delivered' \in [Streams -> Seq(Int)]
    BY <1>8, DeliverType DEF ProduceAcknowledged
  <2>2. mc' \in [Streams -> Nat] /\ epc' \in [Streams -> EnginePC]
    BY <1>8 DEF ProduceAcknowledged, CountSuccess, Moves
  <2>3. UNCHANGED <<job, records, latest, pos, cur, ec, consumed>>
    BY <1>8 DEF ProduceAcknowledged, source
  <2> QED
    BY <2>1, <2>2, <2>3
<1>9. ASSUME NEW s \in Streams, ProduceRejected(s) PROVE EngineTypeOK'
  BY <1>9 DEF ProduceRejected, CountError, Moves, source
<1>10. ASSUME NEW s \in Streams, ProduceUnconfirmed(s) PROVE EngineTypeOK'
  <2>1. /\ ec' \in [Streams -> Nat] /\ consumed' \in [Streams -> Nat]
        /\ epc' \in [Streams -> EnginePC]
    BY <1>10 DEF ProduceUnconfirmed, CountError, Moves
  <2>2. delivered' \in [Streams -> Seq(Int)]
    BY <1>10, DeliverType DEF ProduceUnconfirmed
  <2>3. UNCHANGED <<job, records, latest, pos, cur, mc>>
    BY <1>10 DEF ProduceUnconfirmed, source
  <2> QED
    BY <2>1, <2>2, <2>3
<1>11. ASSUME NEW s \in Streams, Begin(s) PROVE EngineTypeOK'
  BY <1>11 DEF Begin, Moves, source
<1>12. ASSUME NEW s \in Streams, Continue(s) PROVE EngineTypeOK'
  BY <1>12 DEF Continue, Moves, source
<1>13. ASSUME NEW s \in Streams, Exhaust(s) PROVE EngineTypeOK'
  BY <1>13 DEF Exhaust, Moves, source
<1>14. ASSUME NEW s \in Streams, Close(s) PROVE EngineTypeOK'
  <2>1. delivered' \in [Streams -> Seq(Int)]
    BY <1>14, DeliverType DEF Close
  <2> QED
    BY <1>14, <2>1 DEF Close, Moves, source
<1>15. CASE AppendSource
  BY <1>15, OffsetsAssumption DEF AppendSource, locals
<1>16. CASE UNCHANGED engineVars
  BY <1>16 DEF engineVars
<1> QED
  BY <1>1, <1>2, <1>3, <1>4, <1>5, <1>6, <1>7, <1>8, <1>9, <1>10, <1>11, <1>12,
     <1>13, <1>14, <1>15, <1>16 DEF EngineNext, EngineStep, EngineProgress

\* Every variable keeps the values the code can give it.
THEOREM EngineTypeCorrect == EngineSpec => []EngineTypeOK
  BY EngineTypeInit, EngineTypeStep, PTL DEF EngineSpec
-----------------------------------------------------------------------------
(* Accounting: the invariant is inductive as it stands. *)

LEMMA AccountingStep ==
  EngineTypeOK /\ EveryMessageCountedOnce /\ [EngineNext]_engineVars => EveryMessageCountedOnce'
<1> SUFFICES ASSUME EngineTypeOK, EveryMessageCountedOnce, [EngineNext]_engineVars, NEW t \in Streams
             PROVE  Counted(t)'
  BY DEF EveryMessageCountedOnce
<1> Counted(t)
  BY DEF EveryMessageCountedOnce
<1> USE DEF EngineTypeOK, Counted, EnginePC
<1>1. ASSUME NEW s \in Streams, OpenAccepted(s) PROVE Counted(t)'
  BY <1>1 DEF OpenAccepted, Moves, source
<1>2. ASSUME NEW s \in Streams, OpenRejected(s) PROVE Counted(t)'
  BY <1>2 DEF OpenRejected, Moves, source
<1>3. ASSUME NEW s \in Streams, ConsumeFails(s) PROVE Counted(t)'
  BY <1>3 DEF ConsumeFails, Moves, source
<1>4. ASSUME NEW s \in Streams, FetchRecord(s) PROVE Counted(t)'
  BY <1>4 DEF FetchRecord, Moves, source
<1>5. ASSUME NEW s \in Streams, FetchPastEnd(s) PROVE Counted(t)'
  BY <1>5 DEF FetchPastEnd, Moves, source
<1>6. ASSUME NEW s \in Streams, TransformFails(s) PROVE Counted(t)'
  BY <1>6 DEF TransformFails, CountError, Moves, source
<1>7. ASSUME NEW s \in Streams, DryRunSkips(s) PROVE Counted(t)'
  BY <1>7 DEF DryRunSkips, CountSuccess, Moves, source
<1>8. ASSUME NEW s \in Streams, ProduceAcknowledged(s) PROVE Counted(t)'
  BY <1>8 DEF ProduceAcknowledged, CountSuccess, Moves, source
<1>9. ASSUME NEW s \in Streams, ProduceRejected(s) PROVE Counted(t)'
  BY <1>9 DEF ProduceRejected, CountError, Moves, source
<1>10. ASSUME NEW s \in Streams, ProduceUnconfirmed(s) PROVE Counted(t)'
  BY <1>10 DEF ProduceUnconfirmed, CountError, Moves, source
<1>11. ASSUME NEW s \in Streams, Begin(s) PROVE Counted(t)'
  BY <1>11 DEF Begin, Moves, source
<1>12. ASSUME NEW s \in Streams, Continue(s) PROVE Counted(t)'
  BY <1>12 DEF Continue, Moves, source
<1>13. ASSUME NEW s \in Streams, Exhaust(s) PROVE Counted(t)'
  BY <1>13 DEF Exhaust, Moves, source
<1>14. ASSUME NEW s \in Streams, Close(s) PROVE Counted(t)'
  BY <1>14 DEF Close, Moves, source
<1>15. CASE AppendSource
  BY <1>15 DEF AppendSource, locals
<1>16. CASE UNCHANGED engineVars
  BY <1>16 DEF engineVars
<1> QED
  BY <1>1, <1>2, <1>3, <1>4, <1>5, <1>6, <1>7, <1>8, <1>9, <1>10, <1>11, <1>12,
     <1>13, <1>14, <1>15, <1>16 DEF EngineNext, EngineStep, EngineProgress

\* Every message handed over is counted exactly once, as a success or an error.
THEOREM EveryMessageIsCountedOnce == EngineSpec => []EveryMessageCountedOnce
<1>1. EngineInit => EveryMessageCountedOnce
  BY DEF EngineInit, EveryMessageCountedOnce, Counted
<1> QED
  BY <1>1, AccountingStep, EngineTypeCorrect, PTL DEF EngineSpec

-----------------------------------------------------------------------------
(* The job and the range *)

LEMMA JobIsFixed == [EngineNext]_engineVars => job' = job
  BY DEF EngineNext, EngineStep, EngineProgress, OpenAccepted, OpenRejected, ConsumeFails,
     FetchRecord, FetchPastEnd, TransformFails, DryRunSkips, ProduceAcknowledged,
     ProduceRejected, ProduceUnconfirmed, Begin, Continue, Exhaust, Close, AppendSource,
     source, engineVars

LEMMA RangeIsInt ==
  EngineTypeOK => job.start \in Int /\ job.end \in Int /\ job.dryRun \in BOOLEAN
  BY JobsAssumption DEF EngineTypeOK

-----------------------------------------------------------------------------
(* Order *)

\* What keeps the deliveries in order: the message in hand is inside the range,
\* just behind the consumer and ahead of everything delivered.
Ahead(s) ==
  /\ InOrder(s)
  /\ epc[s] \in {"idle", "open"} => delivered[s] = << >>
  /\ epc[s] \in {"fetch", "handle", "yield", "final"} => job.start <= pos[s]
  /\ epc[s] = "handle" =>
       /\ job.start <= cur[s] /\ cur[s] < job.end /\ cur[s] < pos[s]
       /\ \A i \in DOMAIN delivered[s] : delivered[s][i] < cur[s]

OrderInv == \A s \in Streams : Ahead(s)

LEMMA DeliverKeepsOrder ==
  ASSUME NEW t \in Streams, EngineTypeOK, Ahead(t), epc[t] = "handle", Deliver(t),
         job' = job, pos' = pos
  PROVE  InOrder(t)'
<1> DEFINE d == delivered[t]
           e == delivered'[t]
           k == Len(delivered[t])
<1>1. PICK n \in 1..Attempts : \E x \in Seq(Int) :
        /\ delivered' = [delivered EXCEPT ![t] = x]
        /\ Len(x) = Len(delivered[t]) + n
        /\ \A i \in 1..Len(x) :
             x[i] = IF i <= Len(delivered[t]) THEN delivered[t][i] ELSE cur[t]
  BY DeliverAppends
<1>2. /\ d \in Seq(Int) /\ e \in Seq(Int) /\ k \in Nat /\ n \in Nat /\ Attempts \in Nat
      /\ n <= Attempts /\ cur[t] \in Int /\ pos[t] \in Int
      /\ DOMAIN d = 1..k /\ DOMAIN e = 1..(k + n)
      /\ \A i \in 1..(k + n) : e[i] = IF i <= k THEN d[i] ELSE cur[t]
      /\ \A i \in 1..k : d[i] \in Int
  BY <1>1, AttemptsAssumption DEF EngineTypeOK
<1>3. /\ \A i, j \in 1..k : i < j => d[i] <= d[j]
      /\ \A i, j \in 1..k : d[i] = d[j] => j - i < Attempts
      /\ \A i \in 1..k : job.start <= d[i] /\ d[i] < job.end /\ d[i] < pos[t] /\ d[i] < cur[t]
      /\ job.start <= cur[t] /\ cur[t] < job.end /\ cur[t] < pos[t]
  BY <1>2 DEF Ahead, InOrder
<1> HIDE DEF d, e, k
<1>4. ASSUME NEW i \in 1..(k + n)
      PROVE  /\ job.start <= e[i] /\ e[i] < job.end /\ e[i] < pos[t]
             /\ e[i] = IF i <= k THEN d[i] ELSE cur[t]
             /\ i \in 1..k \/ (i > k /\ i <= k + n)
  BY <1>2, <1>3
<1>5. ASSUME NEW i \in 1..(k + n), NEW j \in 1..(k + n)
      PROVE  (i < j => e[i] <= e[j]) /\ (e[i] = e[j] => j - i < Attempts)
  <2>1. CASE i <= k /\ j <= k
    <3>1. i \in 1..k /\ j \in 1..k /\ e[i] = d[i] /\ e[j] = d[j]
      BY <1>2, <1>4, <2>1
    <3> QED
      BY <1>3, <3>1
  <2>2. CASE i <= k /\ ~(j <= k)
    <3>1. i \in 1..k /\ e[i] = d[i] /\ e[j] = cur[t]
      BY <1>2, <1>4, <2>2
    <3>2. d[i] < cur[t] /\ d[i] \in Int /\ cur[t] \in Int
      BY <1>2, <1>3, <3>1
    <3> QED
      BY <3>1, <3>2
  <2>3. CASE ~(i <= k) /\ j <= k
    BY <1>2, <2>3
  <2>4. CASE ~(i <= k) /\ ~(j <= k)
    <3>1. e[i] = cur[t] /\ e[j] = cur[t] /\ i > k /\ j <= k + n
      BY <1>2, <1>4, <2>4
    <3>2. j - i < Attempts
      BY <1>2, <3>1
    <3> QED
      BY <1>2, <3>1, <3>2
  <2> QED
    BY <2>1, <2>2, <2>3, <2>4
<1> QED
  BY <1>2, <1>4, <1>5 DEF InOrder, e

LEMMA OrderStep ==
  EngineTypeOK /\ OrderInv /\ [EngineNext]_engineVars => OrderInv'
<1> SUFFICES ASSUME EngineTypeOK, OrderInv, [EngineNext]_engineVars, NEW t \in Streams
             PROVE  Ahead(t)'
  BY DEF OrderInv
<1> Ahead(t)
  BY DEF OrderInv
\* The message in hand is delivered, and the stream goes on or is dropped.
<1>d. ASSUME NEW s \in Streams, epc[s] = "handle", Deliver(s), UNCHANGED <<job, pos, cur>>,
             NEW to \in {"yield", "fetch", "closed"}, epc' = [epc EXCEPT ![s] = to]
      PROVE  Ahead(t)'
  <2>1. CASE s # t
    <3>1. epc'[t] = epc[t] /\ delivered'[t] = delivered[t]
      BY <1>d, <2>1, DeliverType DEF EngineTypeOK
    <3> QED
      BY <1>d, <3>1 DEF Ahead, InOrder
  <2>2. CASE s = t
    <3>1. InOrder(t)'
      BY <1>d, <2>2, DeliverKeepsOrder
    <3>2. epc'[t] = to /\ job.start <= pos'[t]
      BY <1>d, <2>2 DEF EngineTypeOK, Ahead
    <3> QED
      BY <1>d, <3>1, <3>2 DEF Ahead
  <2> QED
    BY <2>1, <2>2
<1> USE DEF EngineTypeOK, Ahead, InOrder
<1>1. ASSUME NEW s \in Streams, OpenAccepted(s) PROVE Ahead(t)'
  <2>1. /\ epc[s] = "open" /\ epc' = [epc EXCEPT ![s] = "fetch"]
        /\ pos' = [pos EXCEPT ![s] = job.start]
        /\ UNCHANGED <<job, cur, delivered>>
    BY <1>1 DEF OpenAccepted, Moves, source
  <2>2. CASE s # t
    BY <2>1, <2>2
  <2>3. CASE s = t
    <3>1. delivered'[t] = << >> /\ pos'[t] = job.start /\ epc'[t] = "fetch"
      BY <2>1, <2>3
    <3> QED
      BY <2>1, <3>1, RangeIsInt
  <2> QED
    BY <2>2, <2>3
<1>2. ASSUME NEW s \in Streams, OpenRejected(s) PROVE Ahead(t)'
  BY RangeIsInt, <1>2 DEF OpenRejected, Moves, source
<1>3. ASSUME NEW s \in Streams, ConsumeFails(s) PROVE Ahead(t)'
  BY RangeIsInt, <1>3 DEF ConsumeFails, Moves, source
<1>4. ASSUME NEW s \in Streams, FetchRecord(s) PROVE Ahead(t)'
  <2>1. CASE s # t
    BY RangeIsInt, <1>4, <2>1 DEF FetchRecord, Moves, source, IsNext, PastRange
  <2>2. CASE s = t
    <3>1. PICK o \in records : IsNext(s, o) /\ ~PastRange(s, o)
                              /\ cur' = [cur EXCEPT ![s] = o] /\ pos' = [pos EXCEPT ![s] = o + 1]
      BY <1>4 DEF FetchRecord
    <3>2. o \in Int /\ pos[t] <= o /\ o < job.end /\ cur'[t] = o /\ pos'[t] = o + 1
      BY <2>2, <3>1, RangeIsInt, OffsetsAssumption DEF IsNext, PastRange
    <3>3. /\ epc[t] = "fetch" /\ epc'[t] = "handle" /\ job' = job
          /\ delivered'[t] = delivered[t]
      BY <1>4, <2>2 DEF FetchRecord, Moves, source
    <3>4. DOMAIN delivered'[t] = DOMAIN delivered[t]
      BY <3>3
    <3>5. \A i \in DOMAIN delivered[t] : delivered[t][i] < o /\ delivered[t][i] < o + 1
      <4> SUFFICES ASSUME NEW i \in DOMAIN delivered[t]
                   PROVE  delivered[t][i] < o /\ delivered[t][i] < o + 1
        OBVIOUS
      <4>1. delivered[t][i] \in Int /\ delivered[t][i] < pos[t] /\ pos[t] \in Int
        OBVIOUS
      <4> HIDE DEF EngineTypeOK, Ahead, InOrder
      <4> QED
        BY <4>1, <3>2
    <3>6. /\ job.start <= pos[t] /\ job.start \in Int /\ pos[t] \in Int
          /\ \A i \in DOMAIN delivered[t] :
               job.start <= delivered[t][i] /\ delivered[t][i] < job.end
          /\ \A i, j \in DOMAIN delivered[t] : i < j => delivered[t][i] <= delivered[t][j]
          /\ \A i, j \in DOMAIN delivered[t] :
               delivered[t][i] = delivered[t][j] => j - i < Attempts
      BY <3>3, RangeIsInt
    <3> HIDE DEF EngineTypeOK, Ahead
    <3>7. job.start <= o
      BY <3>2, <3>6
    <3>8. InOrder(t)'
      BY <3>2, <3>3, <3>4, <3>5, <3>6
    <3> USE DEF Ahead
    <3> HIDE DEF InOrder
    <3> QED
      BY <3>2, <3>3, <3>4, <3>5, <3>6, <3>7, <3>8
  <2> QED
    BY <2>1, <2>2
<1>5. ASSUME NEW s \in Streams, FetchPastEnd(s) PROVE Ahead(t)'
  BY RangeIsInt, <1>5 DEF FetchPastEnd, Moves, source
<1>6. ASSUME NEW s \in Streams, TransformFails(s) PROVE Ahead(t)'
  BY RangeIsInt, <1>6 DEF TransformFails, CountError, Moves, source
<1>7. ASSUME NEW s \in Streams, DryRunSkips(s) PROVE Ahead(t)'
  BY RangeIsInt, <1>7 DEF DryRunSkips, CountSuccess, Moves, source
<1>8. ASSUME NEW s \in Streams, ProduceAcknowledged(s) PROVE Ahead(t)'
  <2>1. /\ epc[s] = "handle" /\ \E to \in {"yield", "fetch"} : epc' = [epc EXCEPT ![s] = to]
        /\ Deliver(s) /\ UNCHANGED <<job, pos, cur>>
    BY <1>8 DEF ProduceAcknowledged, CountSuccess, Moves, source
  <2> QED
    BY <2>1, <1>d
<1>9. ASSUME NEW s \in Streams, ProduceRejected(s) PROVE Ahead(t)'
  BY RangeIsInt, <1>9 DEF ProduceRejected, CountError, Moves, source
<1>10. ASSUME NEW s \in Streams, ProduceUnconfirmed(s) PROVE Ahead(t)'
  <2>1. /\ epc[s] = "handle" /\ \E to \in {"yield", "fetch"} : epc' = [epc EXCEPT ![s] = to]
        /\ Deliver(s) /\ UNCHANGED <<job, pos, cur>>
    BY <1>10 DEF ProduceUnconfirmed, CountError, Moves, source
  <2> QED
    BY <2>1, <1>d
<1>11. ASSUME NEW s \in Streams, Begin(s) PROVE Ahead(t)'
  BY RangeIsInt, <1>11 DEF Begin, Moves, source
<1>12. ASSUME NEW s \in Streams, Continue(s) PROVE Ahead(t)'
  BY RangeIsInt, <1>12 DEF Continue, Moves, source
<1>13. ASSUME NEW s \in Streams, Exhaust(s) PROVE Ahead(t)'
  BY RangeIsInt, <1>13 DEF Exhaust, Moves, source
<1>14. ASSUME NEW s \in Streams, Close(s) PROVE Ahead(t)'
  <2>1. epc' = [epc EXCEPT ![s] = "closed"] /\ UNCHANGED <<job, pos, cur>>
    BY <1>14 DEF Close, Moves, source
  <2>2. CASE UNCHANGED delivered
    BY RangeIsInt, <2>1, <2>2
  <2>3. CASE epc[s] = "handle" /\ Deliver(s)
    BY <2>1, <2>3, <1>d
  <2> QED
    BY <1>14, <2>2, <2>3 DEF Close
<1>15. CASE AppendSource
  BY RangeIsInt, <1>15 DEF AppendSource, locals
<1>16. CASE UNCHANGED engineVars
  BY RangeIsInt, <1>16 DEF engineVars
<1> QED
  BY <1>1, <1>2, <1>3, <1>4, <1>5, <1>6, <1>7, <1>8, <1>9, <1>10, <1>11, <1>12,
     <1>13, <1>14, <1>15, <1>16 DEF EngineNext, EngineStep, EngineProgress

LEMMA OrderInit == EngineInit => OrderInv
  BY DEF EngineInit, OrderInv, Ahead, InOrder

\* A stream's deliveries are in source order, inside the half-open range and behind
\* its consumer; a message is repeated by the client's retries only.
THEOREM DeliveriesAreInOrder == EngineSpec => []DeliveredInOrder
<1>1. OrderInv => DeliveredInOrder
  BY DEF OrderInv, Ahead, DeliveredInOrder
<1> QED
  BY <1>1, OrderInit, OrderStep, EngineTypeCorrect, PTL DEF EngineSpec

-----------------------------------------------------------------------------
(* Counting and delivering *)

\* What a stream has delivered are messages of its range.
LEMMA DeliveredIsFinite ==
  ASSUME EngineTypeOK, NEW t \in Streams, InOrder(t)
  PROVE  IsFiniteSet(Delivered(t)) /\ Cardinality(Delivered(t)) \in Nat
<1>1. /\ job.start \in Int /\ job.end - 1 \in Int
      /\ \A i \in DOMAIN delivered[t] : delivered[t][i] \in Int
  BY RangeIsInt DEF EngineTypeOK
<1>2. Delivered(t) \in SUBSET (job.start..(job.end - 1))
  BY <1>1, RangeIsInt DEF Delivered, InOrder
<1>3. IsFiniteSet(job.start..(job.end - 1))
  BY <1>1, FS_Interval
<1>4. IsFiniteSet(Delivered(t))
  BY <1>2, <1>3, FS_Subset
<1> QED
  BY <1>4, FS_CardinalityType

\* However often the message in hand is appended, it is one message more.
LEMMA DeliverAddsOne ==
  ASSUME EngineTypeOK, NEW t \in Streams, Ahead(t), epc[t] = "handle", Deliver(t)
  PROVE  Cardinality(Delivered(t)') = Cardinality(Delivered(t)) + 1
<1> DEFINE k == Len(delivered[t])
<1>1. PICK n \in 1..Attempts : \E x \in Seq(Int) :
        /\ delivered' = [delivered EXCEPT ![t] = x]
        /\ Len(x) = Len(delivered[t]) + n
        /\ \A i \in 1..Len(x) :
             x[i] = IF i <= Len(delivered[t]) THEN delivered[t][i] ELSE cur[t]
  BY DeliverAppends
<1>2. /\ k \in Nat /\ n \in Nat /\ n >= 1
      /\ DOMAIN delivered[t] = 1..k /\ DOMAIN delivered'[t] = 1..(k + n)
      /\ \A i \in 1..(k + n) : delivered'[t][i] = IF i <= k THEN delivered[t][i] ELSE cur[t]
  BY <1>1, AttemptsAssumption DEF EngineTypeOK
<1> HIDE DEF k
<1>3. Delivered(t)' = {delivered'[t][i] : i \in 1..(k + n)}
  BY <1>2 DEF Delivered
<1>4. \A i \in 1..k : i \in 1..(k + n) /\ delivered'[t][i] = delivered[t][i]
  BY <1>2
<1>5. k + 1 \in 1..(k + n) /\ delivered'[t][k + 1] = cur[t]
  BY <1>2
<1>6. \A i \in 1..(k + n) : delivered'[t][i] = cur[t] \/ i \in 1..k
  BY <1>2
<1>7. Delivered(t)' = Delivered(t) \union {cur[t]}
  BY <1>2, <1>3, <1>4, <1>5, <1>6 DEF Delivered
<1>8. cur[t] \notin Delivered(t)
  <2>1. \A i \in DOMAIN delivered[t] :
          delivered[t][i] < cur[t] /\ delivered[t][i] \in Int /\ cur[t] \in Int
    BY DEF Ahead, EngineTypeOK
  <2> QED
    BY <2>1 DEF Delivered
<1>9. IsFiniteSet(Delivered(t))
  BY DeliveredIsFinite DEF Ahead
<1> QED
  BY <1>7, <1>8, <1>9, FS_AddElement

LEMMA CountedStep ==
  EngineTypeOK /\ OrderInv /\ CountedMeansDelivered /\ [EngineNext]_engineVars
    => CountedMeansDelivered'
<1> SUFFICES ASSUME EngineTypeOK, OrderInv, CountedMeansDelivered, [EngineNext]_engineVars,
                    NEW t \in Streams
             PROVE  Backed(t)'
  BY DEF CountedMeansDelivered
<1>a. Backed(t) /\ Ahead(t) /\ job' = job
  BY JobIsFixed DEF CountedMeansDelivered, OrderInv
<1>b. /\ mc \in [Streams -> Nat] /\ ec \in [Streams -> Nat] /\ epc \in [Streams -> EnginePC]
      /\ Cardinality(Delivered(t)) \in Nat
  BY <1>a, DeliveredIsFinite DEF EngineTypeOK, Ahead
\* Nothing is delivered, and what is counted grows as errors only, or not at all.
<1>c. ASSUME delivered'[t] = delivered[t], mc'[t] = mc[t], ec'[t] \in {ec[t], ec[t] + 1},
             epc'[t] \in {epc[t], "closed"} \/ epc[t] # "closed"
      PROVE  Backed(t)'
  <2>1. Delivered(t)' = Delivered(t)
    BY <1>c DEF Delivered
  <2> QED
    BY <1>a, <1>b, <1>c, <2>1 DEF Backed
\* The message in hand is delivered, and counted unless the stream is dropped.
<1>d. ASSUME ~job.dryRun, epc[t] = "handle", Deliver(t),
             \/ mc'[t] = mc[t] + 1 /\ ec'[t] = ec[t]
             \/ mc'[t] = mc[t] /\ ec'[t] = ec[t] + 1
             \/ mc'[t] = mc[t] /\ ec'[t] = ec[t] /\ epc'[t] = "closed"
      PROVE  Backed(t)'
  <2>1. Cardinality(Delivered(t)') = Cardinality(Delivered(t)) + 1
    BY <1>a, <1>d, DeliverAddsOne
  <2>2. mc[t] <= Cardinality(Delivered(t)) /\ Cardinality(Delivered(t)) <= mc[t] + ec[t]
    BY <1>a, <1>b, <1>d DEF Backed
  <2> QED
    BY <1>a, <1>b, <1>d, <2>1, <2>2 DEF Backed
\* Another stream does something.
<1>e. ASSUME NEW s \in Streams, s # t, delivered' = delivered \/ Deliver(s),
             NEW to, epc' = [epc EXCEPT ![s] = to],
             mc' = mc \/ mc' = [mc EXCEPT ![s] = @ + 1],
             ec' = ec \/ ec' = [ec EXCEPT ![s] = @ + 1]
      PROVE  Backed(t)'
  <2>1. delivered'[t] = delivered[t]
    BY <1>e, DeliverType
  <2>2. mc'[t] = mc[t] /\ ec'[t] = ec[t] /\ epc'[t] = epc[t]
    BY <1>b, <1>e
  <2> QED
    BY <1>c, <2>1, <2>2
<1>1. ASSUME NEW s \in Streams,
             \/ OpenAccepted(s) \/ OpenRejected(s) \/ ConsumeFails(s) \/ FetchRecord(s)
             \/ FetchPastEnd(s) \/ Begin(s) \/ Continue(s) \/ Exhaust(s)
      PROVE  Backed(t)'
  <2>1. /\ UNCHANGED <<mc, ec, delivered>> /\ epc[s] # "closed"
        /\ \E to : epc' = [epc EXCEPT ![s] = to]
    BY <1>1 DEF OpenAccepted, OpenRejected, ConsumeFails, FetchRecord, FetchPastEnd, Begin,
       Continue, Exhaust, Moves
  <2> QED
    BY <1>b, <1>c, <1>e, <2>1
<1>2. ASSUME NEW s \in Streams, TransformFails(s) \/ ProduceRejected(s) PROVE Backed(t)'
  <2>1. /\ UNCHANGED <<mc, delivered>> /\ epc[s] = "handle"
        /\ epc' = [epc EXCEPT ![s] = "fetch"] /\ ec' = [ec EXCEPT ![s] = @ + 1]
    BY <1>2 DEF TransformFails, ProduceRejected, CountError, Moves
  <2> QED
    BY <1>b, <1>c, <1>e, <2>1
<1>3. ASSUME NEW s \in Streams, DryRunSkips(s) PROVE Backed(t)'
  <2>1. /\ UNCHANGED <<ec, delivered>> /\ job.dryRun
        /\ epc' = [epc EXCEPT ![s] = "yield"] /\ mc' = [mc EXCEPT ![s] = @ + 1]
    BY <1>3 DEF DryRunSkips, CountSuccess, Moves
  <2> QED
    BY <1>a, <1>e, <2>1 DEF Backed
<1>4. ASSUME NEW s \in Streams, ProduceAcknowledged(s) PROVE Backed(t)'
  <2>1. /\ ec' = ec /\ Deliver(s) /\ ~job.dryRun /\ epc[s] = "handle"
        /\ epc' = [epc EXCEPT ![s] = "yield"] /\ mc' = [mc EXCEPT ![s] = @ + 1]
    BY <1>4 DEF ProduceAcknowledged, CountSuccess, Moves
  <2> QED
    BY <1>b, <1>d, <1>e, <2>1
<1>5. ASSUME NEW s \in Streams, ProduceUnconfirmed(s) PROVE Backed(t)'
  <2>1. /\ mc' = mc /\ Deliver(s) /\ ~job.dryRun /\ epc[s] = "handle"
        /\ epc' = [epc EXCEPT ![s] = "fetch"] /\ ec' = [ec EXCEPT ![s] = @ + 1]
    BY <1>5 DEF ProduceUnconfirmed, CountError, Moves
  <2> QED
    BY <1>b, <1>d, <1>e, <2>1
<1>6. ASSUME NEW s \in Streams, Close(s) PROVE Backed(t)'
  <2>1. /\ UNCHANGED <<mc, ec>> /\ epc' = [epc EXCEPT ![s] = "closed"]
        /\ UNCHANGED delivered \/ (~job.dryRun /\ epc[s] = "handle" /\ Deliver(s))
    BY <1>6 DEF Close, Moves
  <2>2. CASE s # t
    BY <1>e, <2>1, <2>2
  <2>3. CASE s = t
    BY <1>b, <1>c, <1>d, <2>1, <2>3
  <2> QED
    BY <2>2, <2>3
<1>7. CASE AppendSource
  BY <1>7, <1>c DEF AppendSource, locals
<1>8. CASE UNCHANGED engineVars
  BY <1>8, <1>c DEF engineVars
<1> QED
  BY <1>1, <1>2, <1>3, <1>4, <1>5, <1>6, <1>7, <1>8 DEF EngineNext, EngineStep, EngineProgress

LEMMA CountedInit == EngineInit => CountedMeansDelivered
<1> SUFFICES ASSUME EngineInit, NEW s \in Streams PROVE Backed(s)
  BY DEF CountedMeansDelivered
<1>1. delivered[s] = << >> /\ mc[s] = 0 /\ ec[s] = 0 /\ epc[s] = "idle"
  BY DEF EngineInit
<1>2. Delivered(s) = {}
  BY <1>1 DEF Delivered
<1>3. Cardinality(Delivered(s)) = 0
  BY <1>2, FS_EmptySet
<1> QED
  BY <1>1, <1>3 DEF Backed

\* message_count never exceeds the number of different messages on the destination, and
\* those are counted but for the one in hand of a dropped stream; a dry run puts nothing
\* there.
THEOREM CountedIsDelivered == EngineSpec => []CountedMeansDelivered
  BY CountedInit, CountedStep, OrderInit, OrderStep, EngineTypeCorrect, PTL DEF EngineSpec

-----------------------------------------------------------------------------
(* Progress percentage *)

\* max_messages keeps what was consumed, and so what was counted, within Total.
Bounded(s) ==
  /\ mc[s] <= Total /\ consumed[s] <= Total /\ mc[s] <= consumed[s] + 1
  /\ epc[s] \in {"handle", "yield"} => consumed[s] < Total
  /\ epc[s] \notin {"yield", "closed"} => mc[s] <= consumed[s]

CountsBounded == Total > 0 => \A s \in Streams : Bounded(s)

LEMMA BoundedStep ==
  EngineTypeOK /\ CountsBounded /\ [EngineNext]_engineVars => CountsBounded'
<1> SUFFICES ASSUME EngineTypeOK, CountsBounded, [EngineNext]_engineVars,
                    (Total > 0)', NEW t \in Streams
             PROVE  Bounded(t)'
  BY DEF CountsBounded
<1>a. Total' = Total /\ Total \in Int
  BY JobIsFixed, RangeIsInt DEF Total
<1> Total > 0 /\ Bounded(t)
  BY <1>a DEF CountsBounded
<1>t. /\ epc \in [Streams -> EnginePC] /\ mc \in [Streams -> Nat]
      /\ consumed \in [Streams -> Nat]
  BY DEF EngineTypeOK
<1>b. ASSUME NEW s \in Streams, CountSuccess(s), consumed' = consumed PROVE Bounded(t)'
  <2>1. CASE s # t
    BY <1>a, <1>b, <1>t, <2>1 DEF CountSuccess, Moves, Bounded
  <2>2. CASE s = t
    <3>1. /\ epc[t] = "handle" /\ epc'[t] = "yield"
          /\ mc'[t] = mc[t] + 1 /\ consumed'[t] = consumed[t]
      BY <1>b, <1>t, <2>2 DEF CountSuccess, Moves
    <3>2. mc[t] \in Nat /\ consumed[t] \in Nat
      BY <1>t
    <3> QED
      BY <1>a, <3>1, <3>2 DEF Bounded
  <2> QED
    BY <2>1, <2>2
<1>c. ASSUME NEW s \in Streams, CountError(s), mc' = mc PROVE Bounded(t)'
  <2>1. CASE s # t
    BY <1>a, <1>c, <1>t, <2>1 DEF CountError, Moves, Bounded
  <2>2. CASE s = t
    <3>1. /\ epc[t] = "handle" /\ epc'[t] = "fetch"
          /\ mc'[t] = mc[t] /\ consumed'[t] = consumed[t] + 1
      BY <1>c, <1>t, <2>2 DEF CountError, Moves
    <3>2. mc[t] \in Nat /\ consumed[t] \in Nat
      BY <1>t
    <3> QED
      BY <1>a, <3>1, <3>2 DEF Bounded
  <2> QED
    BY <2>1, <2>2
<1> USE DEF EngineTypeOK, Bounded, EnginePC
<1>1. ASSUME NEW s \in Streams, OpenAccepted(s) PROVE Bounded(t)'
  BY <1>a, <1>1 DEF OpenAccepted, Moves, source
<1>2. ASSUME NEW s \in Streams, OpenRejected(s) PROVE Bounded(t)'
  BY <1>a, <1>2 DEF OpenRejected, Moves, source
<1>3. ASSUME NEW s \in Streams, ConsumeFails(s) PROVE Bounded(t)'
  BY <1>a, <1>3 DEF ConsumeFails, Moves, source
<1>4. ASSUME NEW s \in Streams, FetchRecord(s) PROVE Bounded(t)'
  BY <1>a, <1>4 DEF FetchRecord, Moves, source, PastRange
<1>5. ASSUME NEW s \in Streams, FetchPastEnd(s) PROVE Bounded(t)'
  BY <1>a, <1>5 DEF FetchPastEnd, Moves, source
<1>6. ASSUME NEW s \in Streams, TransformFails(s) PROVE Bounded(t)'
  BY <1>6, <1>c DEF TransformFails
<1>7. ASSUME NEW s \in Streams, DryRunSkips(s) PROVE Bounded(t)'
  BY <1>7, <1>b DEF DryRunSkips
<1>8. ASSUME NEW s \in Streams, ProduceAcknowledged(s) PROVE Bounded(t)'
  BY <1>8, <1>b DEF ProduceAcknowledged
<1>9. ASSUME NEW s \in Streams, ProduceRejected(s) PROVE Bounded(t)'
  BY <1>9, <1>c DEF ProduceRejected
<1>10. ASSUME NEW s \in Streams, ProduceUnconfirmed(s) PROVE Bounded(t)'
  BY <1>10, <1>c DEF ProduceUnconfirmed
<1>11. ASSUME NEW s \in Streams, Begin(s) PROVE Bounded(t)'
  BY <1>a, <1>11 DEF Begin, Moves, source
<1>12. ASSUME NEW s \in Streams, Continue(s) PROVE Bounded(t)'
  BY <1>a, <1>12 DEF Continue, Moves, source
<1>13. ASSUME NEW s \in Streams, Exhaust(s) PROVE Bounded(t)'
  BY <1>a, <1>13 DEF Exhaust, Moves, source
<1>14. ASSUME NEW s \in Streams, Close(s) PROVE Bounded(t)'
  <2>1. /\ mc' = mc /\ consumed' = consumed
        /\ epc'[t] = epc[t] \/ epc'[t] = "closed"
    BY <1>14 DEF Close, Moves
  <2> QED
    BY <1>a, <2>1
<1>15. CASE AppendSource
  BY <1>a, <1>15 DEF AppendSource, locals
<1>16. CASE UNCHANGED engineVars
  BY <1>a, <1>16 DEF engineVars
<1> QED
  BY <1>1, <1>2, <1>3, <1>4, <1>5, <1>6, <1>7, <1>8, <1>9, <1>10, <1>11, <1>12,
     <1>13, <1>14, <1>15, <1>16 DEF EngineNext, EngineStep, EngineProgress

LEMMA BoundedInit == EngineInit => CountsBounded
<1> SUFFICES ASSUME EngineInit, Total > 0 PROVE \A s \in Streams : Bounded(s)
  BY DEF CountsBounded
<1>1. Total \in Int
  BY EngineTypeInit, RangeIsInt DEF Total
<1> QED
  BY <1>1 DEF EngineInit, Bounded

\* No progress value claims more than 100 percent.
THEOREM PercentIsWithinBounds == EngineSpec => []PercentWithinBounds
<1>1. CountsBounded => PercentWithinBounds
  BY DEF CountsBounded, Bounded, PercentWithinBounds
<1> QED
  BY <1>1, BoundedInit, BoundedStep, EngineTypeCorrect, PTL DEF EngineSpec

-----------------------------------------------------------------------------
(* What COMPLETED means *)

\* The records of R from offset a up to b.
Between(R, a, b) == {r \in R : a <= r /\ r < b}

\* There are at most as many of them as there are offsets.
LEMMA BetweenIsFinite ==
  ASSUME NEW R \in SUBSET Int, NEW a \in Int, NEW b \in Int
  PROVE  /\ IsFiniteSet(Between(R, a, b))
         /\ Cardinality(Between(R, a, b)) \in Nat
         /\ Cardinality(Between(R, a, b)) <= IF a <= b THEN b - a ELSE 0
<1> DEFINE I == a..(b - 1)
           T == Between(R, a, b)
<1>1. IsFiniteSet(I) /\ Cardinality(I) = IF a > b - 1 THEN 0 ELSE (b - 1) - a + 1
  <2>1. b - 1 \in Int
    OBVIOUS
  <2> QED
    BY <2>1, FS_Interval
<1>2. T \in SUBSET I
  <2>1. \A r \in R : r \in Int
    OBVIOUS
  <2>2. ASSUME NEW r \in T PROVE r \in Int /\ a <= r /\ r < b
    BY <2>1, <2>2 DEF Between
  <2> HIDE DEF T
  <2> QED
    BY <2>2
<1> HIDE DEF I, T
<1>3. IsFiniteSet(T) /\ Cardinality(T) <= Cardinality(I)
  BY <1>1, <1>2, FS_Subset
<1>4. Cardinality(T) \in Nat
  BY <1>3, FS_CardinalityType
<1> QED
  BY <1>1, <1>3, <1>4 DEF T

\* Reading the next record adds one.
LEMMA BetweenNext ==
  ASSUME NEW R \in SUBSET Int, NEW a \in Int, NEW p \in Int, NEW o \in R, a <= p, p <= o,
         \A r \in R : r >= p => o <= r
  PROVE  Cardinality(Between(R, a, o + 1)) = Cardinality(Between(R, a, p)) + 1
<1>1. Between(R, a, o + 1) = Between(R, a, p) \union {o}
  <2>1. o \in Int /\ \A r \in R : r \in Int
    OBVIOUS
  <2>2. ASSUME NEW r \in R, a <= r, r < o + 1 PROVE r = o \/ r < p
    <3>1. r \in Int /\ (r >= p => o <= r)
      BY <2>1
    <3> QED
      BY <2>1, <2>2, <3>1
  <2>3. ASSUME NEW r \in R, r < p \/ r = o PROVE r < o + 1
    BY <2>1, <2>3
  <2>4. a <= o
    BY <2>1
  <2> QED
    BY <2>2, <2>3, <2>4 DEF Between
<1>2. o \notin Between(R, a, p)
  BY DEF Between
<1> QED
  BY <1>1, <1>2, BetweenIsFinite, FS_AddElement

\* Nothing is left between the position and the end when the next record is at
\* or past the end.
LEMMA BetweenAll ==
  ASSUME NEW R \in SUBSET Int, NEW a \in Int, NEW p \in Int, NEW b \in Int, NEW o \in R,
         a <= p, p <= b \/ p = a, b <= o, \A r \in R : r >= p => o <= r
  PROVE  Between(R, a, p) = Between(R, a, b)
<1>1. \A r \in R : r \in Int
  OBVIOUS
<1>2. ASSUME NEW r \in R, a <= r, r < p PROVE r < b
  BY <1>1, <1>2
<1>3. ASSUME NEW r \in R, a <= r, r < b PROVE r < p
  BY <1>1, <1>3
<1> QED
  BY <1>2, <1>3 DEF Between

\* A record appended behind b is not between a and b.
LEMMA BetweenGrown ==
  ASSUME NEW R \in SUBSET Int, NEW a \in Int, NEW b \in Int, NEW l \in Int, b <= l,
         NEW Q \in {R, R \union {l}}
  PROVE  Between(Q, a, b) = Between(R, a, b)
BY DEF Between

\* A consumer at work stands inside the log and has handed over every record
\* between offset_start and its position, one of which may still be in hand.
Read(s) ==
  /\ epc[s] \in {"fetch", "handle", "yield", "final"} =>
       /\ job.start <= pos[s] /\ pos[s] <= latest /\ job.end <= latest
       /\ pos[s] <= job.end \/ pos[s] = job.start
  /\ epc[s] \in {"idle", "open"} => consumed[s] = 0
  /\ epc[s] = "fetch" =>
       consumed[s] = Cardinality(Between(records, job.start, pos[s]))
  /\ epc[s] \in {"handle", "yield"} =>
       consumed[s] + 1 = Cardinality(Between(records, job.start, pos[s]))
  /\ epc[s] = "final" =>
       consumed[s] = Cardinality(Between(records, job.start, job.end))

ReadInv == \A s \in Streams : Read(s)

LEMMA ReadTypes ==
  EngineTypeOK =>
    /\ job.start \in Int /\ job.end \in Int /\ latest \in Int /\ records \in SUBSET Int
    /\ \A s \in Streams : pos[s] \in Int /\ consumed[s] \in Nat
  BY RangeIsInt, OffsetsAssumption DEF EngineTypeOK

\* A stream that does not move keeps what it has read.
LEMMA ReadUnmoved ==
  ASSUME NEW t \in Streams, Read(t), source' = source,
         epc'[t] = epc[t], pos'[t] = pos[t], consumed'[t] = consumed[t]
  PROVE  Read(t)'
  BY DEF Read, source

\* A stream that ends without COMPLETED has nothing to show.
LEMMA ReadOver ==
  ASSUME NEW t \in Streams,
         epc'[t] \notin {"idle", "open", "fetch", "handle", "yield", "final"}
  PROVE  Read(t)'
  BY DEF Read

\* max_messages is one more than the range holds: only offset_end ends the loop.
LEMMA OnlyTheEndEnds ==
  ASSUME EngineTypeOK, NEW t \in Streams, Read(t), epc[t] = "fetch",
         NEW o \in records, IsNext(t, o), PastRange(t, o)
  PROVE  job.end <= o
<1> SUFFICES ASSUME ~(job.end <= o) PROVE FALSE
  OBVIOUS
<1>1. /\ job.start \in Int /\ job.end \in Int /\ records \in SUBSET Int /\ o \in Int
      /\ pos[t] \in Int /\ consumed[t] \in Nat
  BY ReadTypes
<1>2. /\ job.start <= pos[t] /\ pos[t] <= o /\ o < job.end
      /\ consumed[t] = Cardinality(Between(records, job.start, pos[t]))
  BY <1>1 DEF Read, IsNext
<1>3. consumed[t] <= pos[t] - job.start
  <2> DEFINE n == Cardinality(Between(records, job.start, pos[t]))
  <2>1. n <= IF job.start <= pos[t] THEN pos[t] - job.start ELSE 0
    BY <1>1, BetweenIsFinite
  <2> HIDE DEF n
  <2>2. consumed[t] = n
    BY <1>2 DEF n
  <2> QED
    BY <1>1, <1>2, <2>1, <2>2
<1>4. consumed[t] >= job.end - job.start + 1
  BY <1>1, <1>2 DEF PastRange, Total
<1> QED
  BY <1>1, <1>2, <1>3, <1>4

LEMMA ReadStep == EngineTypeOK /\ ReadInv /\ [EngineNext]_engineVars => ReadInv'
<1> SUFFICES ASSUME EngineTypeOK, ReadInv, [EngineNext]_engineVars, NEW t \in Streams
             PROVE  Read(t)'
  BY DEF ReadInv
<1>a. Read(t)
  BY DEF ReadInv
<1>b. /\ job.start \in Int /\ job.end \in Int /\ latest \in Int /\ records \in SUBSET Int
      /\ pos[t] \in Int /\ consumed[t] \in Nat
  BY ReadTypes
<1>c. /\ epc \in [Streams -> EnginePC] /\ pos \in [Streams -> Int]
      /\ consumed \in [Streams -> Nat]
  BY DEF EngineTypeOK
\* A message is finished, with an error or after its progress was yielded.
<1>d. ASSUME epc[t] \in {"handle", "yield"}, epc'[t] = "fetch", pos'[t] = pos[t],
             consumed'[t] = consumed[t] + 1, source' = source
      PROVE  Read(t)'
  BY <1>a, <1>d DEF Read, source
<1>e. ASSUME epc[t] = "handle", epc'[t] = "yield", pos'[t] = pos[t],
             consumed'[t] = consumed[t], source' = source
      PROVE  Read(t)'
  BY <1>a, <1>e DEF Read, source
<1>1. ASSUME NEW s \in Streams, OpenAccepted(s) PROVE Read(t)'
  <2>1. /\ epc[s] = "open" /\ epc' = [epc EXCEPT ![s] = "fetch"]
        /\ pos' = [pos EXCEPT ![s] = job.start]
        /\ source' = source /\ consumed' = consumed /\ RangeAccepted
    BY <1>1 DEF OpenAccepted, Moves
  <2>2. CASE s # t
    BY <1>a, <1>c, <2>1, <2>2, ReadUnmoved
  <2>3. CASE s = t
    <3>1. /\ epc'[t] = "fetch" /\ pos'[t] = job.start /\ consumed'[t] = 0
          /\ job.start <= latest /\ job.end <= latest
      BY <1>a, <1>b, <1>c, <2>1, <2>3 DEF RangeAccepted, Read
    <3>2. Cardinality(Between(records, job.start, job.start)) = 0
      BY <1>b, BetweenIsFinite
    <3> QED
      BY <1>b, <2>1, <3>1, <3>2 DEF Read, source
  <2> QED
    BY <2>2, <2>3
<1>2. ASSUME NEW s \in Streams, OpenRejected(s) \/ ConsumeFails(s) \/ Exhaust(s) \/ Close(s)
      PROVE  Read(t)'
  <2>1. /\ source' = source /\ pos' = pos /\ consumed' = consumed
        /\ \/ epc' = [epc EXCEPT ![s] = "failed"] \/ epc' = [epc EXCEPT ![s] = "finished"]
           \/ epc' = [epc EXCEPT ![s] = "aborted"] \/ epc' = [epc EXCEPT ![s] = "closed"]
    BY <1>2 DEF OpenRejected, ConsumeFails, Exhaust, Close, Moves
  <2>2. CASE s # t
    BY <1>a, <1>c, <2>1, <2>2, ReadUnmoved
  <2>3. CASE s = t
    BY <1>c, <2>1, <2>3, ReadOver
  <2> QED
    BY <2>2, <2>3
<1>3. ASSUME NEW s \in Streams, FetchRecord(s) PROVE Read(t)'
  <2>1. PICK o \in records : IsNext(s, o) /\ ~PastRange(s, o) /\ pos' = [pos EXCEPT ![s] = o + 1]
    BY <1>3 DEF FetchRecord
  <2>2. /\ epc[s] = "fetch" /\ epc' = [epc EXCEPT ![s] = "handle"]
        /\ source' = source /\ consumed' = consumed
    BY <1>3 DEF FetchRecord, Moves
  <2>3. CASE s # t
    BY <1>a, <1>c, <2>1, <2>2, <2>3, ReadUnmoved
  <2>4. CASE s = t
    <3>1. epc'[t] = "handle" /\ pos'[t] = o + 1 /\ consumed'[t] = consumed[t]
      BY <1>c, <2>1, <2>2, <2>4
    <3>2. /\ job.start <= pos[t] /\ job.end <= latest
          /\ consumed[t] = Cardinality(Between(records, job.start, pos[t]))
      BY <1>a, <2>2, <2>4 DEF Read
    <3>3. o \in Int /\ pos[t] <= o /\ o < job.end /\ \A r \in records : r >= pos[t] => o <= r
      BY <1>b, <2>1, <2>4 DEF IsNext, PastRange
    <3>4. Cardinality(Between(records, job.start, o + 1)) = consumed[t] + 1
      BY <1>b, <3>2, <3>3, BetweenNext
    <3> QED
      BY <1>b, <2>2, <3>1, <3>2, <3>3, <3>4 DEF Read, source
  <2> QED
    BY <2>3, <2>4
<1>4. ASSUME NEW s \in Streams, FetchPastEnd(s) PROVE Read(t)'
  <2>1. PICK o \in records : IsNext(s, o) /\ PastRange(s, o)
    BY <1>4 DEF FetchPastEnd
  <2>2. /\ epc[s] = "fetch" /\ epc' = [epc EXCEPT ![s] = "final"]
        /\ source' = source /\ consumed' = consumed /\ pos' = pos
    BY <1>4 DEF FetchPastEnd, Moves
  <2>3. CASE s # t
    BY <1>a, <1>c, <2>1, <2>2, <2>3, ReadUnmoved
  <2>4. CASE s = t
    <3>1. epc'[t] = "final" /\ pos'[t] = pos[t] /\ consumed'[t] = consumed[t]
      BY <1>c, <2>2, <2>4
    <3>2. /\ job.start <= pos[t] /\ pos[t] <= latest /\ job.end <= latest
          /\ pos[t] <= job.end \/ pos[t] = job.start
          /\ consumed[t] = Cardinality(Between(records, job.start, pos[t]))
      BY <1>a, <2>2, <2>4 DEF Read
    <3>3. o \in Int /\ pos[t] <= o /\ \A r \in records : r >= pos[t] => o <= r
      BY <1>b, <2>1, <2>4 DEF IsNext
    <3>4. job.end <= o
      BY <1>a, <2>1, <2>2, <2>4, OnlyTheEndEnds
    <3>5. Between(records, job.start, pos[t]) = Between(records, job.start, job.end)
      BY <1>b, <3>2, <3>3, <3>4, BetweenAll
    <3> QED
      BY <2>2, <3>1, <3>2, <3>5 DEF Read, source
  <2> QED
    BY <2>3, <2>4
<1>5. ASSUME NEW s \in Streams,
             TransformFails(s) \/ ProduceRejected(s) \/ ProduceUnconfirmed(s) \/ Continue(s)
      PROVE  Read(t)'
  <2>1. /\ epc[s] \in {"handle", "yield"} /\ epc' = [epc EXCEPT ![s] = "fetch"]
        /\ source' = source /\ pos' = pos
        /\ consumed' = [consumed EXCEPT ![s] = @ + 1]
    BY <1>5 DEF TransformFails, ProduceRejected, ProduceUnconfirmed, Continue, CountError, Moves
  <2>2. CASE s # t
    BY <1>a, <1>c, <2>1, <2>2, ReadUnmoved
  <2>3. CASE s = t
    BY <1>c, <1>d, <2>1, <2>3
  <2> QED
    BY <2>2, <2>3
<1>6. ASSUME NEW s \in Streams, DryRunSkips(s) \/ ProduceAcknowledged(s) PROVE Read(t)'
  <2>1. /\ epc[s] = "handle" /\ epc' = [epc EXCEPT ![s] = "yield"]
        /\ source' = source /\ pos' = pos /\ consumed' = consumed
    BY <1>6 DEF DryRunSkips, ProduceAcknowledged, CountSuccess, Moves
  <2>2. CASE s # t
    BY <1>a, <1>c, <2>1, <2>2, ReadUnmoved
  <2>3. CASE s = t
    BY <1>c, <1>e, <2>1, <2>3
  <2> QED
    BY <2>2, <2>3
<1>7. ASSUME NEW s \in Streams, Begin(s) PROVE Read(t)'
  <2>1. /\ epc[s] = "idle" /\ epc' = [epc EXCEPT ![s] = "open"]
        /\ source' = source /\ pos' = pos /\ consumed' = consumed
    BY <1>7 DEF Begin, Moves
  <2>2. CASE s # t
    BY <1>a, <1>c, <2>1, <2>2, ReadUnmoved
  <2>3. CASE s = t
    BY <1>a, <1>c, <2>1, <2>3 DEF Read
  <2> QED
    BY <2>2, <2>3
<1>8. CASE AppendSource
  <2>1. /\ latest' = latest + 1 /\ records' \in {records, records \union {latest}}
        /\ UNCHANGED <<job, epc, pos, consumed>>
    BY <1>8 DEF AppendSource, locals
  <2>2. ASSUME NEW b \in Int, b <= latest
        PROVE  Between(records', job.start, b) = Between(records, job.start, b)
    BY <1>b, <2>1, <2>2, BetweenGrown
  <2> QED
    BY <1>a, <1>b, <2>1, <2>2 DEF Read
<1>9. CASE UNCHANGED engineVars
  BY <1>9, <1>a, ReadUnmoved DEF engineVars, source
<1> QED
  BY <1>1, <1>2, <1>3, <1>4, <1>5, <1>6, <1>7, <1>8, <1>9
     DEF EngineNext, EngineStep, EngineProgress

LEMMA ReadInit == EngineInit => ReadInv
  BY DEF EngineInit, ReadInv, Read

\* A COMPLETED progress means that every record of the range was handed over:
\* no gap in the offsets and no max_messages ends the loop early.
THEOREM FinalMeansRangeIsRead == EngineSpec => []FinalMeansRangeRead
<1>1. ReadInv => FinalMeansRangeRead
  BY DEF ReadInv, Read, Between, FinalMeansRangeRead
<1> QED
  BY <1>1, ReadInit, ReadStep, EngineTypeCorrect, PTL DEF EngineSpec

-----------------------------------------------------------------------------
(* ReplayEngine implements RangeCopy, stream by stream *)

\* The refinement mapping of Copy(s).
Cursor(s) == CASE epc[s] = "handle"                     -> cur[s]
               [] epc[s] \in {"fetch", "yield", "final"} -> pos[s]
               [] OTHER                                  -> job.start
Phase(s) == CASE epc[s] \in {"idle", "open"}            -> "waiting"
              [] epc[s] \in {"fetch", "handle", "yield"} -> "copying"
              [] epc[s] = "final"                        -> "complete"
              [] OTHER                                  -> "over"

CopyMoves(s) == [Copy(s)!Next]_(Copy(s)!vars)

\* What the destination may hold after record r was dropped or copied.
After(s, r) == {delivered[s] \o [i \in 1..n |-> r] : n \in 0..Attempts}

\* The steps of RangeCopy, through the mapping.
LEMMA CopyStutters ==
  ASSUME NEW s, job' = job, records' = records, Cursor(s)' = Cursor(s),
         delivered'[s] = delivered[s], Phase(s)' = Phase(s)
  PROVE  CopyMoves(s)
BY DEF CopyMoves, Copy!vars, Cursor, Phase

LEMMA CopyStarts ==
  ASSUME NEW s, job' = job, records' = records, Cursor(s)' = Cursor(s),
         delivered'[s] = delivered[s], Phase(s) = "waiting", Phase(s)' = "copying"
  PROVE  CopyMoves(s)
BY DEF CopyMoves, Copy!Next, Copy!Start, Cursor, Phase

LEMMA CopyPasses ==
  ASSUME NEW s, job' = job, records' = records, NEW r \in records,
         Cursor(s) <= r, r < job.end, \A q \in records : Cursor(s) <= q => r <= q,
         Cursor(s)' = r + 1, delivered'[s] \in After(s, r),
         Phase(s) = "copying", Phase(s)' = "copying"
  PROVE  CopyMoves(s)
<1>1. Copy(s)!Pass
  BY DEF Copy!Pass, Copy!First, Copy!Left, Copy!After, After, Cursor, Phase
<1> QED
  BY <1>1 DEF CopyMoves, Copy!Next

LEMMA CopySkips ==
  ASSUME NEW s, job' = job, records' = records, NEW c \in records, c > Cursor(s),
         \A q \in records : Cursor(s) <= q => c <= q,
         Cursor(s)' = c, delivered'[s] = delivered[s],
         Phase(s) = "copying", Phase(s)' = "copying"
  PROVE  CopyMoves(s)
<1>1. Copy(s)!SkipHoles
  BY DEF Copy!SkipHoles, Cursor, Phase
<1> QED
  BY <1>1 DEF CopyMoves, Copy!Next

LEMMA CopyCompletes ==
  ASSUME NEW s, job' = job, records' = records, Cursor(s)' = Cursor(s),
         \A r \in records : ~(Cursor(s) <= r /\ r < job.end),
         delivered'[s] = delivered[s], Phase(s) = "copying", Phase(s)' = "complete"
  PROVE  CopyMoves(s)
<1>1. Copy(s)!Complete
  BY DEF Copy!Complete, Copy!Left, Cursor, Phase
<1> QED
  BY <1>1 DEF CopyMoves, Copy!Next

LEMMA CopyGivesUp ==
  ASSUME NEW s, job' = job, records' = records, Cursor(s)' = job.start,
         delivered'[s] = delivered[s], Phase(s) # "over", Phase(s)' = "over"
  PROVE  CopyMoves(s)
BY DEF CopyMoves, Copy!Next, Copy!GiveUp, Cursor, Phase

LEMMA CopyGivesUpInHand ==
  ASSUME NEW s, job' = job, records' = records, NEW r \in records,
         Cursor(s) <= r, r < job.end, \A q \in records : Cursor(s) <= q => r <= q,
         Cursor(s)' = job.start, delivered'[s] \in After(s, r),
         Phase(s) = "copying", Phase(s)' = "over"
  PROVE  CopyMoves(s)
<1>1. Copy(s)!GiveUp
  BY DEF Copy!GiveUp, Copy!First, Copy!Left, Copy!After, After, Cursor, Phase
<1> QED
  BY <1>1 DEF CopyMoves, Copy!Next

LEMMA CopyGrows ==
  ASSUME NEW s, job' = job, records \subseteq records', Cursor(s)' = Cursor(s),
         \A r \in records' \ records : Phase(s) \in {"copying", "complete"} => r >= job.end,
         delivered'[s] = delivered[s], Phase(s)' = Phase(s)
  PROVE  CopyMoves(s)
<1>1. Copy(s)!Grow
  BY DEF Copy!Grow, Cursor, Phase
<1> QED
  BY <1>1 DEF CopyMoves, Copy!Next

\* The message in hand is a record of the range, just behind the consumer.
InHand(s) ==
  epc[s] = "handle" => cur[s] \in records /\ pos[s] = cur[s] + 1 /\ cur[s] < job.end

HandInv == \A s \in Streams : InHand(s)

LEMMA HandStep == EngineTypeOK /\ HandInv /\ [EngineNext]_engineVars => HandInv'
<1> SUFFICES ASSUME EngineTypeOK, HandInv, [EngineNext]_engineVars, NEW t \in Streams
             PROVE  InHand(t)'
  BY DEF HandInv
<1>a. InHand(t)
  BY DEF HandInv
<1>t. /\ epc \in [Streams -> EnginePC] /\ pos \in [Streams -> Int] /\ cur \in [Streams -> Int]
      /\ job.end \in Int /\ records \in SUBSET Int
  BY ReadTypes DEF EngineTypeOK
<1>1. ASSUME NEW s \in Streams, FetchRecord(s) PROVE InHand(t)'
  <2>1. PICK o \in records : /\ IsNext(s, o) /\ ~PastRange(s, o)
                             /\ cur' = [cur EXCEPT ![s] = o] /\ pos' = [pos EXCEPT ![s] = o + 1]
    BY <1>1 DEF FetchRecord
  <2>2. epc' = [epc EXCEPT ![s] = "handle"] /\ UNCHANGED <<job, records>>
    BY <1>1 DEF FetchRecord, Moves, source
  <2>3. o \in Int /\ o < job.end
    BY <1>t, <2>1 DEF PastRange
  <2> QED
    BY <1>a, <1>t, <2>1, <2>2, <2>3 DEF InHand
<1>2. ASSUME NEW s \in Streams,
             \/ OpenAccepted(s) \/ OpenRejected(s) \/ ConsumeFails(s) \/ FetchPastEnd(s)
             \/ TransformFails(s) \/ DryRunSkips(s) \/ ProduceAcknowledged(s)
             \/ ProduceRejected(s) \/ ProduceUnconfirmed(s)
             \/ Begin(s) \/ Continue(s) \/ Exhaust(s) \/ Close(s)
      PROVE  InHand(t)'
  <2>1. /\ \E to \in EnginePC \ {"handle"} : epc' = [epc EXCEPT ![s] = to]
        /\ pos' = pos \/ pos' = [pos EXCEPT ![s] = job.start]
        /\ UNCHANGED <<job, records, cur>>
    BY <1>2 DEF OpenAccepted, OpenRejected, ConsumeFails, FetchPastEnd, TransformFails,
       DryRunSkips, ProduceAcknowledged, ProduceRejected, ProduceUnconfirmed, CountError,
       CountSuccess, Begin, Continue, Exhaust, Close, Moves, EnginePC, source
  <2> QED
    BY <1>a, <1>t, <2>1 DEF InHand
<1>3. CASE AppendSource
  BY <1>3, <1>a DEF AppendSource, locals, InHand
<1>4. CASE UNCHANGED engineVars
  BY <1>4, <1>a DEF engineVars, InHand
<1> QED
  BY <1>1, <1>2, <1>3, <1>4 DEF EngineNext, EngineStep, EngineProgress

LEMMA CopyStep ==
  EngineTypeOK /\ ReadInv /\ HandInv /\ [EngineNext]_engineVars
    => \A s \in Streams : CopyMoves(s)
<1> SUFFICES ASSUME EngineTypeOK, ReadInv, HandInv, [EngineNext]_engineVars, NEW t \in Streams
             PROVE  CopyMoves(t)
  OBVIOUS
<1>a. Read(t) /\ InHand(t)
  BY DEF ReadInv, HandInv
<1>t. /\ epc \in [Streams -> EnginePC] /\ pos \in [Streams -> Int] /\ cur \in [Streams -> Int]
      /\ job.start \in Int /\ job.end \in Int /\ latest \in Int /\ records \in SUBSET Int
      /\ delivered \in [Streams -> Seq(Int)]
  BY ReadTypes DEF EngineTypeOK
<1>u. ASSUME epc'[t] = epc[t], pos'[t] = pos[t], cur'[t] = cur[t],
             delivered'[t] = delivered[t], job' = job, records' = records
      PROVE  CopyMoves(t)
  <2>1. Cursor(t)' = Cursor(t) /\ Phase(t)' = Phase(t)
    BY <1>u DEF Cursor, Phase
  <2> QED
    BY <1>u, <2>1, CopyStutters
<1>1. ASSUME NEW s \in Streams, OpenAccepted(s) PROVE CopyMoves(t)
  <2>1. /\ epc[s] = "open" /\ epc' = [epc EXCEPT ![s] = "fetch"]
        /\ pos' = [pos EXCEPT ![s] = job.start]
        /\ UNCHANGED <<job, records, cur, delivered>>
    BY <1>1 DEF OpenAccepted, Moves, source
  <2>2. CASE s # t
    BY <1>t, <1>u, <2>1, <2>2
  <2>3. CASE s = t
    <3>1. /\ Cursor(t) = job.start /\ Cursor(t)' = job.start
          /\ Phase(t) = "waiting" /\ Phase(t)' = "copying"
      BY <1>t, <2>1, <2>3 DEF Cursor, Phase
    <3> QED
      BY <2>1, <3>1, CopyStarts
  <2> QED
    BY <2>2, <2>3
\* The message in hand, delivered or not, is the abstract cursor's.
<1>h. ASSUME epc[t] = "handle", delivered'[t] = delivered[t] \/ Deliver(t)
      PROVE  /\ Cursor(t) = cur[t] /\ Phase(t) = "copying"
             /\ cur[t] \in records /\ pos[t] = cur[t] + 1 /\ cur[t] < job.end
             /\ cur[t] \in Int /\ cur[t] <= cur[t]
             /\ delivered'[t] \in After(t, cur[t])
  <2>1. Cursor(t) = cur[t] /\ Phase(t) = "copying"
    BY <1>h DEF Cursor, Phase
  <2>2. /\ cur[t] \in records /\ pos[t] = cur[t] + 1 /\ cur[t] < job.end
        /\ cur[t] \in Int /\ cur[t] <= cur[t]
    BY <1>a, <1>h, <1>t DEF InHand
  <2>3. CASE delivered'[t] = delivered[t]
    <3>1. delivered[t] \in Seq(Int) /\ [i \in 1..0 |-> cur[t]] = << >>
      BY <1>t
    <3>2. delivered[t] \o [i \in 1..0 |-> cur[t]] = delivered[t]
      BY <3>1, ConcatEmptySeq
    <3>3. 0 \in 0..Attempts
      BY AttemptsAssumption
    <3> QED
      BY <2>1, <2>2, <2>3, <3>2, <3>3 DEF After
  <2>4. CASE Deliver(t)
    <3>1. PICK n \in 1..Attempts : delivered'[t] = delivered[t] \o [i \in 1..n |-> cur[t]]
      BY <1>t, <2>4 DEF Deliver
    <3>2. n \in 0..Attempts
      BY AttemptsAssumption
    <3> QED
      BY <2>1, <2>2, <3>1, <3>2 DEF After
  <2> QED
    BY <1>h, <2>3, <2>4
\* What ends a stream without COMPLETED, or after it.
<1>2. ASSUME NEW s \in Streams,
             \/ OpenRejected(s) \/ ConsumeFails(s) \/ Exhaust(s)
             \/ Close(s) /\ UNCHANGED delivered
      PROVE  CopyMoves(t)
  <2>1. /\ UNCHANGED <<job, records, pos, cur, delivered>>
        /\ \E to \in {"failed", "finished", "aborted", "closed"} : epc' = [epc EXCEPT ![s] = to]
        /\ epc[s] \in {"open", "fetch", "handle", "yield", "final", "failed"}
    BY <1>2 DEF OpenRejected, ConsumeFails, Exhaust, Close, Moves, source
  <2>2. CASE s # t
    BY <1>t, <1>u, <2>1, <2>2
  <2>3. CASE s = t
    <3>1. Cursor(t)' = job.start /\ Phase(t)' = "over"
      BY <1>t, <2>1, <2>3 DEF Cursor, Phase
    <3>2. CASE epc[t] = "failed"
      <4>1. Cursor(t) = job.start /\ Phase(t) = "over"
        BY <3>2 DEF Cursor, Phase
      <4> QED
        BY <2>1, <3>1, <4>1, CopyStutters
    <3>3. CASE epc[t] # "failed"
      <4>1. Phase(t) # "over"
        BY <2>1, <2>3, <3>3 DEF Phase
      <4> QED
        BY <2>1, <3>1, <4>1, CopyGivesUp
    <3> QED
      BY <3>2, <3>3
  <2> QED
    BY <2>2, <2>3
<1>3. ASSUME NEW s \in Streams, FetchRecord(s) PROVE CopyMoves(t)
  <2>1. PICK o \in records : /\ IsNext(s, o)
                             /\ cur' = [cur EXCEPT ![s] = o] /\ pos' = [pos EXCEPT ![s] = o + 1]
    BY <1>3 DEF FetchRecord
  <2>2. /\ epc[s] = "fetch" /\ epc' = [epc EXCEPT ![s] = "handle"]
        /\ UNCHANGED <<job, records, delivered>>
    BY <1>3 DEF FetchRecord, Moves, source
  <2>3. CASE s # t
    BY <1>t, <1>u, <2>1, <2>2, <2>3
  <2>4. CASE s = t
    <3>1. /\ Cursor(t) = pos[t] /\ Cursor(t)' = o
          /\ Phase(t) = "copying" /\ Phase(t)' = "copying"
      BY <1>t, <2>1, <2>2, <2>4 DEF Cursor, Phase
    <3>2. o \in Int /\ pos[t] \in Int /\ pos[t] <= o /\ \A q \in records : pos[t] <= q => o <= q
      <4>1. \A q \in records : q \in Int
        BY <1>t
      <4> QED
        BY <1>t, <2>1, <2>4, <4>1 DEF IsNext
    <3>3. CASE o = pos[t]
      BY <2>2, <3>1, <3>3, CopyStutters
    <3>4. CASE o # pos[t]
      <4>1. o > pos[t]
        BY <3>2, <3>4
      <4> QED
        BY <2>2, <3>1, <3>2, <4>1, CopySkips
    <3> QED
      BY <3>3, <3>4
  <2> QED
    BY <2>3, <2>4
<1>4. ASSUME NEW s \in Streams, FetchPastEnd(s) PROVE CopyMoves(t)
  <2>1. PICK o \in records : IsNext(s, o) /\ PastRange(s, o)
    BY <1>4 DEF FetchPastEnd
  <2>2. /\ epc[s] = "fetch" /\ epc' = [epc EXCEPT ![s] = "final"]
        /\ UNCHANGED <<job, records, pos, cur, delivered>>
    BY <1>4 DEF FetchPastEnd, Moves, source
  <2>3. CASE s # t
    BY <1>t, <1>u, <2>2, <2>3
  <2>4. CASE s = t
    <3>1. /\ Cursor(t) = pos[t] /\ Cursor(t)' = pos[t]
          /\ Phase(t) = "copying" /\ Phase(t)' = "complete"
      BY <1>t, <2>2, <2>4 DEF Cursor, Phase
    <3>2. job.end <= o
      BY <1>a, <2>1, <2>2, <2>4, OnlyTheEndEnds
    <3>3. ASSUME NEW r \in records PROVE ~(pos[t] <= r /\ r < job.end)
      <4>1. o \in Int /\ r \in Int /\ (r >= pos[t] => o <= r)
        BY <1>t, <2>1, <2>4 DEF IsNext
      <4> QED
        BY <1>t, <3>2, <4>1
    <3> QED
      BY <2>2, <3>1, <3>3, CopyCompletes
  <2> QED
    BY <2>3, <2>4
\* The message in hand is counted, and copied or not.
<1>5. ASSUME NEW s \in Streams,
             \/ TransformFails(s) \/ DryRunSkips(s) \/ ProduceAcknowledged(s)
             \/ ProduceRejected(s) \/ ProduceUnconfirmed(s)
      PROVE  CopyMoves(t)
  <2>1. /\ epc[s] = "handle" /\ \E to \in {"fetch", "yield"} : epc' = [epc EXCEPT ![s] = to]
        /\ UNCHANGED <<job, records, pos, cur>>
        /\ delivered' = delivered \/ Deliver(s)
    BY <1>5 DEF TransformFails, DryRunSkips, ProduceAcknowledged, ProduceRejected,
       ProduceUnconfirmed, CountError, CountSuccess, Moves, source
  <2>2. CASE s # t
    <3>1. delivered'[t] = delivered[t]
      BY <2>1, <2>2, DeliverType
    <3> QED
      BY <1>t, <1>u, <2>1, <2>2, <3>1
  <2>3. CASE s = t
    <3>1. Cursor(t)' = pos[t] /\ Phase(t)' = "copying"
      BY <1>t, <2>1, <2>3 DEF Cursor, Phase
    <3> QED
      BY <1>h, <2>1, <2>3, <3>1, CopyPasses
  <2> QED
    BY <2>2, <2>3
\* A stream is dropped in the middle of a produce.
<1>9. ASSUME NEW s \in Streams, Close(s), epc[s] = "handle", Deliver(s) PROVE CopyMoves(t)
  <2>1. epc' = [epc EXCEPT ![s] = "closed"] /\ UNCHANGED <<job, records, pos, cur>>
    BY <1>9 DEF Close, Moves, source
  <2>2. CASE s # t
    <3>1. delivered'[t] = delivered[t]
      BY <1>9, <2>2, DeliverType
    <3> QED
      BY <1>t, <1>u, <2>1, <2>2, <3>1
  <2>3. CASE s = t
    <3>1. Cursor(t)' = job.start /\ Phase(t)' = "over"
      BY <1>t, <2>1, <2>3 DEF Cursor, Phase
    <3> QED
      BY <1>9, <1>h, <2>1, <2>3, <3>1, CopyGivesUpInHand
  <2> QED
    BY <2>2, <2>3
<1>6. ASSUME NEW s \in Streams, Begin(s) \/ Continue(s) PROVE CopyMoves(t)
  <2>1. /\ UNCHANGED <<job, records, pos, cur, delivered>>
        /\ \/ epc[s] = "idle" /\ epc' = [epc EXCEPT ![s] = "open"]
           \/ epc[s] = "yield" /\ epc' = [epc EXCEPT ![s] = "fetch"]
    BY <1>6 DEF Begin, Continue, Moves, source
  <2>2. CASE s # t
    BY <1>t, <1>u, <2>1, <2>2
  <2>3. CASE s = t
    <3>1. Cursor(t)' = Cursor(t) /\ Phase(t)' = Phase(t)
      BY <1>t, <2>1, <2>3 DEF Cursor, Phase
    <3> QED
      BY <2>1, <3>1, CopyStutters
  <2> QED
    BY <2>2, <2>3
<1>7. CASE AppendSource
  <2>1. /\ records \subseteq records' /\ \A r \in records' \ records : r = latest
        /\ UNCHANGED <<job, epc, pos, cur, delivered>>
    BY <1>7 DEF AppendSource, locals
  <2>2. Cursor(t)' = Cursor(t) /\ Phase(t)' = Phase(t)
    BY <2>1 DEF Cursor, Phase
  <2>3. Phase(t) \in {"copying", "complete"} => latest >= job.end
    BY <1>a, <1>t DEF Phase, Read
  <2> QED
    BY <2>1, <2>2, <2>3, CopyGrows
<1>8. CASE UNCHANGED engineVars
  BY <1>8, <1>u DEF engineVars
<1> QED
  BY <1>1, <1>2, <1>3, <1>4, <1>5, <1>6, <1>7, <1>8, <1>9
     DEF EngineNext, EngineStep, EngineProgress, Close

LEMMA SafetyCopiesARange == EngineInit /\ [][EngineNext]_engineVars => CopiesARange
<1>1. EngineInit => ReadInv /\ HandInv
  BY DEF EngineInit, ReadInv, Read, HandInv, InHand
<1>2. EngineInit => \A s \in Streams : Copy(s)!Init
  BY DEF EngineInit, Copy!Init
<1>3. (\A s \in Streams : CopyMoves(s)) => (\A s \in Streams : [Copy(s)!Next]_(Copy(s)!vars))
  BY DEF CopyMoves
<1>4. EngineTypeOK /\ ReadInv /\ HandInv /\ [EngineNext]_engineVars
        => \A s \in Streams : [Copy(s)!Next]_(Copy(s)!vars)
  BY <1>3, CopyStep
<1> QED
  BY <1>1, <1>2, <1>4, ReadStep, HandStep, EngineTypeInit, EngineTypeStep, PTL DEF CopiesARange

\* Each stream passes the records of its range in order and each of them once, drops it
\* or copies it at most Attempts times in a row, is complete only when none is left, and
\* may be given up at any time.
THEOREM EngineCopiesARange == EngineSpec => CopiesARange
  BY SafetyCopiesARange, PTL DEF EngineSpec

-----------------------------------------------------------------------------
(* Why EndsOncePastEnd holds.  A replay uses up its range: it takes at     *)
(* most three steps for each offset and four for the way in and out, and   *)
(* only a fetch waits, for a record.  Fairness is left to TLC.             *)

\* The offsets of the range a stream may still fetch a record from.
OffsetsLeft(s) ==
  LET from == IF epc[s] \in {"idle", "open"} THEN job.start ELSE pos[s]
  IN  IF from < job.end THEN job.end - from ELSE 0

ReplayStepsLeft(s) ==
  CASE epc[s] = "idle"   -> 4 + 3 * OffsetsLeft(s)
    [] epc[s] = "open"   -> 3 + 3 * OffsetsLeft(s)
    [] epc[s] = "fetch"  -> 2 + 3 * OffsetsLeft(s)
    [] epc[s] = "handle" -> 4 + 3 * OffsetsLeft(s)
    [] epc[s] = "yield"  -> 3 + 3 * OffsetsLeft(s)
    [] epc[s] \in {"final", "failed"} -> 1
    [] epc[s] \in {"finished", "aborted", "closed"} -> 0

\* The steps of one replay and of its caller.
Replays(s) == EngineStep(s) \/ Begin(s) \/ Continue(s) \/ Exhaust(s) \/ Close(s)

\* A step of a replay brings it nearer to its end, and neither another one nor a record
\* that is appended takes it further away.
ReplayWindsDown(s) ==
  /\ ReplayStepsLeft(s)' <= ReplayStepsLeft(s)
  /\ Replays(s) => ReplayStepsLeft(s)' < ReplayStepsLeft(s)

\* A replay waits for a record only while the log ends within its range.
WaitsForTheLog ==
  \A s \in Streams :
    epc[s] = "fetch" /\ (\E r \in records : r >= job.end /\ r >= job.start) =>
      \E o \in records : IsNext(s, o)

LEMMA EngineMovesOne ==
  ASSUME EngineTypeOK, NEW s \in Streams, NEW t \in Streams, s # t,
         Replays(s)
  PROVE  epc'[t] = epc[t] /\ pos'[t] = pos[t] /\ job' = job
<1> USE DEF EngineTypeOK, source, Moves
<1>1. CASE OpenAccepted(s)
  BY <1>1 DEF OpenAccepted
<1>2. CASE FetchRecord(s)
  BY <1>2 DEF FetchRecord
<1>3. CASE OpenRejected(s) \/ FetchPastEnd(s) \/ ConsumeFails(s)
  BY <1>3 DEF OpenRejected, FetchPastEnd, ConsumeFails
<1>4. CASE TransformFails(s) \/ ProduceRejected(s) \/ ProduceUnconfirmed(s)
  BY <1>4 DEF TransformFails, ProduceRejected, ProduceUnconfirmed, CountError
<1>5. CASE DryRunSkips(s) \/ ProduceAcknowledged(s)
  BY <1>5 DEF DryRunSkips, ProduceAcknowledged, CountSuccess
<1>6. CASE Begin(s) \/ Continue(s) \/ Exhaust(s) \/ Close(s)
  BY <1>6 DEF Begin, Continue, Exhaust, Close
<1> QED
  BY <1>1, <1>2, <1>3, <1>4, <1>5, <1>6 DEF Replays, EngineStep, EngineProgress

LEMMA OffsetsTypes ==
  ASSUME EngineTypeOK, NEW t \in Streams
  PROVE  OffsetsLeft(t) \in Nat /\ job.start \in Int /\ job.end \in Int /\ pos[t] \in Int
<1>1. job.start \in Int /\ job.end \in Int /\ pos[t] \in Int
  BY ReadTypes
<1> QED
  BY <1>1 DEF OffsetsLeft

\* A fetch uses up an offset; nothing else that leaves the loop going on changes what is
\* left.
LEMMA OffsetsFetched ==
  ASSUME EngineTypeOK, NEW t \in Streams, FetchRecord(t)
  PROVE  OffsetsLeft(t)' \in Nat /\ OffsetsLeft(t)' < OffsetsLeft(t)
<1>1. job.start \in Int /\ job.end \in Int /\ pos[t] \in Int /\ \A r \in records : r \in Int
  BY ReadTypes
<1>2. PICK o \in records : IsNext(t, o) /\ ~PastRange(t, o) /\ pos'[t] = o + 1
  BY DEF FetchRecord, EngineTypeOK
<1>3. job' = job /\ epc[t] = "fetch" /\ epc'[t] = "handle"
  BY DEF FetchRecord, Moves, EngineTypeOK, source
<1>4. o \in Int /\ pos[t] <= o /\ o < job.end
  BY <1>1, <1>2 DEF IsNext, PastRange
<1> QED
  BY <1>1, <1>2, <1>3, <1>4 DEF OffsetsLeft

LEMMA OffsetsKept ==
  ASSUME NEW t \in Streams, job' = job,
         \/ epc[t] \in {"idle", "open"} /\ epc'[t] \in {"idle", "open"}
         \/ /\ epc[t] \notin {"idle", "open"} /\ epc'[t] \notin {"idle", "open"}
            /\ pos'[t] = pos[t]
         \/ epc[t] = "open" /\ epc'[t] = "fetch" /\ pos'[t] = job.start
  PROVE  OffsetsLeft(t)' = OffsetsLeft(t)
  BY DEF OffsetsLeft

LEMMA ReplayStepsLeftType ==
  EngineTypeOK => \A s \in Streams : ReplayStepsLeft(s) \in Nat
<1> SUFFICES ASSUME EngineTypeOK, NEW s \in Streams PROVE ReplayStepsLeft(s) \in Nat
  OBVIOUS
<1>1. OffsetsLeft(s) \in Nat /\ epc[s] \in EnginePC
  BY OffsetsTypes DEF EngineTypeOK
<1> QED
  BY <1>1 DEF ReplayStepsLeft, EnginePC

LEMMA ReplayStepsLeftTypeNext ==
  (EngineTypeOK => \A s \in Streams : ReplayStepsLeft(s) \in Nat)'
  BY ReplayStepsLeftType, PTL

LEMMA OwnReplayStep ==
  ASSUME EngineTypeOK, NEW t \in Streams, Replays(t)
  PROVE  ReplayStepsLeft(t)' < ReplayStepsLeft(t)
<1>1. /\ OffsetsLeft(t) \in Nat /\ epc \in [Streams -> EnginePC]
      /\ pos \in [Streams -> Int]
  BY OffsetsTypes DEF EngineTypeOK
<1>2. CASE FetchRecord(t)
  <2>1. epc[t] = "fetch" /\ epc'[t] = "handle"
    BY <1>1, <1>2 DEF FetchRecord, Moves
  <2>2. OffsetsLeft(t)' \in Nat /\ OffsetsLeft(t)' < OffsetsLeft(t)
    BY <1>2, OffsetsFetched
  <2> QED
    BY <1>1, <2>1, <2>2 DEF ReplayStepsLeft
<1>3. CASE OpenAccepted(t)
  <2>1. epc[t] = "open" /\ epc'[t] = "fetch" /\ pos'[t] = job.start /\ job' = job
    BY <1>1, <1>3 DEF OpenAccepted, Moves, source
  <2>2. OffsetsLeft(t)' = OffsetsLeft(t)
    BY <2>1, OffsetsKept
  <2> QED
    BY <1>1, <2>1, <2>2 DEF ReplayStepsLeft
<1>4. CASE OpenRejected(t) \/ ConsumeFails(t) \/ FetchPastEnd(t)
  <2>1. epc[t] \in {"open", "fetch"} /\ epc'[t] \in {"final", "failed"}
    BY <1>1, <1>4 DEF OpenRejected, ConsumeFails, FetchPastEnd, Moves
  <2> QED
    BY <1>1, <2>1 DEF ReplayStepsLeft
<1>5. CASE \/ TransformFails(t) \/ DryRunSkips(t)
           \/ ProduceAcknowledged(t) \/ ProduceRejected(t) \/ ProduceUnconfirmed(t)
  <2>1. epc[t] = "handle" /\ epc'[t] \in {"fetch", "yield"} /\ pos' = pos /\ job' = job
    BY <1>1, <1>5 DEF TransformFails, DryRunSkips, ProduceAcknowledged, ProduceRejected,
       ProduceUnconfirmed, CountError, CountSuccess, Moves, source
  <2>2. OffsetsLeft(t)' = OffsetsLeft(t)
    BY <2>1, OffsetsKept
  <2> QED
    BY <1>1, <2>1, <2>2 DEF ReplayStepsLeft
<1>6. CASE Begin(t) \/ Continue(t)
  <2>1. /\ pos' = pos /\ job' = job
        /\ \/ epc[t] = "idle" /\ epc'[t] = "open"
           \/ epc[t] = "yield" /\ epc'[t] = "fetch"
    BY <1>1, <1>6 DEF Begin, Continue, Moves, source
  <2>2. OffsetsLeft(t)' = OffsetsLeft(t)
    BY <2>1, OffsetsKept
  <2> QED
    BY <1>1, <2>1, <2>2 DEF ReplayStepsLeft
<1>7. CASE Exhaust(t) \/ Close(t)
  <2>1. /\ epc[t] \in {"open", "fetch", "handle", "yield", "final", "failed"}
        /\ epc'[t] \in {"finished", "aborted", "closed"}
    BY <1>1, <1>7 DEF Exhaust, Close, Moves
  <2> QED
    BY <1>1, <2>1 DEF ReplayStepsLeft
<1> QED
  BY <1>2, <1>3, <1>4, <1>5, <1>6, <1>7 DEF Replays, EngineStep, EngineProgress

LEMMA ReplayWindStep ==
  EngineTypeOK /\ [EngineNext]_engineVars => \A t \in Streams : ReplayWindsDown(t)
<1> SUFFICES ASSUME EngineTypeOK, [EngineNext]_engineVars, NEW t \in Streams
             PROVE  ReplayWindsDown(t)
  OBVIOUS
<1>1. ReplayStepsLeft(t) \in Nat /\ ReplayStepsLeft(t)' \in Nat
  BY EngineTypeStep, ReplayStepsLeftType, ReplayStepsLeftTypeNext
<1>2. CASE Replays(t)
  <2>1. ReplayStepsLeft(t)' < ReplayStepsLeft(t)
    BY <1>2, OwnReplayStep
  <2> HIDE DEF ReplayStepsLeft
  <2> QED
    BY <1>1, <2>1 DEF ReplayWindsDown
<1>3. CASE ~Replays(t)
  <2>1. ASSUME NEW s \in Streams, Replays(s)
        PROVE  epc'[t] = epc[t] /\ pos'[t] = pos[t] /\ job' = job
    BY <1>3, <2>1, EngineMovesOne
  <2>2. ASSUME AppendSource \/ UNCHANGED engineVars
        PROVE  epc'[t] = epc[t] /\ pos'[t] = pos[t] /\ job' = job
    BY <2>2 DEF AppendSource, locals, engineVars
  <2>3. epc'[t] = epc[t] /\ pos'[t] = pos[t] /\ job' = job
    BY <2>1, <2>2 DEF EngineNext, Replays
  <2>4. ReplayStepsLeft(t)' = ReplayStepsLeft(t)
    BY <2>3 DEF ReplayStepsLeft, OffsetsLeft
  <2> QED
    BY <1>1, <1>3, <2>4 DEF ReplayWindsDown
<1> QED
  BY <1>2, <1>3

\* Every replay winds down: ReplayStepsLeft is a natural number, every step of a replay or
\* of its caller lowers it and nothing raises it, so a replay takes at most 4 steps and 3
\* for each offset of its range.
THEOREM ReplaysWindDown ==
  EngineSpec => /\ [](\A s \in Streams : ReplayStepsLeft(s) \in Nat)
                /\ [][\A s \in Streams : ReplayWindsDown(s)]_engineVars
<1>1. EngineTypeOK /\ [EngineNext]_engineVars => [\A s \in Streams : ReplayWindsDown(s)]_engineVars
  BY ReplayWindStep
<1> QED
  BY <1>1, ReplayStepsLeftType, EngineTypeCorrect, PTL DEF EngineSpec

Below == {p \in Nat \X Nat : p[1] < p[2]}

LEMMA LeastNatural ==
  ASSUME NEW T \in SUBSET Nat, T # {}
  PROVE  \E o \in T : \A q \in T : o <= q
<1>1. IsWellFoundedOn(Below, Nat)
  BY NatLessThanWellFounded DEF OpToRel, Below
<1>2. PICK o \in T : \A q \in T : <<q, o>> \notin Below
  BY <1>1, WFMin
<1>3. ASSUME NEW q \in T PROVE o <= q
  <2>1. q \in Nat /\ o \in Nat
    OBVIOUS
  <2>2. ~(q < o)
    BY <1>2, <2>1 DEF Below
  <2> QED
    BY <2>1, <2>2
<1> QED
  BY <1>3

\* There is a first record among those a consumer still has before it.
LEMMA SomeRecordIsNext ==
  ASSUME EngineTypeOK, NEW s \in Streams, NEW r \in records, r >= pos[s]
  PROVE  \E o \in records : IsNext(s, o)
<1> DEFINE T == {q \in records : q >= pos[s]}
<1>1. /\ pos[s] \in Int /\ Earliest \in Nat /\ latest \in Int
      /\ records \subseteq Earliest..(latest - 1)
  BY OffsetsAssumption DEF EngineTypeOK
<1>2. T \in SUBSET Nat /\ T # {}
  <2>1. \A q \in records : q \in Nat
    BY <1>1
  <2> QED
    BY <2>1
<1>3. PICK o \in T : \A q \in T : o <= q
  BY <1>2, LeastNatural
<1> QED
  BY <1>3 DEF IsNext

\* A consumer stands at offset_start or has not passed offset_end (ReadInv), so a record
\* past both is before it.
LEMMA PassedIsFetchable == EngineTypeOK /\ ReadInv => WaitsForTheLog
<1> SUFFICES ASSUME EngineTypeOK, ReadInv, NEW s \in Streams, epc[s] = "fetch",
                    NEW r \in records, r >= job.end, r >= job.start
             PROVE  \E o \in records : IsNext(s, o)
  BY DEF WaitsForTheLog
<1>1. /\ job.start \in Int /\ job.end \in Int /\ pos[s] \in Int /\ r \in Int
      /\ pos[s] <= job.end \/ pos[s] = job.start
  BY ReadTypes DEF ReadInv, Read
<1>2. r >= pos[s]
  BY <1>1
<1> QED
  BY <1>2, SomeRecordIsNext

\* Once the log goes on past the range a consumer never waits for a record that is not
\* there: together with ReplaysWindDown, all that EndsOncePastEnd needs besides fairness.
THEOREM ReplaysWaitForTheLogOnly == EngineSpec => []WaitsForTheLog
  BY PassedIsFetchable, ReadInit, ReadStep, EngineTypeCorrect, PTL DEF EngineSpec

=============================================================================
