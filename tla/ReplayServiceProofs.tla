------------------------ MODULE ReplayServiceProofs -------------------------
(***************************************************************************)
(* Theorems about ReplayService for every number of streams, resumers and  *)
(* controllers, every job and every log.  They need no fairness and none   *)
(* of the bounds (the last two need that one progress connection is open   *)
(* at a time), so they are stated of Safe, which Spec implies.             *)
(***************************************************************************)
EXTENDS ReplayService, ReplayEngineProofs

-----------------------------------------------------------------------------
(* The service drives the engine only through its interface *)

LEMMA ServiceStepIsEngineStep ==
  [Next]_vars => [EngineNext]_engineVars
<1> SUFFICES ASSUME [Next]_vars PROVE [EngineNext]_engineVars
  OBVIOUS
<1>1. ASSUME NEW s \in Streams, Connect(s) PROVE [EngineNext]_engineVars
  BY <1>1 DEF Connect
<1>2. ASSUME NEW s \in Streams, EngineWorks(s) PROVE [EngineNext]_engineVars
  BY <1>2 DEF EngineWorks, EngineNext
<1>3. ASSUME NEW s \in Streams, ResumeCheck(s) PROVE [EngineNext]_engineVars
  BY <1>3 DEF ResumeCheck
<1>4. ASSUME NEW s \in Streams, Check(s) PROVE [EngineNext]_engineVars
  BY <1>4 DEF Check
<1>5. ASSUME NEW s \in Streams, Claim(s) PROVE [EngineNext]_engineVars
  BY <1>5 DEF Claim, EngineNext
<1>6. ASSUME NEW s \in Streams, RecordProgress(s) PROVE [EngineNext]_engineVars
  BY <1>6 DEF RecordProgress
<1>7. ASSUME NEW s \in Streams, ClientTakes(s) PROVE [EngineNext]_engineVars
  BY <1>7 DEF ClientTakes
<1>8. ASSUME NEW s \in Streams, PollPaused(s) PROVE [EngineNext]_engineVars
  BY <1>8 DEF PollPaused, EngineNext
<1>9. ASSUME NEW s \in Streams, PollContinues(s) PROVE [EngineNext]_engineVars
  BY <1>9 DEF PollContinues, EngineNext
<1>10. ASSUME NEW s \in Streams, FinalRead(s) PROVE [EngineNext]_engineVars
  BY <1>10 DEF FinalRead
<1>11. ASSUME NEW s \in Streams, Complete(s) PROVE [EngineNext]_engineVars
  BY <1>11 DEF Complete
<1>12. ASSUME NEW s \in Streams, MarkFailed(s) PROVE [EngineNext]_engineVars
  BY <1>12 DEF MarkFailed
<1>13. ASSUME NEW s \in Streams, CheckRaises(s) PROVE [EngineNext]_engineVars
  BY <1>13 DEF CheckRaises
<1>14. ASSUME NEW s \in Streams, ServiceRaises(s) PROVE [EngineNext]_engineVars
  BY <1>14 DEF ServiceRaises, EngineNext
<1>15. ASSUME NEW s \in Streams, MarkFailedRaises(s) PROVE [EngineNext]_engineVars
  BY <1>15 DEF MarkFailedRaises
<1>16. ASSUME NEW s \in Streams, Abandon(s) PROVE [EngineNext]_engineVars
  BY <1>16 DEF Abandon, EngineNext
<1>17. ASSUME NEW c \in Controllers, PauseRead(c) PROVE [EngineNext]_engineVars
  BY <1>17 DEF PauseRead
<1>18. ASSUME NEW c \in Controllers, CancelRead(c) PROVE [EngineNext]_engineVars
  BY <1>18 DEF CancelRead
<1>19. ASSUME NEW c \in Controllers, PauseWrite(c) PROVE [EngineNext]_engineVars
  BY <1>19 DEF PauseWrite
<1>20. ASSUME NEW c \in Controllers, CancelWrite(c) PROVE [EngineNext]_engineVars
  BY <1>20 DEF CancelWrite
<1>21. ASSUME NEW c \in Controllers, ControlLost(c) PROVE [EngineNext]_engineVars
  BY <1>21 DEF ControlLost
<1>22. CASE SourceGrows
  BY <1>22 DEF SourceGrows, EngineNext
<1>23. CASE UNCHANGED vars
  BY <1>23 DEF vars, engineVars
<1> QED
  BY <1>1, <1>2, <1>3, <1>4, <1>5, <1>6, <1>7, <1>8, <1>9, <1>10, <1>11,
     <1>12, <1>13, <1>14, <1>15, <1>16, <1>17, <1>18, <1>19, <1>20, <1>21, <1>22, <1>23
     DEF Next, StreamStep, StreamFault, ControllerStep

\* ReplayService implements ReplayEngine: whatever its streams, clients and
\* database do, each engine generator sees a legal sequence of calls.
THEOREM ServiceImplementsEngine == Safe => EngineInit /\ [][EngineNext]_engineVars
  BY ServiceStepIsEngineStep, PTL DEF Safe, ServiceInit

\* So what holds of every engine execution holds under the service, with its streams
\* racing and dropped: the accounting, the order of deliveries, the bounds of the
\* percentage and what a COMPLETED progress means.
THEOREM ServiceKeepsEngineInvariants ==
  Safe => []( /\ EngineTypeOK /\ EveryMessageCountedOnce /\ CountedMeansDelivered
              /\ DeliveredInOrder /\ PercentWithinBounds /\ FinalMeansRangeRead)
<1>1. EngineInit => EveryMessageCountedOnce
  BY DEF EngineInit, EveryMessageCountedOnce, Counted
<1>2. OrderInv => DeliveredInOrder
  BY DEF OrderInv, Ahead, DeliveredInOrder
<1>3. CountsBounded => PercentWithinBounds
  BY DEF CountsBounded, Bounded, PercentWithinBounds
<1>4. ReadInv => FinalMeansRangeRead
  BY DEF ReadInv, Read, Between, FinalMeansRangeRead
<1> QED
  BY <1>1, <1>2, <1>3, <1>4, ServiceImplementsEngine, EngineTypeInit, EngineTypeStep,
     AccountingStep, CountedInit, CountedStep, OrderInit, OrderStep, BoundedInit, BoundedStep,
     ReadInit, ReadStep, PTL

\* Under the service too, with its streams racing for one row, every stream
\* implements the copying of a range.
THEOREM ServiceCopiesARange == Safe => CopiesARange
  BY ServiceImplementsEngine, SafetyCopiesARange, PTL

-----------------------------------------------------------------------------
(* Type correctness *)

LEMMA ServiceTypeStep ==
  ServiceTypeOK /\ [Next]_vars => ServiceTypeOK'
<1> SUFFICES ASSUME ServiceTypeOK, [Next]_vars PROVE ServiceTypeOK'
  OBVIOUS
<1>a. EngineTypeOK'
  BY ServiceStepIsEngineStep, EngineTypeStep DEF ServiceTypeOK
<1> USE DEF ServiceTypeOK, Status, StreamPC, ControllerPC
<1>1. ASSUME NEW s \in Streams, Connect(s) PROVE ServiceTypeOK'
  BY <1>a, <1>1 DEF Connect, To, row
<1>2. ASSUME NEW s \in Streams, EngineWorks(s) PROVE ServiceTypeOK'
  BY <1>a, <1>2 DEF EngineWorks, row
<1>3. ASSUME NEW s \in Streams, ResumeCheck(s) PROVE ServiceTypeOK'
  BY <1>a, <1>3 DEF ResumeCheck, To, row
<1>4. ASSUME NEW s \in Streams, Check(s) PROVE ServiceTypeOK'
  BY <1>a, <1>4 DEF Check, To, row
<1>5. ASSUME NEW s \in Streams, Claim(s) PROVE ServiceTypeOK'
  BY <1>a, <1>5 DEF Claim, To, WriteStatus, row
<1>6. ASSUME NEW s \in Streams, RecordProgress(s) PROVE ServiceTypeOK'
  <2>1. mc[s] \in Nat /\ ec[s] \in Nat
    BY DEF EngineTypeOK
  <2>2. dbMc' \in Nat /\ dbEc' \in Nat
    BY <2>1, <1>6 DEF RecordProgress, WriteProgress
  <2>3. spc' \in [Streams -> StreamPC]
    BY <1>6 DEF RecordProgress, To
  <2> QED
    BY <1>a, <2>2, <2>3, <1>6 DEF RecordProgress, WriteProgress
<1>7. ASSUME NEW s \in Streams, ClientTakes(s) PROVE ServiceTypeOK'
  BY <1>a, <1>7 DEF ClientTakes, To, row
<1>8. ASSUME NEW s \in Streams, PollPaused(s) PROVE ServiceTypeOK'
  BY <1>a, <1>8 DEF PollPaused, To, row
<1>9. ASSUME NEW s \in Streams, PollContinues(s) PROVE ServiceTypeOK'
  BY <1>a, <1>9 DEF PollContinues, To, row
<1>10. ASSUME NEW s \in Streams, FinalRead(s) PROVE ServiceTypeOK'
  BY <1>a, <1>10 DEF FinalRead, To, row
<1>11. ASSUME NEW s \in Streams, Complete(s) PROVE ServiceTypeOK'
  BY <1>a, <1>11 DEF Complete, To, WriteStatus, row
<1>12. ASSUME NEW s \in Streams, MarkFailed(s) PROVE ServiceTypeOK'
  BY <1>a, <1>12 DEF MarkFailed, To, WriteStatus, row
<1>13. ASSUME NEW s \in Streams, CheckRaises(s) PROVE ServiceTypeOK'
  BY <1>a, <1>13 DEF CheckRaises, To, DbFault, row
<1>14. ASSUME NEW s \in Streams, ServiceRaises(s) PROVE ServiceTypeOK'
  BY <1>a, <1>14 DEF ServiceRaises, To, DbFault, row
<1>15. ASSUME NEW s \in Streams, MarkFailedRaises(s) PROVE ServiceTypeOK'
  BY <1>a, <1>15 DEF MarkFailedRaises, To, DbFault, row
<1>16. ASSUME NEW s \in Streams, Abandon(s) PROVE ServiceTypeOK'
  BY <1>a, <1>16 DEF Abandon, Live, row
<1>17. ASSUME NEW c \in Controllers, PauseRead(c) PROVE ServiceTypeOK'
  BY <1>a, <1>17 DEF PauseRead, Request, row
<1>18. ASSUME NEW c \in Controllers, CancelRead(c) PROVE ServiceTypeOK'
  BY <1>a, <1>18 DEF CancelRead, Request, row
<1>19. ASSUME NEW c \in Controllers, PauseWrite(c) PROVE ServiceTypeOK'
  BY <1>a, <1>19 DEF PauseWrite, WriteStatus, row
<1>20. ASSUME NEW c \in Controllers, CancelWrite(c) PROVE ServiceTypeOK'
  BY <1>a, <1>20 DEF CancelWrite, WriteStatus, row
<1>21. ASSUME NEW c \in Controllers, ControlLost(c) PROVE ServiceTypeOK'
  BY <1>a, <1>21 DEF ControlLost, DbFault, row
<1>22. CASE SourceGrows
  BY <1>a, <1>22 DEF SourceGrows, AppendSource, locals, serviceVars
<1>23. CASE UNCHANGED vars
  BY <1>a, <1>23 DEF vars
<1> QED
  BY <1>1, <1>2, <1>3, <1>4, <1>5, <1>6, <1>7, <1>8, <1>9, <1>10, <1>11,
     <1>12, <1>13, <1>14, <1>15, <1>16, <1>17, <1>18, <1>19, <1>20, <1>21, <1>22, <1>23
     DEF Next, StreamStep, StreamFault, ControllerStep

\* Every variable of the composed system keeps the values the code can give it.
THEOREM ServiceTypeCorrect == Safe => []ServiceTypeOK
<1>1. ServiceInit => ServiceTypeOK
  <2> SUFFICES ASSUME ServiceInit PROVE ServiceTypeOK
    OBVIOUS
  <2>1. EngineTypeOK
    BY EngineTypeInit DEF ServiceInit
  <2>2. /\ status \in Status /\ dbMc \in Nat /\ dbEc \in Nat
        /\ requests \in Nat /\ dbFaults \in Nat
        /\ startedAt \in BOOLEAN /\ completedAt \in BOOLEAN
    BY DEF ServiceInit, Status
  <2>3. /\ spc \in [Streams -> StreamPC]
        /\ cpc \in [Controllers -> ControllerPC]
        /\ afterPause \in [Streams -> Nat]
    BY DEF ServiceInit, StreamPC, ControllerPC
  <2> QED
    BY <2>1, <2>2, <2>3 DEF ServiceTypeOK
<1> QED
  BY <1>1, ServiceTypeStep, PTL DEF Safe

-----------------------------------------------------------------------------
(* What no engine step undoes *)

\* An engine that was begun stays begun, its counts and its deliveries only grow,
\* and until it is begun it delivers nothing.
LEMMA EngineOnlyGrows ==
  ASSUME EngineTypeOK, [EngineNext]_engineVars, NEW t \in Streams
  PROVE  /\ epc[t] # "idle" => epc'[t] # "idle"
         /\ mc[t] <= mc'[t]
         /\ Delivered(t) \subseteq Delivered(t)'
<1> DEFINE Grows == /\ epc[t] # "idle" => epc'[t] # "idle"
                    /\ mc[t] <= mc'[t]
                    /\ Delivered(t) \subseteq Delivered(t)'
<1>a. ASSUME NEW s \in Streams, Deliver(s)
      PROVE  Delivered(t) \subseteq Delivered(t)'
  <2>1. CASE s # t
    BY <1>a, <2>1, DeliverType DEF Delivered
  <2>2. CASE s = t
    <3>1. PICK n \in 1..Attempts : \E e \in Seq(Int) :
            /\ delivered' = [delivered EXCEPT ![t] = e]
            /\ Len(e) = Len(delivered[t]) + n
            /\ \A i \in 1..Len(e) :
                 e[i] = IF i <= Len(delivered[t]) THEN delivered[t][i] ELSE cur[t]
      BY <1>a, <2>2, DeliverAppends
    <3> DEFINE k == Len(delivered[t])
    <3>2. /\ k \in Nat /\ n \in Nat
          /\ DOMAIN delivered[t] = 1..k /\ DOMAIN delivered'[t] = 1..(k + n)
          /\ \A i \in 1..(k + n) : delivered'[t][i] = IF i <= k THEN delivered[t][i] ELSE cur[t]
      BY <3>1, AttemptsAssumption DEF EngineTypeOK
    <3> HIDE DEF k
    <3>3. \A i \in DOMAIN delivered[t] :
            i \in DOMAIN delivered'[t] /\ delivered'[t][i] = delivered[t][i]
      BY <3>2
    <3> QED
      BY <3>3 DEF Delivered
  <2> QED
    BY <2>1, <2>2
<1>u. delivered' = delivered => Delivered(t) \subseteq Delivered(t)'
  BY DEF Delivered
<1> USE DEF EngineTypeOK, EnginePC
<1>1. ASSUME NEW s \in Streams, OpenAccepted(s) PROVE Grows
  BY <1>u, <1>1 DEF OpenAccepted, Moves, source
<1>2. ASSUME NEW s \in Streams, OpenRejected(s) PROVE Grows
  BY <1>u, <1>2 DEF OpenRejected, Moves, source
<1>3. ASSUME NEW s \in Streams, ConsumeFails(s) PROVE Grows
  BY <1>u, <1>3 DEF ConsumeFails, Moves, source
<1>4. ASSUME NEW s \in Streams, FetchRecord(s) PROVE Grows
  BY <1>u, <1>4 DEF FetchRecord, Moves, source
<1>5. ASSUME NEW s \in Streams, FetchPastEnd(s) PROVE Grows
  BY <1>u, <1>5 DEF FetchPastEnd, Moves, source
<1>6. ASSUME NEW s \in Streams, TransformFails(s) PROVE Grows
  BY <1>u, <1>6 DEF TransformFails, CountError, Moves, source
<1>7. ASSUME NEW s \in Streams, DryRunSkips(s) PROVE Grows
  BY <1>u, <1>7 DEF DryRunSkips, CountSuccess, Moves, source
<1>8. ASSUME NEW s \in Streams, ProduceAcknowledged(s) PROVE Grows
  BY <1>a, <1>8 DEF ProduceAcknowledged, CountSuccess, Moves, source
<1>9. ASSUME NEW s \in Streams, ProduceRejected(s) PROVE Grows
  BY <1>u, <1>9 DEF ProduceRejected, CountError, Moves, source
<1>10. ASSUME NEW s \in Streams, ProduceUnconfirmed(s) PROVE Grows
  BY <1>a, <1>10 DEF ProduceUnconfirmed, CountError, Moves, source
<1>11. ASSUME NEW s \in Streams, Begin(s) PROVE Grows
  BY <1>u, <1>11 DEF Begin, Moves, source
<1>12. ASSUME NEW s \in Streams, Continue(s) PROVE Grows
  BY <1>u, <1>12 DEF Continue, Moves, source
<1>13. ASSUME NEW s \in Streams, Exhaust(s) PROVE Grows
  BY <1>u, <1>13 DEF Exhaust, Moves, source
<1>14. ASSUME NEW s \in Streams, Close(s) PROVE Grows
  BY <1>a, <1>u, <1>14 DEF Close, Moves, source
<1>15. CASE AppendSource
  BY <1>u, <1>15 DEF AppendSource, locals
<1>16. CASE UNCHANGED engineVars
  BY <1>u, <1>16 DEF engineVars
<1> QED
  BY <1>1, <1>2, <1>3, <1>4, <1>5, <1>6, <1>7, <1>8, <1>9, <1>10, <1>11, <1>12,
     <1>13, <1>14, <1>15, <1>16 DEF EngineNext, EngineStep, EngineProgress

-----------------------------------------------------------------------------
(* A RUNNING row and its stream.  Inductive as it stands: a witness stays  *)
(* one until it changes the status, or leaves because something else did.  *)

LEMMA RunningStep ==
  ServiceTypeOK /\ RunningHasStream /\ [Next]_vars => RunningHasStream'
<1> SUFFICES ASSUME ServiceTypeOK, RunningHasStream, [Next]_vars, status' = "RUNNING"
             PROVE  \E s \in Streams :
                      epc'[s] # "idle" /\ spc'[s] \in Executing \union {"gone", "stuck"}
  BY DEF RunningHasStream
<1> DEFINE Held(s) == epc[s] # "idle" /\ spc[s] \in Executing \union {"gone", "stuck"}
<1>a. \A s \in Streams : epc[s] # "idle" => epc'[s] # "idle"
  BY EngineOnlyGrows, ServiceStepIsEngineStep DEF ServiceTypeOK
<1>b. status = "RUNNING" => \E s \in Streams : Held(s)
  BY DEF RunningHasStream
<1> USE DEF ServiceTypeOK, Executing
<1>1. ASSUME NEW s \in Streams, Connect(s) PROVE \E t \in Streams : Held(t)'
  BY <1>a, <1>b, <1>1 DEF Connect, To, row
<1>2. ASSUME NEW s \in Streams, EngineWorks(s) PROVE \E t \in Streams : Held(t)'
  BY <1>a, <1>b, <1>2 DEF EngineWorks, row
<1>3. ASSUME NEW s \in Streams, ResumeCheck(s) PROVE \E t \in Streams : Held(t)'
  BY <1>a, <1>b, <1>3 DEF ResumeCheck, To, row
<1>4. ASSUME NEW s \in Streams, Check(s) PROVE \E t \in Streams : Held(t)'
  BY <1>a, <1>b, <1>4 DEF Check, To, row
<1>5. ASSUME NEW s \in Streams, Claim(s) PROVE \E t \in Streams : Held(t)'
  BY <1>a, <1>b, <1>5 DEF Claim, To, WriteStatus, Begin, Moves, EngineTypeOK
<1>6. ASSUME NEW s \in Streams, RecordProgress(s) PROVE \E t \in Streams : Held(t)'
  BY <1>a, <1>b, <1>6 DEF RecordProgress, To, WriteProgress, row
<1>7. ASSUME NEW s \in Streams, ClientTakes(s) PROVE \E t \in Streams : Held(t)'
  BY <1>a, <1>b, <1>7 DEF ClientTakes, To, row
<1>8. ASSUME NEW s \in Streams, PollPaused(s) PROVE \E t \in Streams : Held(t)'
  BY <1>a, <1>b, <1>8 DEF PollPaused, To, row
<1>9. ASSUME NEW s \in Streams, PollContinues(s) PROVE \E t \in Streams : Held(t)'
  BY <1>a, <1>b, <1>9 DEF PollContinues, To, row
<1>10. ASSUME NEW s \in Streams, FinalRead(s) PROVE \E t \in Streams : Held(t)'
  BY <1>a, <1>b, <1>10 DEF FinalRead, To, row
<1>11. ASSUME NEW s \in Streams, Complete(s) PROVE \E t \in Streams : Held(t)'
  BY <1>a, <1>b, <1>11 DEF Complete, To, WriteStatus, row
<1>12. ASSUME NEW s \in Streams, MarkFailed(s) PROVE \E t \in Streams : Held(t)'
  BY <1>a, <1>b, <1>12 DEF MarkFailed, To, WriteStatus, row
<1>13. ASSUME NEW s \in Streams, CheckRaises(s) PROVE \E t \in Streams : Held(t)'
  BY <1>a, <1>b, <1>13 DEF CheckRaises, To, DbFault, row
<1>14. ASSUME NEW s \in Streams, ServiceRaises(s) PROVE \E t \in Streams : Held(t)'
  BY <1>a, <1>b, <1>14 DEF ServiceRaises, To, DbFault, row
<1>15. ASSUME NEW s \in Streams, MarkFailedRaises(s) PROVE \E t \in Streams : Held(t)'
  BY <1>a, <1>b, <1>15 DEF MarkFailedRaises, To, DbFault, row
<1>16. ASSUME NEW s \in Streams, Abandon(s) PROVE \E t \in Streams : Held(t)'
  BY <1>a, <1>b, <1>16 DEF Abandon, Live, row
<1>17. ASSUME NEW c \in Controllers, PauseRead(c) PROVE \E t \in Streams : Held(t)'
  BY <1>a, <1>b, <1>17 DEF PauseRead, Request, row
<1>18. ASSUME NEW c \in Controllers, CancelRead(c) PROVE \E t \in Streams : Held(t)'
  BY <1>a, <1>b, <1>18 DEF CancelRead, Request, row
<1>19. ASSUME NEW c \in Controllers, PauseWrite(c) PROVE \E t \in Streams : Held(t)'
  BY <1>a, <1>b, <1>19 DEF PauseWrite, WriteStatus, row
<1>20. ASSUME NEW c \in Controllers, CancelWrite(c) PROVE \E t \in Streams : Held(t)'
  BY <1>a, <1>b, <1>20 DEF CancelWrite, WriteStatus, row
<1>21. ASSUME NEW c \in Controllers, ControlLost(c) PROVE \E t \in Streams : Held(t)'
  BY <1>a, <1>b, <1>21 DEF ControlLost, DbFault, row
<1>22. CASE SourceGrows
  BY <1>a, <1>b, <1>22 DEF SourceGrows, AppendSource, locals, serviceVars
<1>23. CASE UNCHANGED vars
  BY <1>a, <1>b, <1>23 DEF vars
<1> QED
  BY <1>1, <1>2, <1>3, <1>4, <1>5, <1>6, <1>7, <1>8, <1>9, <1>10, <1>11,
     <1>12, <1>13, <1>14, <1>15, <1>16, <1>17, <1>18, <1>19, <1>20, <1>21, <1>22, <1>23
     DEF Next, StreamStep, StreamFault, ControllerStep

\* A RUNNING row always has a stream that executes, or one that was dropped or
\* could not write its failure down.
THEOREM RunningIsHeld == Safe => []RunningHasStream
<1>1. ServiceInit => RunningHasStream
  BY DEF ServiceInit, RunningHasStream
<1> QED
  BY <1>1, RunningStep, ServiceTypeCorrect, PTL DEF Safe

-----------------------------------------------------------------------------
(* A job that was never RUNNING.  Until the first Claim no engine is       *)
(* begun, no stream is past its own claim except on its way to write       *)
(* FAILED, and no caller has read RUNNING.                                 *)

Unclaimed ==
  /\ status \in {"PENDING", "FAILED", "CANCELLED"}
  /\ dbMc = 0
  /\ \A c \in Controllers : cpc[c] # "pausing"
  /\ \A s \in Streams :
       /\ epc[s] = "idle" /\ delivered[s] = << >>
       /\ spc[s] \in {"idle", "resumeCheck", "check", "claim", "except", "done", "stuck", "gone"}

UnstartedInv == ~startedAt => Unclaimed

LEMMA UnstartedStep ==
  ServiceTypeOK /\ UnstartedInv /\ [Next]_vars => UnstartedInv'
<1> SUFFICES ASSUME ServiceTypeOK, UnstartedInv, [Next]_vars, ~startedAt'
             PROVE  Unclaimed'
  BY DEF UnstartedInv
<1> USE DEF ServiceTypeOK, Unclaimed
<1>1. ASSUME NEW s \in Streams, Connect(s) PROVE Unclaimed'
  <2>1. ~startedAt
    BY <1>1 DEF Connect, row
  <2> QED
    BY <2>1, <1>1 DEF UnstartedInv, Connect, To, row, engineVars
<1>2. ASSUME NEW s \in Streams, EngineWorks(s) PROVE Unclaimed'
  <2>1. ~startedAt
    BY <1>2 DEF EngineWorks, row
  <2> QED
    BY <2>1, <1>2 DEF UnstartedInv, EngineWorks, EngineStep, EngineProgress, OpenAccepted, OpenRejected, ConsumeFails,
       FetchRecord, FetchPastEnd, TransformFails, DryRunSkips, ProduceAcknowledged,
       ProduceRejected, ProduceUnconfirmed, row, engineVars
<1>3. ASSUME NEW s \in Streams, ResumeCheck(s) PROVE Unclaimed'
  <2>1. ~startedAt
    BY <1>3 DEF ResumeCheck, row
  <2> QED
    BY <2>1, <1>3 DEF UnstartedInv, ResumeCheck, To, row, engineVars
<1>4. ASSUME NEW s \in Streams, Check(s) PROVE Unclaimed'
  <2>1. ~startedAt
    BY <1>4 DEF Check, row
  <2> QED
    BY <2>1, <1>4 DEF UnstartedInv, Check, To, row, engineVars
<1>5. ASSUME NEW s \in Streams, Claim(s) PROVE Unclaimed'
  BY <1>5 DEF Claim, WriteStatus
<1>6. ASSUME NEW s \in Streams, RecordProgress(s) PROVE Unclaimed'
  <2>1. ~startedAt
    BY <1>6 DEF RecordProgress, WriteProgress
  <2> QED
    BY <2>1, <1>6 DEF UnstartedInv, RecordProgress, To, Suspended, WriteProgress, engineVars
<1>7. ASSUME NEW s \in Streams, ClientTakes(s) PROVE Unclaimed'
  <2>1. ~startedAt
    BY <1>7 DEF ClientTakes, row
  <2> QED
    BY <2>1, <1>7 DEF UnstartedInv, ClientTakes, To, row, engineVars
<1>8. ASSUME NEW s \in Streams, PollPaused(s) PROVE Unclaimed'
  <2>1. ~startedAt
    BY <1>8 DEF PollPaused, row
  <2> QED
    BY <2>1, <1>8 DEF UnstartedInv, PollPaused, To, Close, Moves, row, engineVars
<1>9. ASSUME NEW s \in Streams, PollContinues(s) PROVE Unclaimed'
  <2>1. ~startedAt
    BY <1>9 DEF PollContinues, row
  <2> QED
    BY <2>1, <1>9 DEF UnstartedInv, PollContinues, To, row, engineVars
<1>10. ASSUME NEW s \in Streams, FinalRead(s) PROVE Unclaimed'
  <2>1. ~startedAt
    BY <1>10 DEF FinalRead, row
  <2> QED
    BY <2>1, <1>10 DEF UnstartedInv, FinalRead, To, row, engineVars
<1>11. ASSUME NEW s \in Streams, Complete(s) PROVE Unclaimed'
  <2>1. ~startedAt
    BY <1>11 DEF Complete, row, WriteStatus
  <2> QED
    BY <2>1, <1>11 DEF UnstartedInv, Complete, To, WriteStatus, row, engineVars
<1>12. ASSUME NEW s \in Streams, MarkFailed(s) PROVE Unclaimed'
  <2>1. ~startedAt
    BY <1>12 DEF MarkFailed, row, WriteStatus
  <2> QED
    BY <2>1, <1>12 DEF UnstartedInv, MarkFailed, To, WriteStatus, row, engineVars
<1>13. ASSUME NEW s \in Streams, CheckRaises(s) PROVE Unclaimed'
  <2>1. ~startedAt
    BY <1>13 DEF CheckRaises, row
  <2> QED
    BY <2>1, <1>13 DEF UnstartedInv, CheckRaises, To, DbFault, row, engineVars
<1>14. ASSUME NEW s \in Streams, ServiceRaises(s) PROVE Unclaimed'
  <2>1. ~startedAt
    BY <1>14 DEF ServiceRaises, row
  <2> QED
    BY <2>1, <1>14 DEF UnstartedInv, ServiceRaises, To, DbFault, Suspended, row, engineVars
<1>15. ASSUME NEW s \in Streams, MarkFailedRaises(s) PROVE Unclaimed'
  <2>1. ~startedAt
    BY <1>15 DEF MarkFailedRaises, row
  <2> QED
    BY <2>1, <1>15 DEF UnstartedInv, MarkFailedRaises, To, DbFault, row, engineVars
<1>16. ASSUME NEW s \in Streams, Abandon(s) PROVE Unclaimed'
  <2>1. ~startedAt
    BY <1>16 DEF Abandon, row
  <2> QED
    BY <2>1, <1>16 DEF UnstartedInv, Abandon, Live, row, engineVars
<1>17. ASSUME NEW c \in Controllers, PauseRead(c) PROVE Unclaimed'
  <2>1. ~startedAt
    BY <1>17 DEF PauseRead, row
  <2> QED
    BY <2>1, <1>17 DEF UnstartedInv, PauseRead, Request, row, engineVars
<1>18. ASSUME NEW c \in Controllers, CancelRead(c) PROVE Unclaimed'
  <2>1. ~startedAt
    BY <1>18 DEF CancelRead, row
  <2> QED
    BY <2>1, <1>18 DEF UnstartedInv, CancelRead, Request, row, engineVars
<1>19. ASSUME NEW c \in Controllers, PauseWrite(c) PROVE Unclaimed'
  <2>1. ~startedAt
    BY <1>19 DEF PauseWrite, row, WriteStatus
  <2> QED
    BY <2>1, <1>19 DEF UnstartedInv, PauseWrite, WriteStatus, row, engineVars
<1>20. ASSUME NEW c \in Controllers, CancelWrite(c) PROVE Unclaimed'
  <2>1. ~startedAt
    BY <1>20 DEF CancelWrite, row, WriteStatus
  <2> QED
    BY <2>1, <1>20 DEF UnstartedInv, CancelWrite, WriteStatus, row, engineVars
<1>21. ASSUME NEW c \in Controllers, ControlLost(c) PROVE Unclaimed'
  <2>1. ~startedAt
    BY <1>21 DEF ControlLost, row
  <2> QED
    BY <2>1, <1>21 DEF UnstartedInv, ControlLost, DbFault, row, engineVars
<1>22. CASE SourceGrows
  BY <1>22 DEF SourceGrows, AppendSource, locals, serviceVars, UnstartedInv
<1>23. CASE UNCHANGED vars
  BY <1>23 DEF vars, UnstartedInv
<1> QED
  BY <1>1, <1>2, <1>3, <1>4, <1>5, <1>6, <1>7, <1>8, <1>9, <1>10, <1>11,
     <1>12, <1>13, <1>14, <1>15, <1>16, <1>17, <1>18, <1>19, <1>20, <1>21, <1>22, <1>23
     DEF Next, StreamStep, StreamFault, ControllerStep

\* A job that was never RUNNING delivered nothing, reports nothing, and is
\* neither PAUSED nor COMPLETED.
THEOREM UnstartedStaysUntouched == Safe => []UnstartedIsUntouched
<1>1. ServiceInit => UnstartedInv
  BY DEF ServiceInit, EngineInit, UnstartedInv, Unclaimed
<1>2. UnstartedInv => UnstartedIsUntouched
  BY DEF UnstartedInv, Unclaimed, UnstartedIsUntouched
<1> QED
  BY <1>1, <1>2, UnstartedStep, ServiceTypeCorrect, PTL DEF Safe

-----------------------------------------------------------------------------
(* What the row reports.  The stream that wrote message_count stays a      *)
(* witness: its own count and its deliveries only grow.                    *)

Covers(s, n) ==
  /\ n <= mc[s]
  /\ ~job.dryRun => n <= Cardinality(Delivered(s))

LEMMA DeliveredNumbers ==
  EngineTypeOK /\ DeliveredInOrder =>
    \A t \in Streams : IsFiniteSet(Delivered(t)) /\ Cardinality(Delivered(t)) \in Nat
  BY DeliveredIsFinite DEF DeliveredInOrder

LEMMA DeliveredNumbersNext ==
  (EngineTypeOK /\ DeliveredInOrder =>
    \A t \in Streams : IsFiniteSet(Delivered(t)) /\ Cardinality(Delivered(t)) \in Nat)'
  BY DeliveredNumbers, PTL

LEMMA CoversStays ==
  ASSUME EngineTypeOK, DeliveredInOrder, DeliveredInOrder', [EngineNext]_engineVars,
         NEW s \in Streams, NEW n \in Nat, Covers(s, n)
  PROVE  Covers(s, n)'
<1>1. mc[s] <= mc'[s] /\ Delivered(s) \subseteq Delivered(s)' /\ job' = job
  BY EngineOnlyGrows, JobIsFixed
<1>2. EngineTypeOK'
  BY EngineTypeStep
<1>3. /\ mc[s] \in Nat /\ mc'[s] \in Nat
      /\ Cardinality(Delivered(s)) \in Nat
      /\ IsFiniteSet(Delivered(s)') /\ Cardinality(Delivered(s)') \in Nat
  BY <1>2, DeliveredNumbers, DeliveredNumbersNext DEF EngineTypeOK
<1>4. Cardinality(Delivered(s)) <= Cardinality(Delivered(s)')
  BY <1>1, <1>3, FS_Subset
<1> QED
  BY <1>1, <1>3, <1>4 DEF Covers

LEMMA ReportedStep ==
  ServiceTypeOK /\ DeliveredInOrder /\ DeliveredInOrder' /\ CountedMeansDelivered
    /\ ReportedWasReplayed /\ [Next]_vars => ReportedWasReplayed'
<1> SUFFICES ASSUME ServiceTypeOK, DeliveredInOrder, DeliveredInOrder', CountedMeansDelivered,
                    ReportedWasReplayed, [Next]_vars, dbMc' > 0
             PROVE  \E t \in Streams : Covers(t, dbMc)'
  BY DEF ReportedWasReplayed, Covers
<1>a. EngineTypeOK /\ [EngineNext]_engineVars /\ dbMc \in Nat
  BY ServiceStepIsEngineStep DEF ServiceTypeOK
<1>b. ASSUME dbMc' = dbMc PROVE \E t \in Streams : Covers(t, dbMc)'
  <2>1. PICK t \in Streams : Covers(t, dbMc)
    BY <1>b DEF ReportedWasReplayed, Covers
  <2>2. Covers(t, dbMc)'
    <3>1. \A n \in Nat : Covers(t, n) => (n <= mc'[t] /\ (~job'.dryRun => n <= Cardinality(Delivered(t)')))
      BY <1>a, CoversStays DEF Covers
    <3> QED
      BY <1>a, <1>b, <2>1, <3>1 DEF Covers
  <2> QED
    BY <2>2
<1>1. ASSUME NEW s \in Streams, Connect(s) PROVE \E t \in Streams : Covers(t, dbMc)'
  BY <1>1, <1>b DEF Connect, row
<1>2. ASSUME NEW s \in Streams, EngineWorks(s) PROVE \E t \in Streams : Covers(t, dbMc)'
  BY <1>2, <1>b DEF EngineWorks, row
<1>3. ASSUME NEW s \in Streams, ResumeCheck(s) PROVE \E t \in Streams : Covers(t, dbMc)'
  BY <1>3, <1>b DEF ResumeCheck, row
<1>4. ASSUME NEW s \in Streams, Check(s) PROVE \E t \in Streams : Covers(t, dbMc)'
  BY <1>4, <1>b DEF Check, row
<1>5. ASSUME NEW s \in Streams, Claim(s) PROVE \E t \in Streams : Covers(t, dbMc)'
  BY <1>5, <1>b DEF Claim, WriteStatus
<1>6. ASSUME NEW s \in Streams, RecordProgress(s) PROVE \E t \in Streams : Covers(t, dbMc)'
  <2>1. dbMc' = mc[s] /\ UNCHANGED engineVars
    BY <1>6 DEF RecordProgress, WriteProgress
  <2>2. UNCHANGED <<job, mc, delivered>>
    BY <2>1 DEF engineVars
  <2>3. mc[s] \in Nat /\ (~job.dryRun => mc[s] <= Cardinality(Delivered(s)))
    BY <1>a, RangeIsInt DEF EngineTypeOK, CountedMeansDelivered, Backed
  <2>4. Delivered(s)' = Delivered(s)
    BY <2>2 DEF Delivered
  <2> QED
    BY <2>1, <2>2, <2>3, <2>4 DEF Covers
<1>7. ASSUME NEW s \in Streams, ClientTakes(s) PROVE \E t \in Streams : Covers(t, dbMc)'
  BY <1>7, <1>b DEF ClientTakes, row
<1>8. ASSUME NEW s \in Streams, PollPaused(s) PROVE \E t \in Streams : Covers(t, dbMc)'
  BY <1>8, <1>b DEF PollPaused, row
<1>9. ASSUME NEW s \in Streams, PollContinues(s) PROVE \E t \in Streams : Covers(t, dbMc)'
  BY <1>9, <1>b DEF PollContinues, row
<1>10. ASSUME NEW s \in Streams, FinalRead(s) PROVE \E t \in Streams : Covers(t, dbMc)'
  BY <1>10, <1>b DEF FinalRead, row
<1>11. ASSUME NEW s \in Streams, Complete(s) PROVE \E t \in Streams : Covers(t, dbMc)'
  BY <1>11, <1>b DEF Complete, WriteStatus
<1>12. ASSUME NEW s \in Streams, MarkFailed(s) PROVE \E t \in Streams : Covers(t, dbMc)'
  BY <1>12, <1>b DEF MarkFailed, WriteStatus
<1>13. ASSUME NEW s \in Streams, CheckRaises(s) PROVE \E t \in Streams : Covers(t, dbMc)'
  BY <1>13, <1>b DEF CheckRaises, row
<1>14. ASSUME NEW s \in Streams, ServiceRaises(s) PROVE \E t \in Streams : Covers(t, dbMc)'
  BY <1>14, <1>b DEF ServiceRaises, row
<1>15. ASSUME NEW s \in Streams, MarkFailedRaises(s) PROVE \E t \in Streams : Covers(t, dbMc)'
  BY <1>15, <1>b DEF MarkFailedRaises, row
<1>16. ASSUME NEW s \in Streams, Abandon(s) PROVE \E t \in Streams : Covers(t, dbMc)'
  BY <1>16, <1>b DEF Abandon, row
<1>17. ASSUME NEW c \in Controllers, PauseRead(c) PROVE \E t \in Streams : Covers(t, dbMc)'
  BY <1>17, <1>b DEF PauseRead, row
<1>18. ASSUME NEW c \in Controllers, CancelRead(c) PROVE \E t \in Streams : Covers(t, dbMc)'
  BY <1>18, <1>b DEF CancelRead, row
<1>19. ASSUME NEW c \in Controllers, PauseWrite(c) PROVE \E t \in Streams : Covers(t, dbMc)'
  BY <1>19, <1>b DEF PauseWrite, WriteStatus
<1>20. ASSUME NEW c \in Controllers, CancelWrite(c) PROVE \E t \in Streams : Covers(t, dbMc)'
  BY <1>20, <1>b DEF CancelWrite, WriteStatus
<1>21. ASSUME NEW c \in Controllers, ControlLost(c) PROVE \E t \in Streams : Covers(t, dbMc)'
  BY <1>21, <1>b DEF ControlLost, row
<1>22. CASE SourceGrows
  BY <1>22, <1>b DEF SourceGrows, serviceVars
<1>23. CASE UNCHANGED vars
  BY <1>23, <1>b DEF vars
<1> QED
  BY <1>1, <1>2, <1>3, <1>4, <1>5, <1>6, <1>7, <1>8, <1>9, <1>10, <1>11,
     <1>12, <1>13, <1>14, <1>15, <1>16, <1>17, <1>18, <1>19, <1>20, <1>21, <1>22, <1>23
     DEF Next, StreamStep, StreamFault, ControllerStep

\* The message_count of the row never exceeds what one of the streams has
\* processed and, unless the job is a dry run, delivered.
THEOREM ReportsAreBacked == Safe => []ReportedWasReplayed
<1>1. ServiceInit => ReportedWasReplayed
  BY DEF ServiceInit, ReportedWasReplayed
<1> QED
  BY <1>1, ReportedStep, ServiceTypeCorrect, ServiceKeepsEngineInvariants, PTL DEF Safe

-----------------------------------------------------------------------------
(* PAUSED.  A stream that finished a message since the row became PAUSED   *)
(* is at that message's yield or past it, and only another status lets it  *)
(* go on.                                                                  *)

Halted(s) ==
  /\ afterPause[s] \in {0, 1}
  /\ afterPause[s] = 1 =>
       status = "PAUSED" /\ epc[s] \notin {"idle", "open", "fetch", "handle"}

PauseInv == \A s \in Streams : Halted(s)

LEMMA PauseStep ==
  ServiceTypeOK /\ PauseInv /\ [Next]_vars => PauseInv'
<1> SUFFICES ASSUME ServiceTypeOK, PauseInv, [Next]_vars, NEW t \in Streams
             PROVE  Halted(t)'
  BY DEF PauseInv
<1> Halted(t)
  BY DEF PauseInv
<1> USE DEF ServiceTypeOK, EngineTypeOK, EnginePC, Halted
<1>1. ASSUME NEW s \in Streams, Connect(s) PROVE Halted(t)'
  BY <1>1 DEF Connect, row, engineVars
<1>2. ASSUME NEW s \in Streams, EngineWorks(s) PROVE Halted(t)'
  <2>1. /\ epc[s] \in {"open", "fetch", "handle"}
        /\ \E to \in {"fetch", "handle", "yield", "final", "failed"} : epc' = [epc EXCEPT ![s] = to]
    BY <1>2 DEF EngineWorks, EngineStep, EngineProgress, OpenAccepted, OpenRejected, ConsumeFails,
       FetchRecord, FetchPastEnd, TransformFails, DryRunSkips, ProduceAcknowledged, ProduceRejected,
       ProduceUnconfirmed, CountError, CountSuccess, Moves
  <2>2. /\ status' = status
        /\ afterPause' = IF status = "PAUSED" /\ epc'[s] = "yield"
                         THEN [afterPause EXCEPT ![s] = @ + 1] ELSE afterPause
    BY <1>2 DEF EngineWorks, row
  <2>3. CASE s # t
    BY <2>1, <2>2, <2>3
  <2>4. CASE s = t
    <3>1. afterPause[t] = 0
      BY <2>1, <2>4
    <3>2. afterPause'[t] = 1 => status' = "PAUSED" /\ epc'[t] = "yield"
      BY <2>2, <2>4, <3>1
    <3>3. afterPause'[t] \in {0, 1}
      BY <2>2, <2>4, <3>1
    <3> QED
      BY <3>2, <3>3
  <2> QED
    BY <2>3, <2>4
<1>3. ASSUME NEW s \in Streams, ResumeCheck(s) PROVE Halted(t)'
  BY <1>3 DEF ResumeCheck, row, engineVars
<1>4. ASSUME NEW s \in Streams, Check(s) PROVE Halted(t)'
  BY <1>4 DEF Check, row, engineVars
<1>5. ASSUME NEW s \in Streams, Claim(s) PROVE Halted(t)'
  BY <1>5 DEF Claim, WriteStatus
<1>6. ASSUME NEW s \in Streams, RecordProgress(s) PROVE Halted(t)'
  BY <1>6 DEF RecordProgress, WriteProgress, engineVars
<1>7. ASSUME NEW s \in Streams, ClientTakes(s) PROVE Halted(t)'
  BY <1>7 DEF ClientTakes, row, engineVars
<1>8. ASSUME NEW s \in Streams, PollPaused(s) PROVE Halted(t)'
  BY <1>8 DEF PollPaused, Close, Moves, row
<1>9. ASSUME NEW s \in Streams, PollContinues(s) PROVE Halted(t)'
  BY <1>9 DEF PollContinues, To, row, Exhaust, Continue, Moves
<1>10. ASSUME NEW s \in Streams, FinalRead(s) PROVE Halted(t)'
  BY <1>10 DEF FinalRead, row, engineVars
<1>11. ASSUME NEW s \in Streams, Complete(s) PROVE Halted(t)'
  BY <1>11 DEF Complete, WriteStatus, engineVars
<1>12. ASSUME NEW s \in Streams, MarkFailed(s) PROVE Halted(t)'
  BY <1>12 DEF MarkFailed, WriteStatus, engineVars
<1>13. ASSUME NEW s \in Streams, CheckRaises(s) PROVE Halted(t)'
  BY <1>13 DEF CheckRaises, row, engineVars
<1>14. ASSUME NEW s \in Streams, ServiceRaises(s) PROVE Halted(t)'
  BY <1>14 DEF ServiceRaises, Close, Moves, row, engineVars
<1>15. ASSUME NEW s \in Streams, MarkFailedRaises(s) PROVE Halted(t)'
  BY <1>15 DEF MarkFailedRaises, row, engineVars
<1>16. ASSUME NEW s \in Streams, Abandon(s) PROVE Halted(t)'
  BY <1>16 DEF Abandon, Close, Moves, row, engineVars
<1>17. ASSUME NEW c \in Controllers, PauseRead(c) PROVE Halted(t)'
  BY <1>17 DEF PauseRead, row, engineVars
<1>18. ASSUME NEW c \in Controllers, CancelRead(c) PROVE Halted(t)'
  BY <1>18 DEF CancelRead, row, engineVars
<1>19. ASSUME NEW c \in Controllers, PauseWrite(c) PROVE Halted(t)'
  BY <1>19 DEF PauseWrite, WriteStatus, engineVars
<1>20. ASSUME NEW c \in Controllers, CancelWrite(c) PROVE Halted(t)'
  BY <1>20 DEF CancelWrite, WriteStatus, engineVars
<1>21. ASSUME NEW c \in Controllers, ControlLost(c) PROVE Halted(t)'
  BY <1>21 DEF ControlLost, row, engineVars
<1>22. CASE SourceGrows
  BY <1>22 DEF SourceGrows, AppendSource, locals, serviceVars
<1>23. CASE UNCHANGED vars
  BY <1>23 DEF vars
<1> QED
  BY <1>1, <1>2, <1>3, <1>4, <1>5, <1>6, <1>7, <1>8, <1>9, <1>10, <1>11,
     <1>12, <1>13, <1>14, <1>15, <1>16, <1>17, <1>18, <1>19, <1>20, <1>21, <1>22, <1>23
     DEF Next, StreamStep, StreamFault, ControllerStep

\* While the row stays PAUSED a stream finishes at most the message in hand.
THEOREM PauseStops == Safe => []PauseStopsWithinOneMessage
<1>1. ServiceInit => PauseInv
  BY DEF ServiceInit, PauseInv, Halted
<1>2. PauseInv => PauseStopsWithinOneMessage
  BY DEF PauseInv, Halted, PauseStopsWithinOneMessage
<1> QED
  BY <1>1, <1>2, PauseStep, ServiceTypeCorrect, PTL DEF Safe

-----------------------------------------------------------------------------
(* One progress connection at a time.  With MaxLive <= 1 no other stream   *)
(* claims the row or writes its counts while a stream is live.             *)

Alone == \A s, t \in Streams : spc[s] \in Live /\ spc[t] \in Live => s = t

\* Only a new connection makes a stream live, and it needs a free place.
LEMMA AloneStep ==
  ASSUME MaxLive <= 1
  PROVE  ServiceTypeOK /\ Alone /\ [Next]_vars => Alone'
<1> SUFFICES ASSUME ServiceTypeOK, Alone, [Next]_vars PROVE Alone'
  OBVIOUS
<1>t. spc \in [Streams -> StreamPC]
  BY DEF ServiceTypeOK
<1>a. ASSUME NEW s \in Streams, spc[s] \in Live, NEW to, spc' = [spc EXCEPT ![s] = to]
      PROVE  Alone'
  BY <1>a, <1>t DEF Alone
<1>b. ASSUME spc' = spc PROVE Alone'
  BY <1>b DEF Alone
<1>1. ASSUME NEW s \in Streams, Connect(s) PROVE Alone'
  <2> DEFINE L == {t \in Streams : spc[t] \in Live}
  <2>1. Cardinality(L) < MaxLive /\ \E to : spc' = [spc EXCEPT ![s] = to]
    BY <1>1 DEF Connect, To
  <2>2. L = {} \/ \E t \in Streams : L = {t}
    BY DEF Alone
  <2>3. L = {}
    <3> SUFFICES ASSUME NEW t \in Streams, L = {t} PROVE FALSE
      BY <2>2
    <3>1. Cardinality(L) = 1
      BY FS_Singleton
    <3> QED
      BY <2>1, <3>1, ServiceBounds
  <2>4. \A t \in Streams : spc[t] \notin Live
    BY <2>3
  <2> QED
    BY <1>t, <2>1, <2>4 DEF Alone
<1>2. ASSUME NEW s \in Streams, StreamStep(s) PROVE Alone'
  <2>1. spc[s] \in Live /\ \E to : spc' = [spc EXCEPT ![s] = to]
    BY <1>2 DEF StreamStep, ResumeCheck, Check, Claim, RecordProgress, ClientTakes, PollPaused,
       PollContinues, FinalRead, Complete, MarkFailed, To, Live
  <2> QED
    BY <1>a, <2>1
<1>3. ASSUME NEW s \in Streams, StreamFault(s) PROVE Alone'
  <2>1. spc[s] \in Live /\ \E to : spc' = [spc EXCEPT ![s] = to]
    BY <1>3 DEF StreamFault, CheckRaises, ServiceRaises, MarkFailedRaises, Abandon, To, Live
  <2> QED
    BY <1>a, <2>1
<1>4. ASSUME NEW s \in Streams, EngineWorks(s) PROVE Alone'
  BY <1>4, <1>b DEF EngineWorks
<1>5. ASSUME NEW c \in Controllers, ControllerStep(c) PROVE Alone'
  BY <1>5, <1>b DEF ControllerStep, PauseRead, CancelRead, PauseWrite, CancelWrite, ControlLost
<1>6. CASE SourceGrows \/ UNCHANGED vars
  BY <1>6, <1>b DEF SourceGrows, serviceVars, vars
<1> QED
  BY <1>1, <1>2, <1>3, <1>4, <1>5, <1>6 DEF Next

\* An engine that was exhausted stays so.
Over(s) == epc[s] \in {"finished", "aborted"}

LEMMA OverStays ==
  ASSUME EngineTypeOK, [EngineNext]_engineVars, NEW t \in Streams, Over(t)
  PROVE  Over(t)'
<1>1. epc \in [Streams -> EnginePC] /\ epc[t] \in {"finished", "aborted"}
  BY DEF EngineTypeOK, Over
<1>2. epc'[t] = epc[t]
  <2>1. ASSUME NEW s \in Streams, EngineStep(s) \/ Begin(s) \/ Continue(s) \/ Exhaust(s) \/ Close(s)
        PROVE  epc[s] \notin {"finished", "aborted"} /\ \E to : epc' = [epc EXCEPT ![s] = to]
    BY <2>1 DEF EngineStep, EngineProgress, OpenAccepted, OpenRejected, ConsumeFails, FetchRecord,
       FetchPastEnd, TransformFails, DryRunSkips, ProduceAcknowledged, ProduceRejected,
       ProduceUnconfirmed, CountError, CountSuccess, Begin, Continue, Exhaust, Close, Moves
  <2>2. CASE AppendSource \/ UNCHANGED engineVars
    BY <2>2 DEF AppendSource, locals, engineVars
  <2> QED
    BY <1>1, <2>1, <2>2 DEF EngineNext
<1> QED
  BY <1>1, <1>2 DEF Over

\* A stream past its loop has an exhausted engine, unless it left the loop
\* because the row was PAUSED: then the row is not RUNNING again before it has
\* looked, since no other stream is live to claim it.
ExhaustedInv ==
  /\ \A s \in Streams : spc[s] = "finalRead" => Over(s) \/ status # "RUNNING"
  /\ \A s \in Streams : spc[s] = "complete" => Over(s)
  /\ status = "COMPLETED" => \E s \in Streams : Over(s)

LEMMA ExhaustedStep ==
  ServiceTypeOK /\ Alone /\ ExhaustedInv /\ [Next]_vars => ExhaustedInv'
<1> SUFFICES ASSUME ServiceTypeOK, Alone, ExhaustedInv, [Next]_vars PROVE ExhaustedInv'
  OBVIOUS
<1>t. spc \in [Streams -> StreamPC] /\ epc \in [Streams -> EnginePC]
  BY DEF ServiceTypeOK, EngineTypeOK
<1>o. \A s \in Streams : Over(s) => Over(s)'
  BY OverStays, ServiceStepIsEngineStep DEF ServiceTypeOK
\* Steps that leave the status alone and bring no stream past its loop.
<1>a. ASSUME status' = status,
             \A s \in Streams : spc'[s] \in {"finalRead", "complete"} => spc'[s] = spc[s]
      PROVE  ExhaustedInv'
  BY <1>a, <1>o DEF ExhaustedInv
\* Steps that write a status other than RUNNING and COMPLETED.
<1>b. ASSUME status' \notin {"RUNNING", "COMPLETED"},
             \A s \in Streams : spc'[s] \in {"finalRead", "complete"} => spc'[s] = spc[s]
      PROVE  ExhaustedInv'
  BY <1>b, <1>o DEF ExhaustedInv
<1>1. ASSUME NEW s \in Streams,
             \/ Connect(s) \/ ResumeCheck(s) \/ Check(s) \/ RecordProgress(s) \/ ClientTakes(s)
             \/ CheckRaises(s) \/ ServiceRaises(s) \/ MarkFailedRaises(s) \/ Abandon(s)
      PROVE  ExhaustedInv'
  <2>1. /\ status' = status
        /\ \E to \in {"resumeCheck", "check", "claim", "yielded", "poll", "except", "done",
                      "stuck", "gone"} : spc' = [spc EXCEPT ![s] = to]
    BY <1>1 DEF Connect, ResumeCheck, Check, RecordProgress, ClientTakes, CheckRaises,
       ServiceRaises, MarkFailedRaises, Abandon, To, WriteProgress, row
  <2> QED
    BY <1>a, <1>t, <2>1
<1>2. ASSUME NEW s \in Streams, EngineWorks(s) PROVE ExhaustedInv'
  BY <1>2, <1>a DEF EngineWorks, row
<1>3. ASSUME NEW s \in Streams, Claim(s) PROVE ExhaustedInv'
  <2>1. spc[s] = "claim" /\ spc' = [spc EXCEPT ![s] = "engine"] /\ status' = "RUNNING"
    BY <1>3 DEF Claim, To, WriteStatus
  <2>2. \A t \in Streams : spc'[t] \notin {"finalRead", "complete"}
    <3> SUFFICES ASSUME NEW t \in Streams, spc'[t] \in {"finalRead", "complete"} PROVE FALSE
      OBVIOUS
    <3>1. t # s /\ spc[t] \in {"finalRead", "complete"}
      BY <1>t, <2>1
    <3> QED
      BY <2>1, <3>1 DEF Alone, Live
  <2> QED
    BY <2>1, <2>2 DEF ExhaustedInv
<1>4. ASSUME NEW s \in Streams, PollPaused(s) PROVE ExhaustedInv'
  <2>1. status = "PAUSED" /\ status' = status /\ spc' = [spc EXCEPT ![s] = "finalRead"]
    BY <1>4 DEF PollPaused, To, row
  <2> QED
    BY <1>t, <1>o, <2>1 DEF ExhaustedInv
<1>5. ASSUME NEW s \in Streams, PollContinues(s) PROVE ExhaustedInv'
  <2>1. /\ status' = status
        /\ \/ spc' = [spc EXCEPT ![s] = "engine"]
           \/ spc' = [spc EXCEPT ![s] = "finalRead"] /\ Exhaust(s)
    BY <1>5 DEF PollContinues, To, row
  <2>2. CASE spc' = [spc EXCEPT ![s] = "engine"]
    BY <1>a, <1>t, <2>1, <2>2
  <2>3. CASE spc' = [spc EXCEPT ![s] = "finalRead"] /\ Exhaust(s)
    <3>1. Over(s)'
      BY <1>t, <2>3 DEF Exhaust, Moves, Over
    <3> QED
      BY <1>t, <1>o, <2>1, <2>3, <3>1 DEF ExhaustedInv
  <2> QED
    BY <2>1, <2>2, <2>3
<1>6. ASSUME NEW s \in Streams, FinalRead(s) PROVE ExhaustedInv'
  <2>1. /\ spc[s] = "finalRead" /\ status' = status
        /\ spc' = [spc EXCEPT ![s] = IF status = "RUNNING" THEN "complete" ELSE "done"]
    BY <1>6 DEF FinalRead, To, row
  <2> QED
    BY <1>t, <1>o, <2>1 DEF ExhaustedInv
<1>7. ASSUME NEW s \in Streams, Complete(s) PROVE ExhaustedInv'
  <2>1. /\ spc[s] = "complete" /\ spc' = [spc EXCEPT ![s] = "done"]
        /\ status' = "COMPLETED"
    BY <1>7 DEF Complete, To, WriteStatus
  <2>2. Over(s)'
    BY <1>o, <2>1 DEF ExhaustedInv
  <2> QED
    BY <1>t, <1>o, <2>1, <2>2 DEF ExhaustedInv
<1>8. ASSUME NEW s \in Streams, MarkFailed(s) PROVE ExhaustedInv'
  <2>1. spc' = [spc EXCEPT ![s] = "done"] /\ status' = "FAILED"
    BY <1>8 DEF MarkFailed, To, WriteStatus
  <2> QED
    BY <1>b, <1>t, <2>1
<1>9. ASSUME NEW c \in Controllers, ControllerStep(c) PROVE ExhaustedInv'
  <2>1. spc' = spc /\ (status' = status \/ status' \in {"PAUSED", "CANCELLED"})
    BY <1>9 DEF ControllerStep, PauseRead, CancelRead, PauseWrite, CancelWrite, ControlLost,
       WriteStatus, row
  <2> QED
    BY <1>a, <1>b, <2>1
<1>10. CASE SourceGrows \/ UNCHANGED vars
  BY <1>10, <1>a DEF SourceGrows, serviceVars, vars
<1> QED
  BY <1>1, <1>2, <1>3, <1>4, <1>5, <1>6, <1>7, <1>8, <1>9, <1>10
     DEF Next, StreamStep, StreamFault

\* A row is COMPLETED only for an exhausted engine, when one progress
\* connection is open at a time.
THEOREM CompletedIsExhausted ==
  ASSUME MaxLive <= 1
  PROVE  Safe => []CompletedMeansExhausted
<1>1. ServiceInit => Alone /\ ExhaustedInv
  BY DEF ServiceInit, Alone, ExhaustedInv, Live
<1>2. ServiceTypeOK /\ Alone /\ [Next]_vars => Alone'
  BY AloneStep
<1>3. ExhaustedInv => CompletedMeansExhausted
  BY DEF ExhaustedInv, Over, CompletedMeansExhausted
<1> QED
  BY <1>1, <1>2, <1>3, ExhaustedStep, ServiceTypeCorrect, PTL DEF Safe

\* What an engine step does to the counts.
LEMMA EngineStepCounts ==
  ASSUME NEW s \in Streams, EngineStep(s)
  PROVE  /\ epc[s] \in {"open", "fetch", "handle"}
         /\ \/ epc' = [epc EXCEPT ![s] = "yield"] /\ mc' = [mc EXCEPT ![s] = @ + 1]
               /\ epc[s] = "handle"
            \/ /\ \E to \in {"fetch", "handle", "final", "failed"} : epc' = [epc EXCEPT ![s] = to]
               /\ mc' = mc
         /\ ec' = ec \/ ec' = [ec EXCEPT ![s] = @ + 1]
  BY DEF EngineStep, EngineProgress, OpenAccepted, OpenRejected, ConsumeFails, FetchRecord,
     FetchPastEnd, TransformFails, DryRunSkips, ProduceAcknowledged, ProduceRejected,
     ProduceUnconfirmed, CountError, CountSuccess, Moves

\* Where the engine and the service stand, against the count of the row.
Saved(s) ==
  /\ spc[s] \in {"idle", "resumeCheck", "check", "claim"} => epc[s] = "idle"
  /\ epc[s] = "idle" => mc[s] = 0
  /\ spc[s] \in Executing => mc[s] <= dbMc + 1
  /\ spc[s] = "engine" /\ epc[s] # "yield" => mc[s] <= dbMc
  /\ spc[s] \in {"yielded", "poll"} =>
       mc[s] = dbMc /\ ec[s] + (IF epc[s] = "failed" THEN 1 ELSE 0) = dbEc

SavedInv == \A s \in Streams : Saved(s)

LEMMA SavedStep ==
  ServiceTypeOK /\ Alone /\ SavedInv /\ [Next]_vars => SavedInv'
<1> SUFFICES ASSUME ServiceTypeOK, Alone, SavedInv, [Next]_vars, NEW t \in Streams
             PROVE  Saved(t)'
  BY DEF SavedInv
<1>t. /\ spc \in [Streams -> StreamPC] /\ epc \in [Streams -> EnginePC]
      /\ mc \in [Streams -> Nat] /\ ec \in [Streams -> Nat] /\ dbMc \in Nat /\ dbEc \in Nat
  BY DEF ServiceTypeOK, EngineTypeOK
<1>s. Saved(t)
  BY DEF SavedInv
<1>a. ASSUME spc'[t] = spc[t], epc'[t] = epc[t], mc'[t] = mc[t], ec'[t] = ec[t],
             dbMc' = dbMc, dbEc' = dbEc
      PROVE  Saved(t)'
  BY <1>a, <1>s DEF Saved
\* A stream that has returned, was dropped or never got to the engine.
<1>b. ASSUME spc'[t] \in {"done", "stuck", "gone"}, epc[t] = "idle" => mc[t] = 0,
             epc'[t] = "idle" => epc[t] = "idle", mc'[t] = mc[t]
      PROVE  Saved(t)'
  BY <1>b DEF Saved, Executing
<1>1. ASSUME NEW s \in Streams, Connect(s) \/ ResumeCheck(s) \/ Check(s) PROVE Saved(t)'
  <2>1. /\ spc[s] \in {"idle", "resumeCheck", "check"} /\ UNCHANGED <<epc, mc, ec, dbMc, dbEc>>
        /\ \E to \in {"resumeCheck", "check", "claim", "done"} : spc' = [spc EXCEPT ![s] = to]
    BY <1>1 DEF Connect, ResumeCheck, Check, To, engineVars, row
  <2> QED
    BY <1>s, <1>t, <2>1 DEF Saved, Executing
<1>2. ASSUME NEW s \in Streams, Claim(s) PROVE Saved(t)'
  <2>1. /\ spc[s] = "claim" /\ spc' = [spc EXCEPT ![s] = "engine"]
        /\ epc' = [epc EXCEPT ![s] = "open"] /\ epc[s] = "idle"
        /\ UNCHANGED <<mc, ec, dbMc, dbEc>>
    BY <1>2 DEF Claim, To, WriteStatus, Begin, Moves
  <2> QED
    BY <1>s, <1>t, <2>1 DEF Saved, Executing
<1>3. ASSUME NEW s \in Streams, EngineWorks(s) PROVE Saved(t)'
  <2>1. spc[s] = "engine" /\ EngineStep(s) /\ spc' = spc /\ dbMc' = dbMc /\ dbEc' = dbEc
    BY <1>3 DEF EngineWorks, row
  <2>2. CASE s # t
    BY <1>a, <1>t, <2>1, <2>2, EngineStepCounts
  <2>3. CASE s = t
    <3>1. mc[t] <= dbMc /\ mc[t] \in Nat
      BY <1>s, <1>t, <2>1, <2>3, EngineStepCounts DEF Saved
    <3>2. \/ epc'[t] = "yield" /\ mc'[t] = mc[t] + 1
          \/ epc'[t] \notin {"idle", "yield"} /\ mc'[t] = mc[t]
      BY <1>t, <2>1, <2>3, EngineStepCounts
    <3>3. spc'[t] = "engine" /\ dbMc' = dbMc
      BY <2>1, <2>3
    <3> QED
      BY <1>t, <3>1, <3>2, <3>3 DEF Saved
  <2> QED
    BY <2>2, <2>3
<1>4. ASSUME NEW s \in Streams, RecordProgress(s) PROVE Saved(t)'
  <2>1. /\ epc[s] \in Suspended /\ spc[s] = "engine" /\ spc' = [spc EXCEPT ![s] = "yielded"]
        /\ dbMc' = mc[s] /\ dbEc' = ec[s] + (IF epc[s] = "failed" THEN 1 ELSE 0)
        /\ UNCHANGED <<epc, mc, ec>>
    BY <1>4 DEF RecordProgress, To, WriteProgress, engineVars
  <2>2. CASE s = t
    BY <1>t, <2>1, <2>2 DEF Saved, Suspended
  <2>3. CASE s # t
    <3>1. spc[t] \notin Live /\ spc'[t] = spc[t]
      BY <1>t, <2>1, <2>3 DEF Alone, Live
    <3> QED
      BY <1>s, <2>1, <3>1 DEF Saved, Live, Executing
  <2> QED
    BY <2>2, <2>3
<1>5. ASSUME NEW s \in Streams,
             ClientTakes(s) \/ PollPaused(s) \/ PollContinues(s) \/ FinalRead(s)
      PROVE  Saved(t)'
  <2>1. /\ UNCHANGED <<mc, ec, dbMc, dbEc>>
        /\ \/ /\ spc[s] = "yielded" /\ spc' = [spc EXCEPT ![s] = "poll"] /\ epc' = epc
           \/ /\ spc[s] = "poll" /\ spc' = [spc EXCEPT ![s] = "engine"]
              /\ epc' = [epc EXCEPT ![s] = "fetch"]
           \/ /\ spc[s] = "poll" /\ spc' = [spc EXCEPT ![s] = "finalRead"]
              /\ \E to \in {"finished", "aborted", "closed"} : epc' = [epc EXCEPT ![s] = to]
           \/ /\ spc[s] = "finalRead" /\ epc' = epc
              /\ \E to \in {"complete", "done"} : spc' = [spc EXCEPT ![s] = to]
    BY <1>5 DEF ClientTakes, PollPaused, PollContinues, FinalRead, To, Close, Continue, Exhaust,
       Moves, engineVars, row
  <2>2. CASE s # t
    BY <1>a, <1>t, <2>1, <2>2
  <2>3. CASE s = t
    <3>1. mc[t] \in Nat /\ (spc[t] \in {"yielded", "poll"} => mc[t] = dbMc)
      BY <1>s, <1>t DEF Saved
    <3> QED
      BY <1>s, <1>t, <2>1, <2>3, <3>1 DEF Saved, Executing
  <2> QED
    BY <2>2, <2>3
<1>6. ASSUME NEW s \in Streams,
             Complete(s) \/ MarkFailed(s) \/ CheckRaises(s) \/ MarkFailedRaises(s) \/ Abandon(s)
      PROVE  Saved(t)'
  <2>1. /\ UNCHANGED <<mc, ec, dbMc, dbEc>> /\ (epc' = epc \/ epc' = [epc EXCEPT ![s] = "closed"])
        /\ \E to \in {"done", "stuck", "gone"} : spc' = [spc EXCEPT ![s] = to]
    BY <1>6 DEF Complete, MarkFailed, CheckRaises, MarkFailedRaises, Abandon, To, WriteStatus,
       Close, Moves, engineVars, row
  <2>2. CASE s # t
    BY <1>a, <1>t, <2>1, <2>2
  <2>3. CASE s = t
    BY <1>b, <1>s, <1>t, <2>1, <2>3 DEF Saved
  <2> QED
    BY <2>2, <2>3
<1>7. ASSUME NEW s \in Streams, ServiceRaises(s) PROVE Saved(t)'
  <2>1. /\ UNCHANGED <<mc, ec, dbMc, dbEc>> /\ spc' = [spc EXCEPT ![s] = "except"]
        /\ spc[s] \in {"claim", "engine", "poll", "finalRead", "complete"}
        /\ epc' = epc \/ epc' = [epc EXCEPT ![s] = "closed"]
    BY <1>7 DEF ServiceRaises, To, Close, Moves, engineVars, row
  <2>2. CASE s # t
    BY <1>a, <1>t, <2>1, <2>2
  <2>3. CASE s = t
    <3>1. mc[t] <= dbMc + 1 /\ (epc[t] = "idle" => mc[t] = 0)
      BY <1>s, <1>t, <2>1, <2>3 DEF Saved, Executing
    <3> QED
      BY <1>t, <2>1, <2>3, <3>1 DEF Saved
  <2> QED
    BY <2>2, <2>3
<1>8. ASSUME NEW c \in Controllers, ControllerStep(c) PROVE Saved(t)'
  BY <1>8, <1>a DEF ControllerStep, PauseRead, CancelRead, PauseWrite, CancelWrite, ControlLost,
     WriteStatus, engineVars, row
<1>9. CASE SourceGrows \/ UNCHANGED vars
  BY <1>9, <1>a DEF SourceGrows, AppendSource, locals, serviceVars, vars
<1> QED
  BY <1>1, <1>2, <1>3, <1>4, <1>5, <1>6, <1>7, <1>8, <1>9
     DEF Next, StreamStep, StreamFault

\* With one progress connection at a time a crash makes the row forget one success at
\* most, and nothing that has been passed on to the client; the failures since the last
\* save are not bounded.
THEOREM OneSuccessIsUnreported ==
  ASSUME MaxLive <= 1
  PROVE  Safe => []AtMostOneSuccessUnreported
<1>1. ServiceInit => Alone /\ SavedInv
  BY DEF ServiceInit, EngineInit, Alone, SavedInv, Saved, Live, Executing
<1>2. ServiceTypeOK /\ Alone /\ [Next]_vars => Alone'
  BY AloneStep
<1>3. SavedInv => AtMostOneSuccessUnreported
  BY DEF SavedInv, Saved, AtMostOneSuccessUnreported
<1> QED
  BY <1>1, <1>2, <1>3, SavedStep, ServiceTypeCorrect, PTL DEF Safe

-----------------------------------------------------------------------------
(* Why StreamsEnd holds.  A stream uses up its range: of its own steps it  *)
(* takes at most five for each offset and twelve for the way in and out,   *)
(* and none but a fetch ever waits for anybody.                            *)

\* Where a stream's engine stands for each place in start_job.
Coupled(s) ==
  /\ spc[s] \in {"idle", "resumeCheck", "check", "claim"} => epc[s] = "idle"
  /\ spc[s] = "engine" => epc[s] \in {"open", "fetch", "handle"} \union Suspended
  /\ spc[s] \in {"yielded", "poll"} => epc[s] \in Suspended

CoupledInv == \A s \in Streams : Coupled(s)

\* How many steps a stream that fetches nothing more has before it.
Stage(s) ==
  CASE spc[s] = "idle"        -> 12
    [] spc[s] = "resumeCheck" -> 11
    [] spc[s] = "check"       -> 10
    [] spc[s] = "claim"       -> 9
    [] spc[s] = "finalRead"   -> 3
    [] spc[s] = "complete"    -> 2
    [] spc[s] = "except"      -> 1
    [] spc[s] \in {"done", "stuck", "gone"} -> 0
    [] spc[s] = "engine"  -> (CASE epc[s] = "handle" -> 11
                                [] epc[s] = "yield"  -> 10
                                [] epc[s] = "open"   -> 8
                                [] epc[s] = "fetch"  -> 7
                                [] OTHER             -> 6)
    [] spc[s] = "yielded" -> IF epc[s] = "yield" THEN 9 ELSE 5
    [] spc[s] = "poll"    -> IF epc[s] = "yield" THEN 8 ELSE 4

\* It fetches nothing more: the engine has yielded its last progress, or start_job has
\* left its loop.
Leaving(s) ==
  \/ spc[s] \in {"finalRead", "complete", "except", "done", "stuck", "gone"}
  \/ epc[s] \in {"final", "failed"}

StepsLeft(s) == Stage(s) + (IF Leaving(s) THEN 0 ELSE 5 * OffsetsLeft(s))

\* A step of a stream brings it nearer to its end, and no other stream, no controller
\* and no record that is appended takes it further away.
WindsDown(s) ==
  /\ StepsLeft(s)' <= StepsLeft(s)
  /\ Connect(s) \/ EngineWorks(s) \/ StreamStep(s) \/ StreamFault(s) => StepsLeft(s)' < StepsLeft(s)

\* The guards of the steps that fairness makes a stream take.
Ready(s) ==
  \/ spc[s] \in {"resumeCheck", "check", "yielded", "finalRead", "complete", "except"}
  \/ spc[s] = "claim" /\ epc[s] = "idle"
  \/ spc[s] = "poll" /\ epc[s] \in Suspended
  \/ spc[s] = "engine" /\ epc[s] \in {"open", "handle"} \union Suspended
  \/ spc[s] = "engine" /\ epc[s] = "fetch" /\ \E o \in records : IsNext(s, o)

\* With the log past its range a stream always has a step of its own to take.
NeverStuck == \A s \in Streams : spc[s] \in Live /\ RangePassed => Ready(s)

\* The steps of one stream, of its client and of the database under it.
Acts(s) == Connect(s) \/ EngineWorks(s) \/ StreamStep(s) \/ StreamFault(s)

LEMMA StreamMovesOne ==
  ASSUME ServiceTypeOK, NEW s \in Streams, NEW t \in Streams, s # t, Acts(s)
  PROVE  spc'[t] = spc[t] /\ epc'[t] = epc[t] /\ pos'[t] = pos[t] /\ job' = job
<1>1. Replays(s) \/ UNCHANGED engineVars
  BY DEF Replays, Acts, StreamStep, StreamFault, Connect, EngineWorks, ResumeCheck, Check, Claim,
     RecordProgress, ClientTakes, PollPaused, PollContinues, FinalRead, Complete, MarkFailed,
     CheckRaises, ServiceRaises, MarkFailedRaises, Abandon
<1>2. spc' = spc \/ \E to \in StreamPC : spc' = [spc EXCEPT ![s] = to]
  BY DEF Acts, StreamStep, StreamFault, Connect, EngineWorks, ResumeCheck, Check, Claim,
     RecordProgress, ClientTakes, PollPaused, PollContinues, FinalRead, Complete, MarkFailed,
     CheckRaises, ServiceRaises, MarkFailedRaises, Abandon, To, StreamPC
<1>3. spc \in [Streams -> StreamPC]
  BY DEF ServiceTypeOK
<1>4. EngineTypeOK
  BY DEF ServiceTypeOK
<1> QED
  BY <1>1, <1>2, <1>3, <1>4, EngineMovesOne DEF engineVars

LEMMA OthersLeaveAlone ==
  ASSUME ServiceTypeOK, [Next]_vars, NEW t \in Streams, ~Acts(t)
  PROVE  spc'[t] = spc[t] /\ epc'[t] = epc[t] /\ pos'[t] = pos[t] /\ job' = job
<1>1. ASSUME NEW s \in Streams, Acts(s)
      PROVE  spc'[t] = spc[t] /\ epc'[t] = epc[t] /\ pos'[t] = pos[t] /\ job' = job
  BY <1>1, StreamMovesOne
<1>2. ASSUME NEW c \in Controllers, ControllerStep(c) PROVE UNCHANGED <<spc, epc, pos, job>>
  BY <1>2 DEF ControllerStep, PauseRead, CancelRead, PauseWrite, CancelWrite, ControlLost, engineVars
<1>3. CASE SourceGrows
  BY <1>3 DEF SourceGrows, AppendSource, locals, serviceVars
<1>4. CASE UNCHANGED vars
  BY <1>4 DEF vars
<1> QED
  BY <1>1, <1>2, <1>3, <1>4 DEF Next, Acts

LEMMA CoupledStep == ServiceTypeOK /\ CoupledInv /\ [Next]_vars => CoupledInv'
<1> SUFFICES ASSUME ServiceTypeOK, CoupledInv, [Next]_vars, NEW t \in Streams PROVE Coupled(t)'
  BY DEF CoupledInv
<1>a. Coupled(t) /\ spc \in [Streams -> StreamPC] /\ epc \in [Streams -> EnginePC]
  BY DEF CoupledInv, ServiceTypeOK, EngineTypeOK
<1> USE DEF Coupled, To, Suspended
<1>1. CASE ~Acts(t)
  BY <1>a, <1>1, OthersLeaveAlone
<1>2. CASE Connect(t)
  BY <1>a, <1>2 DEF Connect, engineVars
<1>3. CASE EngineWorks(t)
  <2>1. spc'[t] = "engine"
    BY <1>a, <1>3 DEF EngineWorks
  <2>2. epc'[t] \in {"fetch", "handle", "yield", "final", "failed"}
    BY <1>a, <1>3 DEF EngineWorks, EngineStep, EngineProgress, OpenAccepted, OpenRejected,
       ConsumeFails, FetchRecord, FetchPastEnd, TransformFails, DryRunSkips, ProduceAcknowledged,
       ProduceRejected, ProduceUnconfirmed, CountError, CountSuccess, Moves
  <2> QED
    BY <2>1, <2>2
<1>4. CASE ResumeCheck(t) \/ Check(t)
  BY <1>a, <1>4 DEF ResumeCheck, Check, engineVars
<1>5. CASE Claim(t)
  BY <1>a, <1>5 DEF Claim, Begin, Moves
<1>6. CASE RecordProgress(t) \/ ClientTakes(t)
  BY <1>a, <1>6 DEF RecordProgress, ClientTakes, engineVars
<1>7. CASE PollPaused(t)
  BY <1>a, <1>7 DEF PollPaused
<1>8. CASE PollContinues(t)
  BY <1>a, <1>8 DEF PollContinues, Continue, Moves
<1>9. CASE FinalRead(t) \/ Complete(t) \/ MarkFailed(t)
  BY <1>a, <1>9 DEF FinalRead, Complete, MarkFailed
<1>10. CASE StreamFault(t)
  BY <1>a, <1>10 DEF StreamFault, CheckRaises, ServiceRaises, MarkFailedRaises, Abandon
<1> QED
  BY <1>1, <1>2, <1>3, <1>4, <1>5, <1>6, <1>7, <1>8, <1>9, <1>10 DEF Acts, StreamStep

LEMMA EngineWindsDown ==
  ASSUME ServiceTypeOK, NEW t \in Streams, EngineWorks(t)
  PROVE  StepsLeft(t)' < StepsLeft(t)
<1>1. /\ spc[t] = "engine" /\ spc'[t] = "engine" /\ EngineTypeOK /\ EngineStep(t)
      /\ OffsetsLeft(t) \in Nat /\ epc \in [Streams -> EnginePC] /\ pos \in [Streams -> Int]
  BY OffsetsTypes DEF EngineWorks, ServiceTypeOK, EngineTypeOK
<1>2. CASE FetchRecord(t)
  <2>1. epc[t] = "fetch" /\ epc'[t] = "handle"
    BY <1>1, <1>2 DEF FetchRecord, Moves
  <2>2. OffsetsLeft(t)' \in Nat /\ OffsetsLeft(t)' < OffsetsLeft(t)
    BY <1>1, <1>2, OffsetsFetched
  <2> QED
    BY <1>1, <2>1, <2>2 DEF StepsLeft, Stage, Leaving
<1>3. CASE OpenAccepted(t)
  <2>1. epc[t] = "open" /\ epc'[t] = "fetch" /\ pos'[t] = job.start /\ job' = job
    BY <1>1, <1>3 DEF OpenAccepted, Moves, source
  <2>2. OffsetsLeft(t)' = OffsetsLeft(t)
    BY <2>1, OffsetsKept
  <2> QED
    BY <1>1, <2>1, <2>2 DEF StepsLeft, Stage, Leaving
<1>4. CASE OpenRejected(t) \/ ConsumeFails(t) \/ FetchPastEnd(t)
  <2>1. epc[t] \in {"open", "fetch"} /\ epc'[t] \in {"final", "failed"}
    BY <1>1, <1>4 DEF OpenRejected, ConsumeFails, FetchPastEnd, Moves
  <2> QED
    BY <1>1, <2>1 DEF StepsLeft, Stage, Leaving
<1>5. CASE \/ TransformFails(t) \/ DryRunSkips(t)
           \/ ProduceAcknowledged(t) \/ ProduceRejected(t) \/ ProduceUnconfirmed(t)
  <2>1. epc[t] = "handle" /\ epc'[t] \in {"fetch", "yield"} /\ pos' = pos /\ job' = job
    BY <1>1, <1>5 DEF TransformFails, DryRunSkips, ProduceAcknowledged, ProduceRejected,
       ProduceUnconfirmed, CountError, CountSuccess, Moves, source
  <2>2. OffsetsLeft(t)' = OffsetsLeft(t)
    BY <2>1, OffsetsKept
  <2> QED
    BY <1>1, <2>1, <2>2 DEF StepsLeft, Stage, Leaving
<1> QED
  BY <1>1, <1>2, <1>3, <1>4, <1>5 DEF EngineStep, EngineProgress

LEMMA ServiceWindsDown ==
  ASSUME ServiceTypeOK, NEW t \in Streams, Coupled(t),
         Connect(t) \/ StreamStep(t) \/ StreamFault(t)
  PROVE  StepsLeft(t)' < StepsLeft(t)
<1>1. /\ EngineTypeOK /\ OffsetsLeft(t) \in Nat
      /\ epc \in [Streams -> EnginePC] /\ spc \in [Streams -> StreamPC]
  BY OffsetsTypes DEF ServiceTypeOK, EngineTypeOK
\* Steps that leave the engine where it is.
<1>a. ASSUME UNCHANGED engineVars
      PROVE  OffsetsLeft(t)' = OffsetsLeft(t) /\ epc'[t] = epc[t] /\ job' = job
  BY <1>a DEF engineVars, OffsetsLeft
<1>b. ASSUME spc[t] \in Live \ {"complete", "except"},
             spc'[t] \in {"done", "stuck", "gone", "except", "complete"}
      PROVE  StepsLeft(t)' < StepsLeft(t)
  BY <1>1, <1>b DEF StepsLeft, Stage, Leaving, Live
<1> USE DEF To
<1>2. CASE Connect(t)
  <2>1. spc[t] = "idle" /\ spc'[t] \in {"check", "resumeCheck"} /\ UNCHANGED engineVars
    BY <1>1, <1>2 DEF Connect
  <2> QED
    BY <1>1, <1>a, <2>1 DEF StepsLeft, Stage, Leaving, Coupled
<1>3. CASE ResumeCheck(t) \/ Check(t)
  <2>1. /\ UNCHANGED engineVars
        /\ \/ spc[t] = "resumeCheck" /\ spc'[t] \in {"check", "done"}
           \/ spc[t] = "check" /\ spc'[t] \in {"claim", "done"}
    BY <1>1, <1>3 DEF ResumeCheck, Check
  <2> QED
    BY <1>1, <1>a, <2>1 DEF StepsLeft, Stage, Leaving, Coupled
<1>4. CASE Claim(t)
  <2>1. spc[t] = "claim" /\ spc'[t] = "engine" /\ epc[t] = "idle" /\ epc'[t] = "open" /\ job' = job
    BY <1>1, <1>4 DEF Claim, Begin, Moves, source
  <2>2. OffsetsLeft(t)' = OffsetsLeft(t)
    BY <2>1, OffsetsKept
  <2> QED
    BY <1>1, <2>1, <2>2 DEF StepsLeft, Stage, Leaving
<1>5. CASE RecordProgress(t) \/ ClientTakes(t)
  <2>1. /\ UNCHANGED engineVars /\ epc[t] \in Suspended
        /\ \/ spc[t] = "engine" /\ spc'[t] = "yielded"
           \/ spc[t] = "yielded" /\ spc'[t] = "poll"
    BY <1>1, <1>5 DEF RecordProgress, ClientTakes, Coupled
  <2> QED
    BY <1>1, <1>a, <2>1 DEF StepsLeft, Stage, Leaving, Suspended
<1>6. CASE PollPaused(t)
  <2>1. spc[t] = "poll" /\ spc'[t] = "finalRead"
    BY <1>1, <1>6 DEF PollPaused
  <2> QED
    BY <1>1, <2>1 DEF StepsLeft, Stage, Leaving, Coupled, Suspended
<1>7. CASE PollContinues(t)
  <2>1. CASE epc[t] = "yield"
    <3>1. /\ spc[t] = "poll" /\ spc'[t] = "engine" /\ epc'[t] = "fetch"
          /\ pos' = pos /\ job' = job
      BY <1>1, <1>7, <2>1 DEF PollContinues, Continue, Exhaust, Moves, source
    <3>2. OffsetsLeft(t)' = OffsetsLeft(t)
      BY <2>1, <3>1, OffsetsKept
    <3> QED
      BY <1>1, <2>1, <3>1, <3>2 DEF StepsLeft, Stage, Leaving
  <2>2. CASE epc[t] # "yield"
    <3>1. spc[t] = "poll" /\ spc'[t] = "finalRead" /\ epc[t] \in {"final", "failed"}
      BY <1>1, <1>7, <2>2 DEF PollContinues, Continue, Exhaust, Moves
    <3> QED
      BY <1>1, <3>1 DEF StepsLeft, Stage, Leaving
  <2> QED
    BY <2>1, <2>2
<1>8. CASE FinalRead(t) \/ Complete(t) \/ MarkFailed(t)
  <2>1. \/ spc[t] = "finalRead" /\ spc'[t] \in {"complete", "done"}
        \/ spc[t] \in {"complete", "except"} /\ spc'[t] = "done"
    BY <1>1, <1>8 DEF FinalRead, Complete, MarkFailed
  <2> QED
    BY <1>1, <2>1 DEF StepsLeft, Stage, Leaving
<1>9. CASE StreamFault(t)
  <2>1. \/ spc[t] \in {"complete", "except"} /\ spc'[t] \in {"done", "stuck", "gone"}
        \/ spc[t] = "complete" /\ spc'[t] = "except"
        \/ spc[t] \in Live \ {"complete", "except"} /\ spc'[t] \in {"done", "except", "gone"}
    BY <1>1, <1>9 DEF StreamFault, CheckRaises, ServiceRaises, MarkFailedRaises, Abandon, Live
  <2>2. CASE spc[t] \in {"complete", "except"}
    BY <1>1, <2>1, <2>2 DEF StepsLeft, Stage, Leaving
  <2> QED
    BY <1>b, <2>1, <2>2
<1> QED
  BY <1>2, <1>3, <1>4, <1>5, <1>6, <1>7, <1>8, <1>9 DEF StreamStep

LEMMA StepsLeftType == ServiceTypeOK => \A t \in Streams : StepsLeft(t) \in Nat
<1> SUFFICES ASSUME ServiceTypeOK, NEW t \in Streams PROVE StepsLeft(t) \in Nat
  OBVIOUS
<1>1. OffsetsLeft(t) \in Nat /\ spc[t] \in StreamPC
  BY OffsetsTypes DEF ServiceTypeOK
<1> QED
  BY <1>1 DEF StepsLeft, Stage, Leaving, StreamPC

LEMMA StepsLeftTypeNext == (ServiceTypeOK => \A t \in Streams : StepsLeft(t) \in Nat)'
  BY StepsLeftType, PTL

LEMMA WindStep ==
  ServiceTypeOK /\ CoupledInv /\ [Next]_vars => \A t \in Streams : WindsDown(t)
<1> SUFFICES ASSUME ServiceTypeOK, CoupledInv, [Next]_vars, NEW t \in Streams
             PROVE  WindsDown(t)
  OBVIOUS
<1>1. StepsLeft(t) \in Nat /\ StepsLeft(t)' \in Nat
  BY ServiceTypeStep, StepsLeftType, StepsLeftTypeNext
<1>2. CASE Acts(t)
  <2>1. StepsLeft(t)' < StepsLeft(t)
    BY <1>2, EngineWindsDown, ServiceWindsDown DEF Acts, CoupledInv
  <2> HIDE DEF StepsLeft
  <2> QED
    BY <1>1, <2>1 DEF WindsDown
<1>3. CASE ~Acts(t)
  <2>1. spc'[t] = spc[t] /\ epc'[t] = epc[t] /\ pos'[t] = pos[t] /\ job' = job
    BY <1>3, OthersLeaveAlone
  <2>2. StepsLeft(t)' = StepsLeft(t)
    BY <2>1 DEF StepsLeft, Stage, Leaving, OffsetsLeft
  <2> QED
    BY <1>1, <1>3, <2>2 DEF WindsDown, Acts
<1> QED
  BY <1>2, <1>3

\* Every stream winds down: StepsLeft is a natural number, every step of a stream, of its
\* client or of the database under it lowers it and nothing else raises it, so a stream
\* takes at most 12 steps and 5 for each offset of its range, whatever is paused,
\* cancelled, appended or started beside it.
THEOREM StreamsWindDown ==
  Safe => /\ [](\A s \in Streams : StepsLeft(s) \in Nat)
          /\ [][\A s \in Streams : WindsDown(s)]_vars
<1>1. ServiceInit => CoupledInv
  BY DEF ServiceInit, EngineInit, CoupledInv, Coupled
<1>2. ServiceTypeOK /\ CoupledInv /\ [Next]_vars => [\A s \in Streams : WindsDown(s)]_vars
  BY WindStep
<1>3. ServiceTypeOK => \A s \in Streams : StepsLeft(s) \in Nat
  BY StepsLeftType
<1> QED
  BY <1>1, <1>2, <1>3, CoupledStep, ServiceTypeCorrect, PTL DEF Safe

LEMMA PassedIsReady ==
  ServiceTypeOK /\ CoupledInv /\ ReadInv => NeverStuck
<1> SUFFICES ASSUME ServiceTypeOK, CoupledInv, ReadInv, RangePassed,
                    NEW s \in Streams, spc[s] \in Live
             PROVE  Ready(s)
  BY DEF NeverStuck
<1>1. Coupled(s) /\ (epc[s] = "fetch" => \E o \in records : IsNext(s, o))
  BY PassedIsFetchable DEF ServiceTypeOK, CoupledInv, RangePassed, WaitsForTheLog
<1> QED
  BY <1>1 DEF Ready, Coupled, Live, Suspended

\* Once the log goes on past the range, a stream that has not returned always has a step
\* of its own to take: together with StreamsWindDown, all that StreamsEnd needs besides
\* fairness.
THEOREM StreamsAreNeverStuck == Safe => []NeverStuck
<1>1. ServiceInit => CoupledInv
  BY DEF ServiceInit, EngineInit, CoupledInv, Coupled
<1>2. Safe => []EngineTypeOK
  BY ServiceTypeCorrect, PTL DEF ServiceTypeOK
<1>3. Safe => []ReadInv
  BY <1>2, ReadInit, ServiceImplementsEngine, ReadStep, PTL
<1> QED
  BY <1>1, <1>3, CoupledStep, PassedIsReady, ServiceTypeCorrect, PTL DEF Safe

=============================================================================
