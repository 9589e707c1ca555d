---------------------------- MODULE ReplayEngine ----------------------------
(***************************************************************************)
(* One or more executions ("streams") of ReplayEngine.replay over          *)
(* KafkaAdapter.consume_messages and produce_messages.                     *)
(*                                                                         *)
(* replay() is an asynchronous generator.  It runs only while its caller   *)
(* awaits the next progress value (Pull), gives control back at every      *)
(* yield, and may be dropped by its caller at any await (Close).  An       *)
(* action below is the code between two awaits whose outcome matters.      *)
(* Keys, values, headers, timing and throughput are left out; a message is *)
(* its offset in the source partition.                                     *)
(***************************************************************************)
EXTENDS Integers, Sequences, FiniteSets

CONSTANTS
  Streams,    \* executions of replay(); each element is used at most once
  Jobs,       \* the job rows to choose from: [start, end, dryRun, script]
  Attempts,   \* how often the client sends one record at most (1 + settings.retries)
  Earliest,   \* first offset the source partition still holds
  MaxOffset   \* BOUND: the log end offset never grows past it

ASSUME JobsAssumption ==
  Jobs \subseteq [start: Int, end: Int, dryRun: BOOLEAN, script: BOOLEAN]
ASSUME AttemptsAssumption == Attempts \in Nat \ {0}
ASSUME OffsetsAssumption ==
  Earliest \in Nat /\ MaxOffset \in Nat /\ Earliest <= MaxOffset

VARIABLES
  job,        \* the job's parameters, read once when the stream starts
  records,    \* offsets of the source partition that hold a message
  latest,     \* log end offset of the source partition
  epc,        \* where each generator stands
  pos,        \* next offset the consumer of a stream will fetch
  cur,        \* offset of the message a stream has in hand
  mc,         \* local message_count
  ec,         \* local error_count
  consumed,   \* messages_consumed of consume_messages
  delivered   \* offsets a stream has put on the destination topic, in order

source == <<job, records, latest>>
locals == <<epc, pos, cur, mc, ec, consumed, delivered>>
engineVars == <<job, records, latest, epc, pos, cur, mc, ec, consumed, delivered>>

\* "idle": not called yet; "open": validating the range and starting the
\* consumer; "fetch": awaiting a record; "handle": a record is in hand;
\* "yield", "final", "failed": suspended at a yield of a RUNNING, COMPLETED or
\* FAILED progress; "finished", "aborted": exhausted after the one or the other;
\* "closed": dropped by the caller.
EnginePC == {"idle", "open", "fetch", "handle", "yield", "final", "failed",
             "finished", "aborted", "closed"}
Suspended == {"yield", "final", "failed"}

\* total_messages of the engine: offset_end counts as inclusive here.
Total == job.end - job.start + 1

\* What get_partition_offsets and the two range checks accept: offset_end is
\* exclusive here.
RangeAccepted ==
  /\ Earliest <= job.start /\ job.start < latest
  /\ Earliest <= job.end   /\ job.end <= latest

\* The record the consumer hands over next: offsets without a record (control
\* records, compacted messages) are skipped.
IsNext(s, o) ==
  /\ o \in records /\ o >= pos[s]
  /\ \A r \in records : r >= pos[s] => o <= r

\* Mutant: the loop stops one offset early.
PastRangeEarly(s, o) == o >= job.end - 1

\* Mutant: only max_messages ends the loop.
PastRangeByCount(s, o) == Total # 0 /\ consumed[s] >= Total

\* Mutant: only max_messages ends the loop, one message late.
PastRangeByCountLate(s, o) == consumed[s] > Total

\* The break conditions of the consumer loop, evaluated on a record that has
\* already arrived.
PastRange(s, o) ==
  \/ o >= job.end
  \/ Total # 0 /\ consumed[s] >= Total

-----------------------------------------------------------------------------
EngineInit ==
  /\ job \in Jobs
  /\ latest \in Earliest..MaxOffset
  /\ records \in SUBSET (Earliest..(latest - 1))
  /\ epc = [s \in Streams |-> "idle"]
  /\ pos = [s \in Streams |-> 0]
  /\ cur = [s \in Streams |-> 0]
  /\ mc = [s \in Streams |-> 0]
  /\ ec = [s \in Streams |-> 0]
  /\ consumed = [s \in Streams |-> 0]
  /\ delivered = [s \in Streams |-> << >>]

Moves(s, from, to) ==
  /\ epc[s] \in from
  /\ epc' = [epc EXCEPT ![s] = to]

\* Mutant: the consumer is not sought to offset_start.
OpenAcceptedUnsought(s) ==
  /\ RangeAccepted
  /\ Moves(s, {"open"}, "fetch")
  /\ pos' = [pos EXCEPT ![s] = Earliest]
  /\ UNCHANGED <<source, cur, mc, ec, consumed, delivered>>

\* The range is accepted and the consumer is assigned and sought to start.
OpenAccepted(s) ==
  /\ RangeAccepted
  /\ Moves(s, {"open"}, "fetch")
  /\ pos' = [pos EXCEPT ![s] = job.start]
  /\ UNCHANGED <<source, cur, mc, ec, consumed, delivered>>

\* OffsetOutOfRangeError out of consume_messages reaches the outer handler.
OpenRejected(s) ==
  /\ ~RangeAccepted
  /\ Moves(s, {"open"}, "failed")
  /\ UNCHANGED <<source, pos, cur, mc, ec, consumed, delivered>>

\* A missing topic, a broker error or any other exception raised by the
\* consumer while it starts or while it waits for a record.
ConsumeFails(s) ==
  /\ Moves(s, {"open", "fetch"}, "failed")
  /\ UNCHANGED <<source, pos, cur, mc, ec, consumed, delivered>>

\* The next record arrives and is in the range: it is handed to the engine.
FetchRecord(s) ==
  /\ Moves(s, {"fetch"}, "handle")
  /\ \E o \in records :
       /\ IsNext(s, o)
       /\ ~PastRange(s, o)
       /\ cur' = [cur EXCEPT ![s] = o]
       /\ pos' = [pos EXCEPT ![s] = o + 1]
  /\ UNCHANGED <<source, mc, ec, consumed, delivered>>

\* The next record arrives and is past the range: the loop ends and the
\* final progress is yielded.  Nothing ends the loop before a record arrives.
FetchPastEnd(s) ==
  /\ Moves(s, {"fetch"}, "final")
  /\ \E o \in records : IsNext(s, o) /\ PastRange(s, o)
  /\ UNCHANGED <<source, pos, cur, mc, ec, consumed, delivered>>

\* error_count += 1 and continue: the loop asks for the next record at once,
\* without a progress update.
CountError(s) ==
  /\ Moves(s, {"handle"}, "fetch")
  /\ ec' = [ec EXCEPT ![s] = @ + 1]
  /\ consumed' = [consumed EXCEPT ![s] = @ + 1]

\* message_count += 1 and the progress update is yielded.
CountSuccess(s) ==
  /\ Moves(s, {"handle"}, "yield")
  /\ mc' = [mc EXCEPT ![s] = @ + 1]

\* The broker has appended the message in hand, once for each time the client has
\* sent it: the producer is configured with retries and without idempotence, so a
\* record whose acknowledgement was lost is appended again.
Deliver(s) ==
  \E n \in 1..Attempts :
    delivered' = [delivered EXCEPT ![s] = @ \o [i \in 1..n |-> cur[s]]]

\* The messages a stream has delivered, however often.
Delivered(s) == {delivered[s][i] : i \in DOMAIN delivered[s]}

\* Mutant: a failed transform continues without counting the message.
TransformFailsUncounted(s) ==
  /\ job.script
  /\ Moves(s, {"handle"}, "fetch")
  /\ consumed' = [consumed EXCEPT ![s] = @ + 1]
  /\ UNCHANGED <<source, pos, cur, mc, ec, delivered>>

\* _transform_message raises.
TransformFails(s) ==
  /\ job.script
  /\ CountError(s)
  /\ UNCHANGED <<source, pos, cur, mc, delivered>>

\* Mutant: dry_run is not looked at.
ProduceAcknowledgedAlways(s) ==
  /\ CountSuccess(s)
  /\ Deliver(s)
  /\ UNCHANGED <<source, pos, cur, ec, consumed>>

\* The produce call returns: the broker has the message.
ProduceAcknowledged(s) ==
  /\ ~job.dryRun
  /\ CountSuccess(s)
  /\ Deliver(s)
  /\ UNCHANGED <<source, pos, cur, ec, consumed>>

\* The produce call raises and the message is not on the destination.
ProduceRejected(s) ==
  /\ ~job.dryRun
  /\ CountError(s)
  /\ UNCHANGED <<source, pos, cur, mc, delivered>>

\* Mutant: the engine tries an unconfirmed produce again.
ProduceUnconfirmedRetried(s) ==
  /\ ~job.dryRun
  /\ epc[s] = "handle"
  /\ Deliver(s) /\ Len(delivered[s]) < MaxOffset
  /\ UNCHANGED <<source, epc, pos, cur, mc, ec, consumed>>

\* The produce call raises although the broker has appended the message.
ProduceUnconfirmed(s) ==
  /\ ~job.dryRun
  /\ CountError(s)
  /\ Deliver(s)
  /\ UNCHANGED <<source, pos, cur, mc>>

DryRunSkips(s) ==
  /\ job.dryRun
  /\ CountSuccess(s)
  /\ UNCHANGED <<source, pos, cur, ec, consumed, delivered>>

\* The caller's first __anext__.
Begin(s) ==
  /\ Moves(s, {"idle"}, "open")
  /\ UNCHANGED <<source, pos, cur, mc, ec, consumed, delivered>>

\* The caller's __anext__ after a RUNNING progress: the message is finished.
Continue(s) ==
  /\ Moves(s, {"yield"}, "fetch")
  /\ consumed' = [consumed EXCEPT ![s] = @ + 1]
  /\ UNCHANGED <<source, pos, cur, mc, ec, delivered>>

\* The caller's __anext__ after the last progress: StopAsyncIteration.
Exhaust(s) ==
  /\ \/ Moves(s, {"final"}, "finished")
     \/ Moves(s, {"failed"}, "aborted")
  /\ UNCHANGED <<source, pos, cur, mc, ec, consumed, delivered>>

\* The caller drops the generator (break, cancellation, process exit).  A message
\* whose produce was under way may reach the destination all the same.
Close(s) ==
  /\ Moves(s, {"open", "fetch", "handle", "yield", "final", "failed"}, "closed")
  /\ \/ UNCHANGED delivered
     \/ epc[s] = "handle" /\ ~job.dryRun /\ Deliver(s)
  /\ UNCHANGED <<source, pos, cur, mc, ec, consumed>>

\* A producer of the source topic appends a record; an offset may also be
\* taken by a control record, which no consumer sees.
AppendSource ==
  /\ latest < MaxOffset
  /\ latest' = latest + 1
  /\ records' \in {records, records \union {latest}}
  /\ UNCHANGED <<job, locals>>

\* What the engine does by itself while its caller awaits it.
EngineProgress(s) ==
  \/ OpenAccepted(s)        \/ OpenRejected(s)
  \/ FetchRecord(s)         \/ FetchPastEnd(s)
  \/ TransformFails(s)      \/ DryRunSkips(s)
  \/ ProduceAcknowledged(s) \/ ProduceRejected(s) \/ ProduceUnconfirmed(s)

EngineStep(s) == EngineProgress(s) \/ ConsumeFails(s)

EngineNext ==
  \/ \E s \in Streams : EngineStep(s) \/ Begin(s) \/ Continue(s) \/ Exhaust(s) \/ Close(s)
  \/ AppendSource

\* The event loop runs a generator its caller awaits, and a caller that has
\* begun keeps asking for the next value or drops the generator.  Nothing makes
\* a broker fail and nobody has to append to the source topic.
EngineFairness ==
  \A s \in Streams :
    /\ WF_engineVars(EngineProgress(s))
    /\ WF_engineVars(Continue(s) \/ Exhaust(s))

EngineSpec == EngineInit /\ [][EngineNext]_engineVars /\ EngineFairness

-----------------------------------------------------------------------------
(* Properties *)

\* Every variable holds a value the code can produce.
EngineTypeOK ==
  /\ job \in Jobs
  /\ latest \in Earliest..MaxOffset
  /\ records \subseteq Earliest..(latest - 1)
  /\ epc \in [Streams -> EnginePC]
  /\ pos \in [Streams -> Int]
  /\ cur \in [Streams -> Int]
  /\ mc \in [Streams -> Nat]
  /\ ec \in [Streams -> Nat]
  /\ consumed \in [Streams -> Nat]
  /\ delivered \in [Streams -> Seq(Int)]

\* Every message the consumer handed over is counted exactly once, as a success
\* or as an error, on every path through the loop body (the three `continue`s
\* and the fall-through); only a success whose progress is still being yielded
\* is counted before the consumer moves on.
Counted(s) ==
  /\ epc[s] = "yield"  => mc[s] + ec[s] = consumed[s] + 1
  /\ epc[s] = "closed" => mc[s] + ec[s] \in {consumed[s], consumed[s] + 1}
  /\ epc[s] \notin {"yield", "closed"} => mc[s] + ec[s] = consumed[s]
EveryMessageCountedOnce == \A s \in Streams : Counted(s)

\* A stream puts source messages on the destination in source order, only from
\* the requested range and never ahead of its consumer, whichever transforms and
\* produces fail.  A message is there more than once only through the retries of
\* the client: its copies are adjacent and at most Attempts, so the engine itself
\* never produces a message twice.
InOrder(s) ==
  /\ \A i, j \in DOMAIN delivered[s] : i < j => delivered[s][i] <= delivered[s][j]
  /\ \A i, j \in DOMAIN delivered[s] : delivered[s][i] = delivered[s][j] => j - i < Attempts
  /\ \A i \in DOMAIN delivered[s] :
       /\ job.start <= delivered[s][i] /\ delivered[s][i] < job.end
       /\ delivered[s][i] < pos[s]
DeliveredInOrder == \A s \in Streams : InOrder(s)

\* The acknowledged messages are on the destination: message_count of a job that
\* is not a dry run never exceeds the number of different messages the stream has
\* delivered, whatever copies the client's retries add, and every message that was
\* delivered is counted as a success or an error, but for the one in hand when the
\* stream was dropped.  A dry run delivers nothing however its messages are counted.
Backed(s) ==
  IF job.dryRun THEN delivered[s] = << >>
  ELSE /\ mc[s] <= Cardinality(Delivered(s))
       /\ Cardinality(Delivered(s)) <= mc[s] + ec[s] + (IF epc[s] = "closed" THEN 1 ELSE 0)
CountedMeansDelivered == \A s \in Streams : Backed(s)

\* The final COMPLETED progress is yielded only after every record below
\* offset_end was handed over: no gap in the offsets, no early break and no
\* max_messages cut ends the loop with a record of the range unread.
FinalMeansRangeRead ==
  \A s \in Streams :
    epc[s] = "final" =>
      consumed[s] = Cardinality({r \in records : job.start <= r /\ r < job.end})

\* progress_percent stays within the bounds ReplayProgress validates: whenever it
\* is computed by a division, with total_messages positive, the successes do not
\* exceed the total.  (Otherwise it is 0 or 100 by constant.)
PercentWithinBounds ==
  \A s \in Streams : epc[s] \in Suspended /\ Total > 0 => mc[s] <= Total

\* A stream waiting for records ends once the log holds a record at or past
\* offset_end (and at or past offset_start, when the range is reversed).
\* Without one it waits for ever: the two break conditions are only looked at
\* when another record arrives.
EndsOncePastEnd ==
  \A s \in Streams :
    (epc[s] = "fetch" /\ \E r \in records : r >= job.end /\ r >= job.start)
      ~> epc[s] \in {"final", "failed", "closed"}

\* ReplayJobCreate calls offset_end inclusive: a replay that reports COMPLETED
\* without an error has read the message at offset_end.
OffsetEndIsInclusive ==
  \A s \in Streams :
    epc[s] = "final" /\ ec[s] = 0 /\ job.end \in records => pos[s] > job.end

\* Each stream implements the copying of a range: see RangeCopy.  A message in
\* hand is still ahead of the abstract cursor.
Copy(s) == INSTANCE RangeCopy WITH
  Copies <- Attempts,
  lo     <- job.start,
  hi     <- job.end,
  cursor <- CASE epc[s] = "handle"                     -> cur[s]
              [] epc[s] \in {"fetch", "yield", "final"} -> pos[s]
              [] OTHER                                  -> job.start,
  out    <- delivered[s],
  phase  <- CASE epc[s] \in {"idle", "open"}            -> "waiting"
              [] epc[s] \in {"fetch", "handle", "yield"} -> "copying"
              [] epc[s] = "final"                        -> "complete"
              [] OTHER                                  -> "over"
CopiesARange ==
  /\ \A s \in Streams : Copy(s)!Init
  /\ [][\A s \in Streams : [Copy(s)!Next]_(Copy(s)!vars)]_engineVars

=============================================================================
