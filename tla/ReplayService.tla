---------------------------- MODULE ReplayService ---------------------------
(***************************************************************************)
(* ReplayService over one row of replay_jobs: the streams that run         *)
(* start_job / resume_job (one per progress connection), the callers of    *)
(* pause_job and cancel_job, and the row they share.                       *)
(*                                                                         *)
(* Every read and every write of the row is a database session of its own, *)
(* so what an operation read may be gone when it writes.  The engine is    *)
(* ReplayEngine: a stream of the service drives the engine stream of the   *)
(* same name through Begin, Continue, Exhaust and Close.                   *)
(***************************************************************************)
EXTENDS ReplayEngine

CONSTANTS
  Starters,      \* streams that may call start_job (the progress endpoint)
  Resumers,      \* streams that may call resume_job
  Controllers,   \* callers of pause_job and cancel_job
  MaxLive,       \* how many progress connections are open at once
  MaxRequests,   \* BOUND: pause and cancel requests in all
  MaxDbFaults    \* BOUND: database calls that raise

ASSUME ServiceBounds ==
  /\ Starters \subseteq Streams /\ Resumers \subseteq Streams
  /\ MaxLive \in Nat /\ MaxRequests \in Nat /\ MaxDbFaults \in Nat

VARIABLES
  status,        \* the row: status
  startedAt,     \* the row: started_at is set
  completedAt,   \* the row: completed_at is set
  dbMc,          \* the row: message_count
  dbEc,          \* the row: error_count
  spc,           \* where start_job / resume_job stands in each stream
  cpc,           \* where each controller stands
  requests,      \* pause and cancel requests so far
  dbFaults,      \* database faults so far
  afterPause     \* history: messages acknowledged since the row became PAUSED

row == <<status, startedAt, completedAt, dbMc, dbEc>>
serviceVars == <<status, startedAt, completedAt, dbMc, dbEc, spc, cpc, requests,
                 dbFaults, afterPause>>
vars == <<job, records, latest, epc, pos, cur, mc, ec, consumed, delivered,
          status, startedAt, completedAt, dbMc, dbEc, spc, cpc, requests,
          dbFaults, afterPause>>

Status == {"PENDING", "RUNNING", "PAUSED", "COMPLETED", "FAILED", "CANCELLED"}
Terminal == {"COMPLETED", "FAILED", "CANCELLED"}

\* "resumeCheck", "check": about to read the row at the top of resume_job or
\* start_job; "claim": about to write RUNNING; "engine": awaiting the engine;
\* "yielded": suspended at its own yield; "poll": about to read the row for
\* PAUSED; "finalRead", "complete": the last read and the COMPLETED write;
\* "except": about to write FAILED; "done": returned; "stuck": returned after
\* the FAILED write failed too; "gone": dropped by its client or the process.
StreamPC == {"idle", "resumeCheck", "check", "claim", "engine", "yielded", "poll",
             "finalRead", "complete", "except", "done", "stuck", "gone"}
Live == {"resumeCheck", "check", "claim", "engine", "yielded", "poll", "finalRead",
         "complete", "except"}

\* A stream past its RUNNING write that has not returned.
Executing == {"engine", "yielded", "poll", "finalRead", "complete", "except"}

ControllerPC == {"idle", "pausing", "cancelling"}

ServiceInit ==
  /\ EngineInit
  /\ status = "PENDING" /\ startedAt = FALSE /\ completedAt = FALSE
  /\ dbMc = 0 /\ dbEc = 0
  /\ spc = [s \in Streams |-> "idle"]
  /\ cpc = [c \in Controllers |-> "idle"]
  /\ requests = 0 /\ dbFaults = 0
  /\ afterPause = [s \in Streams |-> 0]

-----------------------------------------------------------------------------
(* The repository *)

\* update_status and commit: whatever the row holds, the status is overwritten.
\* RUNNING sets started_at, a terminal status sets completed_at, and nothing
\* clears either.
WriteStatus(new) ==
  /\ status' = new
  /\ startedAt' = (startedAt \/ new = "RUNNING")
  /\ completedAt' = (completedAt \/ new \in Terminal)
  /\ afterPause' = IF new = "PAUSED" /\ status = "PAUSED"
                   THEN afterPause ELSE [s \in Streams |-> 0]
  /\ UNCHANGED <<dbMc, dbEc>>

\* Mutant: the counts are added to those of the row.
WriteProgressAdded(s) ==
  /\ dbMc' = dbMc + mc[s]
  /\ dbEc' = dbEc + ec[s]
  /\ UNCHANGED <<status, startedAt, completedAt, afterPause>>

\* Mutant: failed messages are taken off the count, as get_job_stats does.
WriteProgressNet(s) ==
  /\ dbMc' = mc[s] - ec[s]
  /\ dbEc' = ec[s]
  /\ UNCHANGED <<status, startedAt, completedAt, afterPause>>

\* Mutant: only the last progress is saved.
WriteProgressAtEnd(s) ==
  /\ IF epc[s] = "yield" THEN UNCHANGED <<dbMc, dbEc>> ELSE dbMc' = mc[s] /\ dbEc' = ec[s]
  /\ UNCHANGED <<status, startedAt, completedAt, afterPause>>

\* update_progress and commit: the counts of the progress value replace those of
\* the row.  A FAILED progress counts one error more than the engine's own.
WriteProgress(s) ==
  /\ dbMc' = mc[s]
  /\ dbEc' = ec[s] + (IF epc[s] = "failed" THEN 1 ELSE 0)
  /\ UNCHANGED <<status, startedAt, completedAt, afterPause>>

\* A database call that raises.
DbFault ==
  /\ dbFaults < MaxDbFaults
  /\ dbFaults' = dbFaults + 1

-----------------------------------------------------------------------------
(* start_job and resume_job *)

To(s, from, to) ==
  /\ spc[s] = from
  /\ spc' = [spc EXCEPT ![s] = to]

\* A client opens a progress connection (start_job) or a resume.
Connect(s) ==
  /\ Cardinality({t \in Streams : spc[t] \in Live}) < MaxLive
  /\ \/ s \in Starters /\ To(s, "idle", "check")
     \/ s \in Resumers /\ To(s, "idle", "resumeCheck")
  /\ UNCHANGED <<engineVars, row, cpc, requests, dbFaults, afterPause>>

\* resume_job goes on only from PAUSED, and goes on by calling start_job.
ResumeCheck(s) ==
  /\ IF status = "PAUSED" THEN To(s, "resumeCheck", "check")
                          ELSE To(s, "resumeCheck", "done")
  /\ UNCHANGED <<engineVars, row, cpc, requests, dbFaults, afterPause>>

\* start_job refuses a RUNNING row and no other.
Check(s) ==
  /\ IF status = "RUNNING" THEN To(s, "check", "done") ELSE To(s, "check", "claim")
  /\ UNCHANGED <<engineVars, row, cpc, requests, dbFaults, afterPause>>

\* The row becomes RUNNING and the engine is asked for its first progress.
Claim(s) ==
  /\ To(s, "claim", "engine")
  /\ WriteStatus("RUNNING")
  /\ Begin(s)
  /\ UNCHANGED <<cpc, requests, dbFaults>>

\* The engine works while the stream awaits it.
EngineWorks(s) ==
  /\ spc[s] = "engine"
  /\ EngineStep(s)
  /\ afterPause' = IF status = "PAUSED" /\ epc'[s] = "yield"
                   THEN [afterPause EXCEPT ![s] = @ + 1] ELSE afterPause
  /\ UNCHANGED <<row, spc, cpc, requests, dbFaults>>

\* The engine has yielded: its counts are saved and the progress is passed on.
RecordProgress(s) ==
  /\ epc[s] \in Suspended
  /\ To(s, "engine", "yielded")
  /\ WriteProgress(s)
  /\ UNCHANGED <<engineVars, cpc, requests, dbFaults>>

\* The client takes the progress value and asks for the next one.
ClientTakes(s) ==
  /\ To(s, "yielded", "poll")
  /\ UNCHANGED <<engineVars, row, cpc, requests, dbFaults, afterPause>>

\* The row is read: PAUSED leaves the loop and drops the engine; any other
\* status, CANCELLED included, asks the engine for the next progress, which
\* ends the loop when the last one has been yielded.
PollPaused(s) ==
  /\ status = "PAUSED"
  /\ To(s, "poll", "finalRead")
  /\ Close(s)
  /\ UNCHANGED <<row, cpc, requests, dbFaults, afterPause>>

\* Mutant: the loop goes on whatever the row says.
PollContinuesBlindly(s) ==
  /\ \/ To(s, "poll", "engine")    /\ Continue(s)
     \/ To(s, "poll", "finalRead") /\ Exhaust(s)
  /\ UNCHANGED <<row, cpc, requests, dbFaults, afterPause>>

PollContinues(s) ==
  /\ status # "PAUSED"
  /\ \/ To(s, "poll", "engine")    /\ Continue(s)
     \/ To(s, "poll", "finalRead") /\ Exhaust(s)
  /\ UNCHANGED <<row, cpc, requests, dbFaults, afterPause>>

\* Mutant: the stream returns without completing the row.
FinalReadReturns(s) ==
  /\ To(s, "finalRead", "done")
  /\ UNCHANGED <<engineVars, row, cpc, requests, dbFaults, afterPause>>

\* Mutant: a row that was paused is completed too.
FinalReadCompletesPaused(s) ==
  /\ IF status \in {"RUNNING", "PAUSED"} THEN To(s, "finalRead", "complete")
                                         ELSE To(s, "finalRead", "done")
  /\ UNCHANGED <<engineVars, row, cpc, requests, dbFaults, afterPause>>

\* Mutant: the stream waits for the row to be RUNNING.
FinalReadWaits(s) ==
  /\ status = "RUNNING"
  /\ To(s, "finalRead", "complete")
  /\ UNCHANGED <<engineVars, row, cpc, requests, dbFaults, afterPause>>

\* The last read; only a RUNNING row is completed.
FinalRead(s) ==
  /\ IF status = "RUNNING" THEN To(s, "finalRead", "complete")
                           ELSE To(s, "finalRead", "done")
  /\ UNCHANGED <<engineVars, row, cpc, requests, dbFaults, afterPause>>

Complete(s) ==
  /\ To(s, "complete", "done")
  /\ WriteStatus("COMPLETED")
  /\ UNCHANGED <<engineVars, cpc, requests, dbFaults>>

\* Before the try block a database error leaves the generator.
CheckRaises(s) ==
  /\ DbFault
  /\ To(s, "resumeCheck", "done") \/ To(s, "check", "done")
  /\ UNCHANGED <<engineVars, row, cpc, requests, afterPause>>

\* Inside it the handler takes over; a suspended engine is dropped.
ServiceRaises(s) ==
  /\ DbFault
  /\ \/ To(s, "claim", "except")     /\ UNCHANGED engineVars
     \/ To(s, "engine", "except")    /\ epc[s] \in Suspended /\ Close(s)
     \/ To(s, "poll", "except")      /\ Close(s)
     \/ To(s, "finalRead", "except") /\ UNCHANGED engineVars
     \/ To(s, "complete", "except")  /\ UNCHANGED engineVars
  /\ UNCHANGED <<row, cpc, requests, afterPause>>

\* The handler writes FAILED over whatever status the row has.
MarkFailed(s) ==
  /\ To(s, "except", "done")
  /\ WriteStatus("FAILED")
  /\ UNCHANGED <<engineVars, cpc, requests, dbFaults>>

\* The FAILED write raises: it is logged and the row is left as it is.
MarkFailedRaises(s) ==
  /\ DbFault
  /\ To(s, "except", "stuck")
  /\ UNCHANGED <<engineVars, row, cpc, requests, afterPause>>

\* The client disconnects, its task is cancelled, or the process dies: neither
\* GeneratorExit nor CancelledError is an Exception, so no handler runs and the
\* row is left as it is.  A crash is this for every live stream.
Abandon(s) ==
  /\ spc[s] \in Live
  /\ spc' = [spc EXCEPT ![s] = "gone"]
  /\ IF epc[s] \in {"idle", "finished", "aborted", "closed"} THEN UNCHANGED engineVars ELSE Close(s)
  /\ UNCHANGED <<row, cpc, requests, dbFaults, afterPause>>

-----------------------------------------------------------------------------
(* pause_job and cancel_job *)

Request(c, to) ==
  /\ requests < MaxRequests
  /\ requests' = requests + 1
  /\ cpc[c] = "idle"
  /\ cpc' = [cpc EXCEPT ![c] = to]

\* Mutant: only a terminal job cannot be paused.
PauseReadUnstarted(c) ==
  /\ Request(c, IF status \notin Terminal THEN "pausing" ELSE "idle")
  /\ UNCHANGED <<engineVars, row, spc, dbFaults, afterPause>>

PauseRead(c) ==
  /\ Request(c, IF status = "RUNNING" THEN "pausing" ELSE "idle")
  /\ UNCHANGED <<engineVars, row, spc, dbFaults, afterPause>>

CancelRead(c) ==
  /\ Request(c, IF status \notin Terminal THEN "cancelling" ELSE "idle")
  /\ UNCHANGED <<engineVars, row, spc, dbFaults, afterPause>>

PauseWrite(c) ==
  /\ cpc[c] = "pausing"
  /\ cpc' = [cpc EXCEPT ![c] = "idle"]
  /\ WriteStatus("PAUSED")
  /\ UNCHANGED <<engineVars, spc, requests, dbFaults>>

CancelWrite(c) ==
  /\ cpc[c] = "cancelling"
  /\ cpc' = [cpc EXCEPT ![c] = "idle"]
  /\ WriteStatus("CANCELLED")
  /\ UNCHANGED <<engineVars, spc, requests, dbFaults>>

\* The write raises, or the process dies first: nothing is written.
ControlLost(c) ==
  /\ DbFault
  /\ cpc[c] # "idle"
  /\ cpc' = [cpc EXCEPT ![c] = "idle"]
  /\ UNCHANGED <<engineVars, row, spc, requests, afterPause>>

SourceGrows == AppendSource /\ UNCHANGED serviceVars

-----------------------------------------------------------------------------
StreamStep(s) ==
  \/ ResumeCheck(s) \/ Check(s) \/ Claim(s) \/ RecordProgress(s) \/ ClientTakes(s)
  \/ PollPaused(s) \/ PollContinues(s) \/ FinalRead(s) \/ Complete(s) \/ MarkFailed(s)

StreamFault(s) ==
  \/ CheckRaises(s) \/ ServiceRaises(s) \/ MarkFailedRaises(s) \/ Abandon(s)

ControllerStep(c) ==
  \/ PauseRead(c) \/ CancelRead(c) \/ PauseWrite(c) \/ CancelWrite(c) \/ ControlLost(c)

Next ==
  \/ \E s \in Streams : Connect(s) \/ EngineWorks(s) \/ StreamStep(s) \/ StreamFault(s)
  \/ \E c \in Controllers : ControllerStep(c)
  \/ SourceGrows

Safe == ServiceInit /\ [][Next]_vars

\* The event loop runs every task that is ready: a stream's own steps, and the
\* engine it awaits except for failures.  A client takes what it is sent (or
\* disconnects); a request that has read the row goes on to write it.
Fairness ==
  /\ \A s \in Streams :
       /\ WF_vars(StreamStep(s))
       /\ WF_vars(EngineWorks(s) /\ EngineProgress(s))
  /\ \A c \in Controllers : WF_vars(PauseWrite(c) \/ CancelWrite(c))

Spec == Safe /\ Fairness

-----------------------------------------------------------------------------
(* Properties *)

\* Every variable holds a value the code can produce.
ServiceTypeOK ==
  /\ EngineTypeOK
  /\ status \in Status
  /\ startedAt \in BOOLEAN /\ completedAt \in BOOLEAN
  /\ dbMc \in Nat /\ dbEc \in Nat
  /\ spc \in [Streams -> StreamPC]
  /\ cpc \in [Controllers -> ControllerPC]
  /\ requests \in Nat /\ dbFaults \in Nat
  /\ afterPause \in [Streams -> Nat]

\* A row never stays RUNNING with nothing behind it by the service's own doing:
\* behind it is a stream that still executes, or one whose client or process
\* went away, or one whose FAILED write failed.  Every way out of start_job
\* either changes the status or leaves because it is not RUNNING.
RunningHasStream ==
  status = "RUNNING" =>
    \E s \in Streams :
      epc[s] # "idle" /\ spc[s] \in Executing \union {"gone", "stuck"}

\* A job whose row never became RUNNING has delivered nothing and reports
\* nothing, and it can only have failed or been cancelled: a pause or a
\* completion decided on a stale read never lands on an unstarted job.
UnstartedIsUntouched ==
  ~startedAt =>
    /\ status \in {"PENDING", "FAILED", "CANCELLED"}
    /\ dbMc = 0
    /\ \A s \in Streams : delivered[s] = << >>

\* The message_count of the row never overstates: whoever wrote it, and however
\* many streams overwrite each other's counts, one stream has processed that
\* many messages, and delivered as many different ones unless the job is a dry run.
ReportedWasReplayed ==
  dbMc > 0 => \E s \in Streams :
    /\ dbMc <= mc[s]
    /\ ~job.dryRun => dbMc <= Cardinality(Delivered(s))

\* While the row stays PAUSED a stream finishes at most the message it has in
\* hand: pause_job only sets the status, and the worker looks at it once after
\* every progress update.  (Messages that fail are not bounded: the engine goes
\* on to the next one without a progress update.)
PauseStopsWithinOneMessage == \A s \in Streams : afterPause[s] <= 1

\* With one progress connection at a time, a crash makes the row forget at most
\* one message that succeeded: a success is saved before the next message is
\* fetched.  Messages that failed since are forgotten too, any number of them,
\* because a failure goes on without a save; the next success, or the end, saves
\* them, and the row that is passed on to the client counts every message so far.
AtMostOneSuccessUnreported ==
  \A s \in Streams :
    spc[s] \in Executing =>
      /\ mc[s] <= dbMc + 1
      /\ spc[s] = "engine" /\ epc[s] # "yield" => mc[s] <= dbMc
      /\ spc[s] \in {"yielded", "poll"} =>
           /\ mc[s] = dbMc
           /\ ec[s] + (IF epc[s] = "failed" THEN 1 ELSE 0) = dbEc

\* With one progress connection at a time, a row becomes COMPLETED only for a
\* stream whose engine has no more messages to give, although pauses and
\* cancels land between every two steps.
CompletedMeansExhausted ==
  status = "COMPLETED" => \E s \in Streams : epc[s] \in {"finished", "aborted"}

\* The source log goes on past the job's range.
RangePassed == \E r \in records : r >= job.start /\ r >= job.end

\* A stream that was started returns, or is dropped, once the source log goes on
\* past the job's range, whatever is paused, cancelled or started beside it.
StreamsEnd == \A s \in Streams : spc[s] \in Live /\ RangePassed ~> spc[s] \notin Live

\* A job with such a range does not stay RUNNING for ever unless a client, the
\* process or the database let it down.
RunningEnds ==
  status = "RUNNING" /\ RangePassed ~>
    (status # "RUNNING" \/ \E s \in Streams : spc[s] \in {"gone", "stuck"})

\* replay.md, Error Handling: on a critical error such as a broker
\* that is unavailable the job is marked as FAILED.  The engine reports such an
\* error as its last progress, and the stream that took it has returned.
CriticalErrorMarksFailed ==
  \A s \in Streams : spc[s] = "done" /\ epc[s] = "aborted" => status = "FAILED"

=============================================================================
