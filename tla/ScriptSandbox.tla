---------------------------- MODULE ScriptSandbox ----------------------------
(***************************************************************************)
(* ScriptSandboxService: the scripts in the database, their execution by a *)
(* pool of worker processes (runner.ScriptExecutor) and the history of the *)
(* executions.                                                             *)
(*                                                                         *)
(* Callers are tasks of one event loop; a database session is one step of  *)
(* theirs.  The workers run beside the loop.  RestrictedPython and the     *)
(* process pool of concurrent.futures are the environment: a script is     *)
(* what they make of it.                                                   *)
(***************************************************************************)
EXTENDS Integers, Sequences, SequencesExt

CONSTANTS
  Scripts,    \* ids of scripts
  Callers,
  Workers,    \* the processes of the pool, max_workers of them
  NoScript,
  Nobody,
  MaxQueue    \* BOUND: scripts that wait in the pool, abandoned ones included

ASSUME SandboxAssumption ==
  /\ Workers # {} /\ NoScript \notin Scripts /\ Nobody \notin Callers
  /\ MaxQueue \in Nat \ {0}

\* What becomes of a code: "invalid" is no Python, "rejected" does not pass
\* ScriptCompiler.compile; "bad" raises, returns no dict or too large a one; "endless"
\* does not return.
Codes == {"invalid", "rejected", "good", "bad", "endless"}

VARIABLES
  row,      \* the row of each script
  records,  \* the rows of script_executions; `ran` is history: the version executed
  pool,     \* state of the ProcessPoolExecutor
  queue,    \* what was submitted to it
  worker,   \* what each worker executes
  pc,       \* where each execution stands
  call,     \* what is executed, and by which operation
  outcome   \* how it has ended

poolVars == <<pool, queue, worker>>
callVars == <<pc, call, outcome>>
vars == <<row, records, poolVars, callVars>>

Status == {"none", "draft", "published", "archived"}
NoRow == [status |-> "none", version |-> 0, code |-> "invalid"]

\* "test" is the endpoint, "published" is execute_published_script and "timed" is
\* execute_with_timeout, which is given a code and no script.
Modes == {"test", "published", "timed"}
NoCall == [mode |-> "timed", script |-> NoScript, version |-> 0, code |-> "good"]

Item(o, code) == [owner |-> o, code |-> code]
Idle == Item(Nobody, "invalid")

\* "broken" after a worker died; "closing" while shutdown() blocks the event loop.
PoolStates == {"up", "broken", "closing", "closed"}
CallerPC == {"idle", "ready", "waiting", "recording"}

Init ==
  /\ row = [s \in Scripts |-> NoRow]
  /\ records = {}
  /\ pool = "up" /\ queue = << >>
  /\ worker = [w \in Workers |-> Idle]
  /\ pc = [c \in Callers |-> "idle"]
  /\ call = [c \in Callers |-> NoCall]
  /\ outcome = [c \in Callers |-> "none"]

-----------------------------------------------------------------------------
(* ScriptSandboxService: scripts *)

LoopRuns == pool # "closing"

\* An operation on the scripts: one session, which may also fail and then changes nothing.
Session == LoopRuns /\ UNCHANGED <<records, poolVars, callVars>>

\* Invalid code is refused; by another exception than the one meant for the caller,
\* as the error handler's `repo` is unbound.
Create(s, code) ==
  /\ Session
  /\ code # "invalid" /\ row[s] = NoRow
  /\ row' = [row EXCEPT ![s] = [status |-> "draft", version |-> 1, code |-> code]]

\* Mutant: the row is replaced by its new version.
UpdateInPlace(s, code) ==
  /\ Session
  /\ code # "invalid" /\ row[s] # NoRow /\ row[s].version = 1
  /\ row' = [row EXCEPT ![s] = [status |-> "draft", version |-> 2, code |-> code]]

\* The new version is added as a second row with the primary key of the first: the
\* flush raises, the session is rolled back and nothing has changed.
Update(s, code) ==
  /\ Session
  /\ code # "invalid" /\ row[s] # NoRow
  /\ UNCHANGED row

\* A version is published whatever its status, archived included.
Publish(s, version) ==
  /\ Session
  /\ row[s] # NoRow /\ row[s].version = version
  /\ row' = [row EXCEPT ![s].status = "published"]

Archive(s) ==
  /\ Session
  /\ row[s] # NoRow
  /\ row' = [row EXCEPT ![s].status = "archived"]

-----------------------------------------------------------------------------
(* ScriptSandboxService: executions *)

Becomes(c, state, what, how) ==
  /\ pc' = [pc EXCEPT ![c] = state]
  /\ call' = [call EXCEPT ![c] = what]
  /\ outcome' = [outcome EXCEPT ![c] = how]

Ends(c) == Becomes(c, "idle", NoCall, "none")

\* Mutant: the status is not looked at.
AnyMayRun(s, mode) == row[s] # NoRow

\* Which scripts are executed: the endpoint tests drafts and archived ones as well.
MayRun(s, mode) ==
  row[s] # NoRow /\ (mode = "published" => row[s].status = "published")

\* The script is read and its status checked; the session is closed before it is
\* executed, and anything may happen to the row meanwhile.
Fetch(c, s, mode) ==
  /\ LoopRuns /\ pc[c] = "idle"
  /\ MayRun(s, mode)
  /\ Becomes(c, "ready", [mode |-> mode, script |-> s,
                          version |-> row[s].version, code |-> row[s].code], "none")
  /\ UNCHANGED <<row, records, poolVars>>

\* A code is executed without a script: nothing of it will be recorded.  What is no
\* Python is rejected like the rest.
Start(c, code) ==
  /\ LoopRuns /\ pc[c] = "idle" /\ code # "invalid"
  /\ Becomes(c, "ready", [NoCall EXCEPT !.code = code], "none")
  /\ UNCHANGED <<row, records, poolVars>>

\* The answer is there: it is recorded if it is a script's.
Concludes(c, how) ==
  IF call[c].script = NoScript THEN Ends(c) ELSE Becomes(c, "recording", call[c], how)

\* Mutant: only the syntax is looked at, as when a script is created.
CompilesSyntax(code) == code # "invalid"

Compiles(code) == code \notin {"invalid", "rejected"}

\* What does not compile fails, as does submitting to a pool that is broken or shut down.
FailsAtOnce(c) ==
  /\ LoopRuns /\ pc[c] = "ready"
  /\ ~Compiles(call[c].code) \/ pool # "up"
  /\ Concludes(c, "failed")
  /\ UNCHANGED <<row, records, poolVars>>

Submit(c) ==
  /\ LoopRuns /\ pc[c] = "ready" /\ Len(queue) < MaxQueue
  /\ Compiles(call[c].code) /\ pool = "up"
  /\ queue' = Append(queue, Item(c, call[c].code))
  /\ Becomes(c, "waiting", call[c], "none")
  /\ UNCHANGED <<row, records, pool, worker>>

\* The future is done.  What failed in the worker fails once more here, where an
\* output of None is no output.
Receive(c) ==
  /\ LoopRuns /\ pc[c] = "waiting" /\ outcome[c] # "none"
  /\ Concludes(c, outcome[c])
  /\ UNCHANGED <<row, records, poolVars>>

\* Mutant: nothing is cancelled, and the script keeps the address of its caller.
DisownNothing(c) == UNCHANGED <<worker, queue>>

\* Nobody waits for the script any longer: a worker that has it goes on with it, and
\* so does one for which it is already in the pool's call queue; else it is cancelled.
Disown(c) ==
  LET left(item) == IF item.owner = c THEN [item EXCEPT !.owner = Nobody] ELSE item IN
  /\ worker' = [w \in Workers |-> left(worker[w])]
  /\ \/ queue' = [i \in DOMAIN queue |-> left(queue[i])]
     \/ \E i \in DOMAIN queue : queue[i].owner = c /\ queue' = RemoveAt(queue, i)

\* Mutant: the time limit counts from the moment a worker has taken the script.
TimesOutRunning(c) ==
  /\ LoopRuns /\ pc[c] = "waiting" /\ call[c].mode = "timed"
  /\ \E w \in Workers : worker[w].owner = c
  /\ Concludes(c, "failed")
  /\ Disown(c)
  /\ UNCHANGED <<row, records, pool>>

\* wait_for in execute_with_timeout gives up.
TimesOut(c) ==
  /\ LoopRuns /\ pc[c] = "waiting" /\ call[c].mode = "timed"
  /\ Concludes(c, "failed")
  /\ Disown(c)
  /\ UNCHANGED <<row, records, pool>>

\* The execution is recorded as one of version 1, or that fails and only the log knows.
Record(c) ==
  /\ LoopRuns /\ pc[c] = "recording"
  /\ records' \in {records, records \union
       {[script |-> call[c].script, version |-> 1,
         success |-> outcome[c] = "success", ran |-> call[c].version]}}
  /\ Ends(c)
  /\ UNCHANGED <<row, poolVars>>

-----------------------------------------------------------------------------
(* The process pool *)

Settles(o, how) == outcome' = IF o = Nobody THEN outcome ELSE [outcome EXCEPT ![o] = how]

Take(w) ==
  /\ pool \in {"up", "closing"} /\ queue # << >> /\ worker[w] = Idle
  /\ worker' = [worker EXCEPT ![w] = Head(queue)]
  /\ queue' = Tail(queue)
  /\ UNCHANGED <<row, records, pool, callVars>>

\* The code cannot be sent to a process: its future fails.
CannotSend ==
  /\ pool \in {"up", "closing"} /\ queue # << >>
  /\ Settles(Head(queue).owner, "failed")
  /\ queue' = Tail(queue)
  /\ UNCHANGED <<row, records, pool, worker, pc, call>>

\* Mutant: what the script raised is not turned into a result.
FinishGood(w) ==
  /\ worker[w].code = "good"
  /\ Settles(worker[w].owner, "success")
  /\ worker' = [worker EXCEPT ![w] = Idle]
  /\ UNCHANGED <<row, records, pool, queue, pc, call>>

\* _execute_script_in_process returns: whatever the script raised is in the result.
Finish(w) ==
  /\ worker[w].code \in {"good", "bad"}
  /\ Settles(worker[w].owner, IF worker[w].code = "good" THEN "success" ELSE "failed")
  /\ worker' = [worker EXCEPT ![w] = Idle]
  /\ UNCHANGED <<row, records, pool, queue, pc, call>>

\* A process dies: the pool ends the others, fails every future, and stays broken.
WorkerDies ==
  /\ \E w \in Workers : worker[w] # Idle
  /\ pool' = IF pool = "up" THEN "broken" ELSE pool
  /\ queue' = << >>
  /\ worker' = [w \in Workers |-> Idle]
  /\ outcome' = [c \in Callers |-> IF pc[c] = "waiting" /\ outcome[c] = "none"
                                   THEN "failed" ELSE outcome[c]]
  /\ UNCHANGED <<row, records, pc, call>>

\* shutdown(wait=True) takes nothing more, and is called from the event loop: that
\* stands until the last script has returned.
Shutdown ==
  /\ pool \in {"up", "broken"}
  /\ pool' = "closing"
  /\ UNCHANGED <<row, records, queue, worker, callVars>>

ShutDown ==
  /\ pool = "closing" /\ queue = << >> /\ \A w \in Workers : worker[w] = Idle
  /\ pool' = "closed"
  /\ UNCHANGED <<row, records, queue, worker, callVars>>

-----------------------------------------------------------------------------
Manage(s) ==
  \/ \E code \in Codes : Create(s, code) \/ Update(s, code)
  \/ \E version \in 1..2 : Publish(s, version)
  \/ Archive(s)

Execute(c) ==
  \/ \E s \in Scripts, mode \in {"test", "published"} : Fetch(c, s, mode)
  \/ \E code \in Codes : Start(c, code)

Proceed(c) == FailsAtOnce(c) \/ Submit(c) \/ Receive(c) \/ TimesOut(c) \/ Record(c)

PoolStep == ShutDown \/ \E w \in Workers : Take(w)

Next ==
  \/ \E s \in Scripts : Manage(s)
  \/ \E c \in Callers : Execute(c) \/ Proceed(c)
  \/ PoolStep \/ CannotSend \/ WorkerDies \/ Shutdown
  \/ \E w \in Workers : Finish(w)

\* The event loop runs what is ready and timers fire; an idle worker takes the next
\* script and a script that ends ends.  Nobody has to call anything.  Submitting never
\* waits in the code, whose queue has no bound: strong fairness makes up for MaxQueue.
Fairness ==
  /\ \A c \in Callers : WF_vars(Proceed(c)) /\ SF_vars(Submit(c))
  /\ WF_vars(PoolStep)
  /\ \A w \in Workers : WF_vars(Finish(w))

Spec == Init /\ [][Next]_vars /\ Fairness

-----------------------------------------------------------------------------
(* Properties *)

\* Every variable holds a value the code can produce.
TypeOK ==
  /\ row \in [Scripts -> [status : Status, version : Nat, code : Codes]]
  /\ records \subseteq [script : Scripts, version : Nat, success : BOOLEAN, ran : Nat]
  /\ pool \in PoolStates
  /\ queue \in Seq([owner : Callers \union {Nobody}, code : {"good", "bad", "endless"}])
  /\ worker \in [Workers -> [owner : Callers \union {Nobody}, code : Codes]]
  /\ pc \in [Callers -> CallerPC]
  /\ call \in [Callers -> [mode : Modes, script : Scripts \union {NoScript},
                           version : Nat, code : Codes]]
  /\ outcome \in [Callers -> {"none", "success", "failed"}]

\* The history names the version that was executed and claims success only of code
\* that succeeds, whatever happens to the script, its callers and the workers between
\* the reading of a script and the record of its execution.
HistoryIsTruthful ==
  \A r \in records : r.version = r.ran /\ (r.success => row[r.script].code = "good")

\* For each of its callers the sandbox implements a call that is run at most once and
\* answered truthfully: see ScriptCall.  Neither the scripts of other callers, nor one
\* that an abandoned call has left behind, nor a pool that fails all its futures can
\* answer a call, run its code again or run what does not compile.
Running(c) == \E w \in Workers : worker[w].owner = c
Execution(c) == INSTANCE ScriptCall WITH
  Runnable   <- {"good", "bad", "endless"},
  Succeeding <- {"good"},
  phase   <- CASE pc[c] = "idle"                          -> "idle"
               [] pc[c] # "idle" /\ outcome[c] # "none"   -> outcome[c]
               [] pc[c] # "idle" /\ outcome[c] = "none"   -> IF Running(c) THEN "running"
                                                                           ELSE "asked",
  code    <- IF pc[c] = "idle" THEN "none" ELSE call[c].code,
  limited <- pc[c] # "idle" /\ call[c].mode = "timed"
CallsAreRunOnce ==
  /\ \A c \in Callers : Execution(c)!Init
  /\ [][\A c \in Callers : [Execution(c)!Next]_(Execution(c)!vars)]_vars

\* A script that stays archived comes to rest: execute_published_script starts it no
\* more and each call that had read it before ends, its answer recorded or lost.  Two
\* kinds of call never end and need not: one whose own script is endless, for which
\* it is still claimed that it is not started again, and one that has not been
\* started because endless scripts hold every worker.  A shutdown stops the loop.
Executes(c, s) == pc[c] # "idle" /\ call[c].mode = "published" /\ call[c].script = s
AllHeld == \A w \in Workers : worker[w].code = "endless"
ArchivedComesToRest ==
  \A s \in Scripts :
    <>[](row[s].status = "archived") =>
      <>[](\A c \in Callers : Executes(c, s) =>
             \/ call[c].code = "endless" /\ pc[c] = "waiting"
             \/ AllHeld /\ ~Running(c)
             \/ pool = "closing")

\* A script that returns gets its answer whatever the others do, failing, dying
\* workers and abandoned scripts included, unless endless ones hold every worker or
\* a shutdown stops the event loop.
OthersGetThrough ==
  \A c \in Callers :
    (pc[c] = "waiting" /\ call[c].code # "endless")
      ~> (\/ pc[c] # "waiting" \/ pool = "closing"
          \/ AllHeld)

\* A call with a timeout ends, even when endless scripts hold every worker and its
\* own will never be started.
TimedCallsEnd ==
  \A c \in Callers :
    (pc[c] = "waiting" /\ call[c].mode = "timed") ~> (pc[c] # "waiting" \/ pool = "closing")

\* "A 2-second CPU timeout is enforced per execution": every execution ends.
ExecutionsEnd == \A c \in Callers : pc[c] = "waiting" ~> (pc[c] # "waiting" \/ pool = "closing")

=============================================================================
