----------------------------- MODULE AdapterPool -----------------------------
(***************************************************************************)
(* KafkaConnectionPool under an AdapterLifecycleManager: the start and the *)
(* shutdown of the application, the background health check loop, and the  *)
(* requests that get an adapter from the pool.                             *)
(*                                                                         *)
(* All of them are tasks of one event loop that interleave at awaits; only *)
(* get_adapter takes the pool's lock.  A step below is the code from one   *)
(* await to the next.  The broker and the clients of aiokafka are the      *)
(* environment: a client is taken to be open from the call of its start    *)
(* on, and only a stop that returns is sure to have closed it.             *)
(***************************************************************************)
EXTENDS Integers, FiniteSets

CONSTANTS
  PoolSize,     \* pool_size
  Callers,      \* requests, each one after the other
  NoCaller,
  MaxFaults     \* BOUND: breaks, outages, failed starts and failed stops

ASSUME PoolAssumption ==
  /\ PoolSize \in Nat \ {0}
  /\ MaxFaults \in Nat
  /\ NoCaller \notin Callers

Adapters == 1..PoolSize

VARIABLES
  main,        \* where startup() and shutdown() stand
  at,          \* the adapter they are at
  size,        \* len(adapters): the pool holds adapters 1..size
  initialized, \* _initialized
  connected,   \* _connected of each adapter
  admin,       \* its admin_client: see ClientState
  producer,    \* its producer
  lost,        \* clients that were replaced or dropped open
  link,        \* does the admin client's connection work
  brokerUp,
  loop,        \* where _health_check_loop stands
  loopAt,      \* the adapter it is at
  index,       \* _current_index, modulo the length of the list
  lock,        \* who holds _lock
  pc,          \* where each caller stands
  checked,     \* the adapter a caller is checking
  tries,       \* attempts of its call
  seen,        \* history: adapters its call has found unhealthy
  raised,      \* history: stops that raised
  faults

lifecycleVars == <<main, at, size, initialized>>
adapterVars == <<connected, admin, producer, lost, raised>>
brokerVars == <<link, brokerUp>>
loopVars == <<loop, loopAt>>
callVars == <<index, lock, pc, checked, tries, seen>>
vars == <<main, at, size, initialized, connected, admin, producer, lost, link, brokerUp,
          loop, loopAt, index, lock, pc, checked, tries, seen, raised, faults>>

\* "open": started, and no stop called since; "left": a stop has raised or was cut
\* short, so it may be open still, and stopping it again may do nothing.
ClientState == {"closed", "open", "left"}

\* "admin", "producer": initialize() starts these clients; "cleanup",
\* "cleanupAdmin": it stops those of the adapters it had; "failed": startup() has
\* raised; "cancel": shutdown() awaits the cancelled loop; "close", "closeAdmin": it
\* stops the producer and the admin client of each adapter.
MainPC == {"new", "admin", "producer", "cleanup", "cleanupAdmin", "failed", "up",
           "cancel", "close", "closeAdmin", "stopped"}

\* "check": the pool's health check; the rest is reconnect_failed_adapters: the
\* health check, the two stops of disconnect(), the two starts of connect().
LoopPC == {"none", "sleep", "check", "recheck", "stopProducer", "stopAdmin",
           "admin", "producer", "ended"}

\* "got": an adapter was returned, and is used without the pool's knowledge.
Outcomes == {"got", "notInitialized", "noneHealthy", "zeroDivision"}
CallerPC == {"idle", "waiting", "checking"} \union Outcomes

Init ==
  /\ main = "new" /\ at = 1 /\ size = 0 /\ initialized = FALSE
  /\ connected = [i \in Adapters |-> FALSE]
  /\ admin = [i \in Adapters |-> "closed"]
  /\ producer = [i \in Adapters |-> "closed"]
  /\ lost = 0
  /\ link = [i \in Adapters |-> FALSE]
  /\ brokerUp = TRUE
  /\ loop = "none" /\ loopAt = 1
  /\ index = 0 /\ lock = NoCaller
  /\ pc = [c \in Callers |-> "idle"]
  /\ checked = [c \in Callers |-> 1]
  /\ tries = [c \in Callers |-> 0]
  /\ seen = [c \in Callers |-> {}]
  /\ raised = 0
  /\ faults = 0

-----------------------------------------------------------------------------
(* KafkaAdapter *)

\* health_check(): what it answers at this moment.
Healthy(i) == connected[i] /\ admin[i] # "closed" /\ link[i] /\ brokerUp

Fault == faults < MaxFaults /\ faults' = faults + 1

\* A client takes the place of the one before; one that is still open is lost.
Replaced(client, i) == IF client[i] = "open" THEN lost + 1 ELSE lost

Admin(i, state) == admin' = [admin EXCEPT ![i] = state]
Producer(i, state) == producer' = [producer EXCEPT ![i] = state]

\* connect(), up to the end of admin_client.start() and from there to the end of
\* producer.start(), whether the start returns or not.
ReplaceAdmin(i, works) ==
  /\ Admin(i, "open")
  /\ lost' = Replaced(admin, i)
  /\ link' = [link EXCEPT ![i] = works]
  /\ UNCHANGED <<connected, producer, raised, brokerUp>>

ReplaceProducer(i, works) ==
  /\ Producer(i, "open")
  /\ lost' = Replaced(producer, i)
  /\ connected' = [connected EXCEPT ![i] = @ \/ works]
  /\ UNCHANGED <<admin, raised, brokerVars>>

StartAdmin(i) ==
  /\ brokerUp
  /\ ReplaceAdmin(i, TRUE)
  /\ UNCHANGED faults

StartProducer(i) ==
  /\ brokerUp
  /\ ReplaceProducer(i, TRUE)
  /\ UNCHANGED faults

\* A start raises: without a broker, or for a reason of its own.
StartFails == IF brokerUp THEN Fault ELSE UNCHANGED faults

\* What becomes of a client whose stop returns.
Stopped(state) == IF state = "left" THEN "left" ELSE "closed"

\* disconnect(), up to the end of producer.stop(), and from there to its own end.
StopProducer(i) ==
  /\ Producer(i, Stopped(producer[i]))
  /\ UNCHANGED <<connected, admin, lost, raised, brokerVars, faults>>

\* Mutant: an adapter that does not count as connected is not disconnected.
StopAdminIfConnected(i) ==
  /\ Admin(i, IF connected[i] THEN Stopped(admin[i]) ELSE admin[i])
  /\ connected' = [connected EXCEPT ![i] = FALSE]
  /\ UNCHANGED <<producer, lost, raised, brokerVars, faults>>

StopAdmin(i) ==
  /\ Admin(i, Stopped(admin[i]))
  /\ connected' = [connected EXCEPT ![i] = FALSE]
  /\ UNCHANGED <<producer, lost, raised, brokerVars, faults>>

\* What becomes of it when its stop does not come to its end.
Unstopped(state) == IF state = "closed" THEN "closed" ELSE "left"

\* disconnect() ends in the middle: the adapter still counts as connected.
ProducerLeft(i) ==
  /\ Producer(i, Unstopped(producer[i]))
  /\ UNCHANGED <<connected, admin, lost, brokerVars>>

AdminLeft(i) ==
  /\ Admin(i, Unstopped(admin[i]))
  /\ UNCHANGED <<connected, producer, lost, brokerVars>>

\* The stop of a client that is not closed raises: disconnect() logs it and returns,
\* and what comes after is skipped.
StopProducerFails(i) ==
  /\ producer[i] # "closed" /\ Fault /\ raised' = raised + 1
  /\ ProducerLeft(i)

StopAdminFails(i) ==
  /\ admin[i] # "closed" /\ Fault /\ raised' = raised + 1
  /\ AdminLeft(i)

-----------------------------------------------------------------------------
(* startup() and initialize() *)

Startup ==
  /\ main = "new" /\ main' = "admin"
  /\ UNCHANGED <<at, size, initialized, adapterVars, brokerVars, loopVars, callVars, faults>>

InitAdmin ==
  /\ main = "admin" /\ main' = "producer"
  /\ StartAdmin(at)
  /\ UNCHANGED <<at, size, initialized, loopVars, callVars>>

\* A connected adapter is appended; with the last one the pool is initialized
\* and the health check loop is created.
InitProducer ==
  /\ main = "producer"
  /\ StartProducer(at)
  /\ size' = size + 1
  /\ IF at = PoolSize
     THEN main' = "up" /\ initialized' = TRUE /\ loop' = "sleep" /\ at' = 1
     ELSE main' = "admin" /\ at' = at + 1 /\ UNCHANGED <<initialized, loop>>
  /\ UNCHANGED <<loopAt, callVars>>

\* connect() raises: the adapter is dropped, with whatever it has open, and those
\* already in the list are disconnected (but stay in it).
InitFails ==
  /\ main \in {"admin", "producer"}
  /\ StartFails
  /\ main' = (IF size = 0 THEN "failed" ELSE "cleanup") /\ at' = 1
  /\ lost' = lost + (IF main = "admin" THEN 1 ELSE 2)
  /\ admin' = [admin EXCEPT ![at] = "closed"]
  /\ UNCHANGED <<size, initialized, connected, producer, raised, brokerVars, loopVars, callVars>>

\* The next adapter of the list, if there is one.
NextCleanUp ==
  IF at = size THEN main' = "failed" /\ at' = 1
               ELSE main' = "cleanup" /\ at' = at + 1

CleanUp ==
  /\ \/ main = "cleanup" /\ StopProducer(at) /\ main' = "cleanupAdmin" /\ UNCHANGED at
     \/ main = "cleanup" /\ StopProducerFails(at) /\ NextCleanUp
     \/ main = "cleanupAdmin" /\ (StopAdmin(at) \/ StopAdminFails(at)) /\ NextCleanUp
  /\ UNCHANGED <<size, initialized, loopVars, callVars>>

-----------------------------------------------------------------------------
(* shutdown() *)

\* The health check loop is cancelled, if there is one.
Shutdown ==
  /\ main \in {"up", "failed"}
  /\ main' = (IF loop = "none" THEN "close" ELSE "cancel") /\ at' = 1
  /\ UNCHANGED <<size, initialized, adapterVars, brokerVars, loopVars, callVars, faults>>

\* CancelledError reaches the loop at whatever await it is at, a stop or a start of a
\* client included, and is caught by nothing but the loop itself; shutdown() goes on
\* when the loop has ended.
LoopCancelled ==
  /\ main = "cancel" /\ main' = "close"
  /\ loop' = "ended" /\ loopAt' = 1
  /\ CASE loop = "stopProducer" -> ProducerLeft(loopAt) /\ UNCHANGED raised
       [] loop = "stopAdmin"    -> AdminLeft(loopAt) /\ UNCHANGED raised
       [] loop = "admin"        -> ReplaceAdmin(loopAt, FALSE)
       [] loop = "producer"     -> ReplaceProducer(loopAt, FALSE)
       [] OTHER                 -> UNCHANGED <<adapterVars, brokerVars>>
  /\ UNCHANGED <<at, size, initialized, callVars, faults>>

CloseAdapter ==
  /\ \/ main = "close" /\ at <= size /\ StopProducer(at) /\ main' = "closeAdmin" /\ UNCHANGED at
     \/ main = "close" /\ at <= size /\ StopProducerFails(at) /\ at' = at + 1 /\ UNCHANGED main
     \/ main = "closeAdmin" /\ (StopAdmin(at) \/ StopAdminFails(at))
        /\ at' = at + 1 /\ main' = "close"
  /\ UNCHANGED <<size, initialized, loopVars, callVars>>

\* The list is cleared: a get_adapter that holds the lock may be in the middle of it.
Closed ==
  /\ main = "close" /\ at > size
  /\ main' = "stopped" /\ size' = 0 /\ initialized' = FALSE /\ at' = 1
  /\ UNCHANGED <<adapterVars, brokerVars, loopVars, callVars, faults>>

-----------------------------------------------------------------------------
(* _health_check_loop *)

LoopGoes(from, to) ==
  /\ main # "cancel"
  /\ loop = from /\ loop' = to
  /\ UNCHANGED <<lifecycleVars, callVars>>

Wake ==
  /\ LoopGoes("sleep", "check")
  /\ loopAt' = 1
  /\ UNCHANGED <<adapterVars, brokerVars, faults>>

\* Pool health: the first healthy adapter ends the check and the round.
CheckFinds ==
  /\ Healthy(loopAt)
  /\ LoopGoes("check", "sleep") /\ loopAt' = 1
  /\ UNCHANGED <<adapterVars, brokerVars, faults>>

CheckMisses ==
  /\ ~Healthy(loopAt)
  /\ IF loopAt < size THEN LoopGoes("check", "check") /\ loopAt' = loopAt + 1
                      ELSE LoopGoes("check", "recheck") /\ loopAt' = 1
  /\ UNCHANGED <<adapterVars, brokerVars, faults>>

\* Mutant: one adapter too many.
NextAdapterPast(from) ==
  IF loopAt <= size THEN LoopGoes(from, "recheck") /\ loopAt' = loopAt + 1
                    ELSE LoopGoes(from, "sleep") /\ loopAt' = 1

\* reconnect_failed_adapters goes on to the next adapter, or back to sleep.
NextAdapter(from) ==
  IF loopAt < size THEN LoopGoes(from, "recheck") /\ loopAt' = loopAt + 1
                   ELSE LoopGoes(from, "sleep") /\ loopAt' = 1

RecheckHealthy ==
  /\ Healthy(loopAt)
  /\ NextAdapter("recheck")
  /\ UNCHANGED <<adapterVars, brokerVars, faults>>

RecheckUnhealthy ==
  /\ ~Healthy(loopAt)
  /\ LoopGoes("recheck", "stopProducer")
  /\ UNCHANGED <<loopAt, adapterVars, brokerVars, faults>>

\* disconnect() returns, whether its stops do or raise.
LoopDisconnects ==
  /\ \/ LoopGoes("stopProducer", "stopAdmin") /\ StopProducer(loopAt)
     \/ LoopGoes("stopProducer", "admin")     /\ StopProducerFails(loopAt)
     \/ LoopGoes("stopAdmin", "admin")        /\ (StopAdmin(loopAt) \/ StopAdminFails(loopAt))
  /\ UNCHANGED loopAt

LoopStartsAdmin ==
  /\ LoopGoes("admin", "producer")
  /\ StartAdmin(loopAt)
  /\ UNCHANGED loopAt

LoopStartsProducer ==
  /\ NextAdapter("producer")
  /\ StartProducer(loopAt)

\* connect() raises at the start of one client or the other.
ConnectFails ==
  /\ StartFails
  /\ \/ loop = "admin"    /\ ReplaceAdmin(loopAt, FALSE)
     \/ loop = "producer" /\ ReplaceProducer(loopAt, FALSE)

\* Mutant: a failed reconnection ends the loop.
LoopConnectFailsForGood ==
  /\ LoopGoes("admin", "ended") \/ LoopGoes("producer", "ended")
  /\ ConnectFails
  /\ UNCHANGED loopAt

\* It is logged and the next adapter is tried.  What was started stays open, the
\* adapter stays in the list.
LoopConnectFails ==
  /\ NextAdapter("admin") \/ NextAdapter("producer")
  /\ ConnectFails

LoopStep ==
  \/ Wake \/ CheckFinds \/ CheckMisses \/ RecheckHealthy \/ RecheckUnhealthy
  \/ LoopDisconnects \/ LoopStartsAdmin \/ LoopStartsProducer \/ LoopConnectFails

-----------------------------------------------------------------------------
(* get_adapter() and acquire() *)

Unlock(c) == lock' = IF lock = c THEN NoCaller ELSE lock

\* What a call leaves behind: what it has seen counts only when it finds nothing.
Forget(c, outcome, found) ==
  /\ tries' = [tries EXCEPT ![c] = 0]
  /\ checked' = [checked EXCEPT ![c] = 1]
  /\ seen' = [seen EXCEPT ![c] = IF outcome = "noneHealthy" THEN found ELSE {}]

\* The next adapter in turn, whose health is now awaited.
Pick(c, left, found) ==
  /\ pc' = [pc EXCEPT ![c] = "checking"]
  /\ tries' = [tries EXCEPT ![c] = left]
  /\ seen' = [seen EXCEPT ![c] = found]
  /\ checked' = [checked EXCEPT ![c] = (index % size) + 1]
  /\ index' = (index + 1) % size

Ends(c, outcome, found) ==
  /\ pc' = [pc EXCEPT ![c] = outcome]
  /\ Unlock(c)
  /\ Forget(c, outcome, found)
  /\ UNCHANGED index

Call(c) ==
  /\ pc[c] \in {"idle"} \union Outcomes
  /\ pc' = [pc EXCEPT ![c] = IF initialized /\ size > 0 THEN "waiting" ELSE "notInitialized"]
  /\ UNCHANGED <<lifecycleVars, adapterVars, brokerVars, loopVars, index, lock, checked, tries, seen,
                 faults>>

\* Mutant: the pool's lock is not taken.
AcquireUnlocked(c) ==
  /\ pc[c] = "waiting"
  /\ IF size = 0 THEN Ends(c, "noneHealthy", {}) ELSE Pick(c, size, {}) /\ UNCHANGED lock
  /\ UNCHANGED <<lifecycleVars, adapterVars, brokerVars, loopVars, faults>>

\* The lock is taken and max_attempts read; with an emptied list no attempt is made.
Acquire(c) ==
  /\ pc[c] = "waiting" /\ lock = NoCaller
  /\ IF size = 0 THEN Ends(c, "noneHealthy", {}) ELSE Pick(c, size, {}) /\ lock' = c
  /\ UNCHANGED <<lifecycleVars, adapterVars, brokerVars, loopVars, faults>>

FindsHealthy(c) ==
  /\ pc[c] = "checking" /\ Healthy(checked[c])
  /\ Ends(c, "got", {})
  /\ UNCHANGED <<lifecycleVars, adapterVars, brokerVars, loopVars, faults>>

\* Mutant: the caller that finds no healthy adapter keeps the lock.
FindsUnhealthyLocked(c) ==
  /\ pc[c] = "checking" /\ ~Healthy(checked[c])
  /\ LET found == seen[c] \union {checked[c]} IN
       \/ /\ tries[c] = 1
          /\ pc' = [pc EXCEPT ![c] = "noneHealthy"]
          /\ Forget(c, "noneHealthy", found)
          /\ UNCHANGED <<index, lock>>
       \/ tries[c] > 1 /\ size = 0 /\ Ends(c, "zeroDivision", found)
       \/ tries[c] > 1 /\ size > 0 /\ Pick(c, tries[c] - 1, found) /\ UNCHANGED lock
  /\ UNCHANGED <<lifecycleVars, adapterVars, brokerVars, loopVars, faults>>

\* The next attempt divides by the length of the list, which shutdown() may have
\* cleared during the check.
FindsUnhealthy(c) ==
  /\ pc[c] = "checking" /\ ~Healthy(checked[c])
  /\ LET found == seen[c] \union {checked[c]} IN
       \/ tries[c] = 1 /\ Ends(c, "noneHealthy", found)
       \/ tries[c] > 1 /\ size = 0 /\ Ends(c, "zeroDivision", found)
       \/ tries[c] > 1 /\ size > 0 /\ Pick(c, tries[c] - 1, found) /\ UNCHANGED lock
  /\ UNCHANGED <<lifecycleVars, adapterVars, brokerVars, loopVars, faults>>

\* The request is cancelled in get_adapter: the lock is released on the way out.
Leaves(c) ==
  /\ pc[c] \in {"waiting", "checking"}
  /\ Ends(c, "idle", {})
  /\ UNCHANGED <<lifecycleVars, adapterVars, brokerVars, loopVars, faults>>

-----------------------------------------------------------------------------
(* The environment *)

Breaks(i) ==
  /\ link[i] /\ Fault
  /\ link' = [link EXCEPT ![i] = FALSE]
  /\ UNCHANGED <<lifecycleVars, adapterVars, brokerUp, loopVars, callVars>>

BrokerChanges ==
  /\ IF brokerUp THEN Fault ELSE UNCHANGED faults
  /\ brokerUp' = ~brokerUp
  /\ UNCHANGED <<lifecycleVars, adapterVars, link, loopVars, callVars>>

-----------------------------------------------------------------------------
MainStep ==
  \/ InitAdmin \/ InitProducer \/ InitFails \/ CleanUp
  \/ LoopCancelled \/ CloseAdapter \/ Closed

CallStep(c) == FindsHealthy(c) \/ FindsUnhealthy(c)

Next ==
  \/ Startup \/ Shutdown \/ MainStep \/ LoopStep
  \/ \E c \in Callers : Call(c) \/ Acquire(c) \/ CallStep(c) \/ Leaves(c)
  \/ \E i \in Adapters : Breaks(i)
  \/ BrokerChanges

\* The event loop runs every task that is ready and the loop's sleep ends; the
\* lock is handed on in the order of the waiters; a health check returns or
\* times out.  Nothing makes the broker come back or a request let go.
Fairness ==
  /\ WF_vars(MainStep)
  /\ WF_vars(LoopStep)
  /\ \A c \in Callers : SF_vars(Acquire(c)) /\ WF_vars(CallStep(c))

Spec == Init /\ [][Next]_vars /\ Fairness

-----------------------------------------------------------------------------
(* Properties *)

\* Every variable holds a value the code can produce.
TypeOK ==
  /\ main \in MainPC /\ at \in 1..(PoolSize + 1) /\ size \in 0..PoolSize
  /\ initialized \in BOOLEAN /\ brokerUp \in BOOLEAN
  /\ connected \in [Adapters -> BOOLEAN]
  /\ admin \in [Adapters -> ClientState]
  /\ producer \in [Adapters -> ClientState]
  /\ link \in [Adapters -> BOOLEAN]
  /\ lost \in Nat /\ raised \in Nat /\ faults \in 0..MaxFaults
  /\ loop \in LoopPC /\ loopAt \in Adapters
  /\ index \in 0..(PoolSize - 1)
  /\ lock \in Callers \union {NoCaller}
  /\ pc \in [Callers -> CallerPC]
  /\ checked \in [Callers -> Adapters]
  /\ tries \in [Callers -> 0..PoolSize]
  /\ seen \in [Callers -> SUBSET Adapters]

\* A call that reports no healthy adapter has found every adapter of the pool
\* unhealthy while it ran, however many calls share the round-robin index; only
\* a pool emptied by shutdown() under a waiting call makes the report empty, and
\* nothing else makes a call divide by the length of an empty list.
ErrorsAreTrue ==
  \A c \in Callers :
    /\ pc[c] = "noneHealthy"  => seen[c] = Adapters \/ main = "stopped"
    /\ pc[c] = "zeroDivision" => main = "stopped"

\* When shutdown() has returned it has stopped every client of the pool, at whatever
\* await of a disconnect or a reconnection the cancellation struck: one may be open
\* only if its own stop raised or was cut short, or, an admin client, if the stop of
\* the producer before it raised.  A pool that has come up loses at most one other
\* client for each stop that raises; one that fails to come up at most the two of the
\* adapter it was connecting.
NothingLeftOpen ==
  /\ main = "stopped" => \A i \in Adapters :
       producer[i] # "open" /\ (admin[i] = "open" => producer[i] = "left" /\ raised > 0)
  /\ lost <= IF loop = "none" THEN 2 ELSE raised

\* A pool whose adapters are all unhealthy while the broker can be reached gets
\* a healthy one back, unless it is shut down.
PoolRecovers ==
  (main = "up" /\ brokerUp /\ \A i \in Adapters : ~Healthy(i))
    ~> (main # "up" \/ ~brokerUp \/ \E i \in Adapters : Healthy(i))

\* Every call for an adapter that waits for the lock gets on.
CallsEnd == \A c \in Callers : pc[c] = "waiting" ~> pc[c] \notin {"waiting", "checking"}

=============================================================================
