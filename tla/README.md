# Universal Replay: a verification development

Universal Replay reads a range of offsets from a Kafka partition, passes every
message through an optional script and writes it to another topic.  A FastAPI
backend (`kafka-replay-backend`) keeps replay jobs in a database and streams
their progress over server-sent events; an Angular frontend
(`kafka-replay-frontend`) shows them.  This directory holds TLA+ specifications
of the parts of the backend where order, concurrency and failure matter, the TLC
configurations that check them on small instances, and TLAPS proofs of their
main invariants for every value of the constants.

Line numbers below are those of `kafka-replay-backend/app/` unless a path says
otherwise.

## 1. Inventory

### Parts and how they interact

| Part | State it keeps | Operations | Correct when |
|---|---|---|---|
| Replay API (`api/v1/replays.py`) | none | create, list, get, start, pause, cancel, statistics, progress stream | a stream shows what the job did |
| Replay service (`services/replay_service.py`, `replay_repository.py`, `replay_models.py`) | one row per job: status, started_at, completed_at, message_count, error_count | create, start, pause, cancel, resume, list, statistics | the row tells the truth about what was replayed; pause and cancel take effect; no row is RUNNING for nobody |
| Replay engine (`services/replay_engine.py`) | counts and offset of one execution | `replay`, an asynchronous generator | every message is counted once and produced in order at most once, repeated by nothing but the client's own retries, and COMPLETED means the range was read |
| Kafka adapter (`adapters/kafka.py`) | admin client, producer, connected flag; a consumer per consumption | connect, disconnect, health check, consume, produce, topic and group queries | a range is delivered in order and ends where it should |
| Adapter pool (`adapters/pool.py`) | list of adapters, round-robin index, lock, health check task | initialize, get_adapter, health check, reconnect, startup, shutdown | callers get a healthy adapter if there is one; nothing stays open after shutdown; a dead pool comes back |
| Error handling (`adapters/error_handler.py`) | breaker state, failure count, time of the last failure | call, reset, retry with backoff | the breaker opens at its threshold and only recovers after a rest; retries are bounded |
| Schema registry client (`services/schema_registry_client.py`) | an LRU cache with expiry | get schema by id or subject, subjects, clear cache | answers are not staler than the time to live |
| Script sandbox (`sandbox/`) | script rows with version and status, execution records, a pool of worker processes | create, update, publish, archive, execute | only published scripts run for jobs; a runaway script does not stop the others while there is a worker left; the history says what was executed |
| Encoding services (`services/encoding_*.py`) | none of their own, the cache of the registry client | detect, validate, decode, process a message | detection follows one order of precedence; what is called valid can be read or has been confirmed; the three answers about a message fit together |
| Frontend store and lists | jobs, page, loading and error flags | load, add, update, remove | the list shows the page that was asked for last |

A progress connection calls `ReplayService.start_job`, which reads the row,
writes RUNNING, iterates over `ReplayEngine.replay` and, after each progress
value, writes the counts, yields the value to its client and reads the row
again.  `pause_job` and `cancel_job` only write the status: the row is the only
channel between a controller and a worker.  The engine iterates over
`KafkaAdapter.consume_messages` and awaits `produce_messages` for every message.

As the code stands the application starts a replay in one way only.
`POST /{id}/start` calls `start_job_internal` (`api/v1/replays.py:113`), which
does not exist, and answers 503; opening the progress stream (line 307) is what
starts a job.  No endpoint calls `resume_job`.  The pool and the error handlers
are library code with no caller in the application.  The models describe these
parts as their public methods allow them to be used.

### What is hard

* Two sessions per operation: every decision about the row is taken on a status
  that may be gone when the decision is written (`replay_service.py:157/163`,
  `192/195`, `233/241`, `269/277`).
* Generators: `replay` and `start_job` are suspended at every yield and can be
  dropped there; `GeneratorExit` and `CancelledError` pass every `except Exception`.
* The end of a range is only seen in a record at or beyond it (`kafka.py:461`),
  offsets have holes, and the log grows meanwhile.
* A produce that raises may have delivered (`kafka.py:584`), and one that is
  acknowledged may have delivered more than once: the producer retries
  (`kafka.py:110`, three times by default) and is not idempotent.
* The breaker has no lock: outcomes arrive after the state that admitted them.
* The schema cache is read before a request and written after it; responses
  overtake each other and `clear_cache`.
* Shutdown of the pool cancels a reconnection at any await, those between the stops
  of `disconnect` included (`kafka.py:151-158`), and takes no lock.
* A script is read in one session, executed by another process and recorded in a
  third step; a worker cannot be interrupted, it may die, and an abandoned call
  leaves its script behind (`sandbox/runner.py:189`, `271`).
* The parts of the encoding service ask the registry one after the other through a
  cache that others fill and empty, and their parsers race a time limit
  (`encoding_detector.py:177`).

`PROJECT.json` lists these hazards line by line with the properties that cover
them, and says why where none does.

## 2. Modules

| Module | Models | Lines of code it stands for |
|---|---|---|
| `RangeCopy` | abstract: copying a half-open range of a growing log, in order, some records dropped, none copied more than `Copies` times | what `replay` promises |
| `ReplayEngine` | `replay` over `consume_messages`/`produce_messages`, any number of executions side by side | `replay_engine.py`, `kafka.py:398-640` |
| `ReplayService` | `start_job`, `resume_job`, `pause_job`, `cancel_job` over one row; EXTENDS `ReplayEngine` and drives it only through its actions | `replay_service.py`, `replay_repository.py` |
| `TripSwitch` | abstract: a switch that trips at a number of failures in a row and rests | what the breaker promises |
| `CircuitBreaker` | `CircuitBreaker.call_async` and `reset` under concurrent `retry_async` loops | `error_handler.py` |
| `AdapterPool` | `KafkaConnectionPool` and `AdapterLifecycleManager` with the parts of `KafkaAdapter` they use | `pool.py`, `kafka.py` connect, disconnect, health_check |
| `SchemaCache` | `SchemaRegistryClient` and `LRUCache` under concurrent lookups and a changing registry | `schema_registry_client.py` |
| `ScriptCall` | abstract: one call of one caller, run at most once and answered by its own code | what the sandbox promises |
| `ScriptSandbox` | `ScriptSandboxService` with its repository, compiler and process pool, under concurrent calls | `sandbox/service.py`, `repository.py`, `runner.py`, `compiler.py`, `api/v1/scripts.py` |
| `EncodingService` | `process_message`: detector, validator and decoder over the registry client's cache | `encoding_service.py`, `encoding_detector.py`, `encoding_validator.py`, `encoding_decoder.py` |
| `MC*` | constants of the TLC runs | |
| `*Proofs` | theorems about the module of that name | |

Definitions named "Mutant" in the comments are deliberate mistakes: each one
stands before the definition it would replace, and shows that a property fails
when the code is changed that way.  No specification uses them.

### ReplayEngine

`epc[s]` says where the generator of execution `s` stands, `cur`, `pos`,
`consumed`, `mc`, `ec` are the locals `current_offset`, the consumer's position,
`messages_consumed`, `message_count`, `error_count`; `records` and `latest` are
the source partition, `delivered[s]` what reached the destination.  An action is
the code between two awaits whose outcome matters.  `Begin`, `Continue`,
`Exhaust` and `Close` are the caller's `__anext__` and `aclose`; `OpenAccepted`,
`OpenRejected`, `ConsumeFails`, `FetchRecord`, `FetchPastEnd` are the consumer;
`TransformFails`, `ProduceAcknowledged`, `ProduceRejected`, `ProduceUnconfirmed`,
`DryRunSkips` are the ways through the body of the loop, each with its counting.
aiokafka is external and modelled as the code uses it: a consumer sought to
`offset_start` hands over the existing records in order, and a producer configured
with `retries` and without idempotence sends a record up to `Attempts` times
(one and `settings.retries`), so that a record whose acknowledgements were lost is
appended by each of them (`Deliver`).  The requests of one producer are taken in the
order they are sent and `acks` is "all"; an append that a broker makes only after the
client has given the record up, and sent the next one, is not modelled.  A stream
that is dropped while it produces may deliver its message all the same (`Close`).
aiokafka 0.10.0 is taken to accept the arguments `kafka.py:105-118` passes,
`retries` and `batch_size` among them.  The rate limit is a
pause of unknown length between two actions and therefore left out; so are
keys, values, headers and throughput.

### ReplayService

`status`, `startedAt`, `completedAt`, `dbMc`, `dbEc` are the row.  `spc[s]` is
the position of a stream in `start_job` or `resume_job`: one value for each
session it is about to open.  Each session is one step, because each reads or
writes the row once and commits.  `Claim`, `EngineWorks`, `RecordProgress`,
`ClientTakes`, `PollPaused`/`PollContinues`, `FinalRead`, `Complete` follow the
code from top to bottom; `CheckRaises`, `ServiceRaises`, `MarkFailed`,
`MarkFailedRaises` are its error paths; `Abandon` is a client that disconnects,
a cancelled task, or (for all streams at once, one after the other) a crash of
the process.  `PauseRead`/`PauseWrite` and `CancelRead`/`CancelWrite` are the two
sessions of a controller.  A session is taken as atomic; two concurrent
transactions that interleave column by column are not modelled.

### CircuitBreaker

`state`, `failureCount`, `lastFailureTime` are the breaker's attributes, `now`
the clock.  A caller is in `retry_async`: `Admit` is the admission part of
`call_async`, `Succeeds` and the raising actions its outcome, some time later,
`Wakes` the end of the backoff.  `Expected` is the `expected_exception` class:
the run uses a breaker that counts transient failures only, the theorems hold
for every choice.  The clock only advances; the code reads the local wall clock,
which may step.

`BreakerIsASwitch` maps it to `TripSwitch`, which knows neither callers nor
attributes: its mode, the failures in a row while it is closed, the time of the last
failure and the clock are all it has.

### AdapterPool

`main` is where `startup` and `shutdown` stand, `loop` the health check loop,
`pc` the callers of `get_adapter`.  `connected`, `admin`, `producer` are the
flags of each adapter, `lost` counts clients that are open and unreachable,
`link` and `brokerUp` are the environment.  A step is the code up to the next
await: `connect` has two, the starts of its clients, and `disconnect` two, their
stops, after which alone an adapter no longer counts as connected.  A client is
"open" from the call of its start, "closed" once a stop has returned, and "left"
when its stop raised or was cut short: it may be open still, and stopping it again
need not change that (the stop of an aiokafka producer that has begun does nothing
the second time).  `LoopCancelled` is the `CancelledError` that `shutdown` sends to
the loop, at whatever await it is at: in a stop it leaves that client "left", the
other one as it was and the adapter connected; in a start it leaves a client open
that is not known to work.  aiokafka is taken to let the error out of its awaits; one
of its clients absorbs it in a stop at a point of its own, which the model does not
have.

### SchemaCache

`order` is the order of the `OrderedDict`, `entry` its entries with their
`created_at`.  `pc`, `key`, `asked`, `value` are the lookups under way: one step
up to the request (`LookupHits`, `LookupMisses`), one from the response on
(`ResponseArrives`, `RequestFails`), and between them the registry reads the
request (`RegistryAnswers`).  A schema and the list of subjects differ in what
the code differs in: an empty list is no hit, a missing schema is not cached, and
a cached schema is rebuilt by a call that raises.  What the registry holds under
a key is a version number; `registry` remembers when each version was replaced,
so that "current since" can be said.  `Timeout` is how long a request takes at
most: httpx applies `timeout_seconds` to each wait of a request, so it stands
for their sum, and a response that trickles in for longer is not modelled.

### ScriptSandbox

`row` holds the scripts and `records` the history of executions; `pool`, `queue`
and `worker` are the `ProcessPoolExecutor`; `pc`, `call` and `outcome` are the
executions under way.  `Create`, `Update`, `Publish` and `Archive` are one session
each.  An execution reads its script (`Fetch`), hands it to the pool (`Submit`) or
fails at once, receives the result and records it; `Start` is
`execute_with_timeout`, which is given a code, has a time limit (`TimesOut`) and
records nothing.  A code is what becomes of it: it is no Python, it is refused by
RestrictedPython, it returns, it fails or it does not return.  The pool is
modelled as `concurrent.futures` behaves: a script in a worker cannot be cancelled
(`Disown`), a process that dies breaks the pool for good (`WorkerDies`), and
`shutdown(wait=True)` is called from the event loop, which therefore stands until
the last script has returned (`LoopRuns`).

What the actions say of the code as it stands: `update` adds a second row under the
primary key of the first, so it fails and a version 2 never exists; an execution is
always recorded as one of version 1; `publish` looks at no status and publishes
archived scripts as well; the error handlers of `create_script` and `update_script`
use `repo` outside the session that bound it and raise another exception than the
one they report (`sandbox/service.py:89`, `200`); the result of a script that failed
in its worker is refused by `ScriptResult`, as an output of None is no dictionary,
so its message and logs are replaced by those of that error; and a broken pool is
never replaced.  With the version of RestrictedPython that `requirements.txt:20`
pins, 6.2, no script compiles at all: its `compile_restricted` returns a plain code
object, which has no `errors`, so `compiler.py:109` raises and every code is
"rejected".  The model takes RestrictedPython as `compiler.py` is written for it,
with a result that has `errors`, `names` and `code` (what `compile_restricted_exec`
returns); the codes that are "rejected" are a case of it, and all the properties of
the run hold of them too, but what it says of workers is about a sandbox in which
that call is repaired.  Environment: a process is killed at any time, and a code
object that cannot be sent to a process fails its future (`CannotSend`).

`CallsAreRunOnce` maps each caller to a `ScriptCall` of its own: asked, running,
answered, over.  The queue, the workers and the other callers are not in it.

### EncodingService

`pc` is where one call of `process_message` stands: a layer of the detector, the
validator or the decoder; `call` are its arguments; `detected`, `validated` and
`decoded` what the three parts have found.  `cached` is what the registry client
holds, which other calls fill and empty meanwhile (`Remember`, `Forget`); a cached
schema raises, as `SchemaCache` shows and `get_schema_by_id` does.  `answers` and
`slow` are history.  A payload is what the code tells apart of one: its size
class, the first byte, the id behind it, whether it is UTF-8 and printable and what
it parses to.  A declared encoding is lower-cased by the code and stands here for
its lower case.  Confidences, previews and messages are left out.  The
configuration has its flag for Protobuf, `config.protobuf`, which the code reads
nowhere: no layer looks for Protobuf in the bytes of a message.  Nor does the
validator: with a registry client the topic's schema decides, and without one any
bytes are valid Protobuf, with a warning (`encoding_validator.py:217`).

What the actions say of the code as it stands: a tombstone has no value
(`kafka.py:477`) and makes `process_message` raise, as each error handler
measures the message once more (`DecodeNull`; `encoding.md:36` calls the service
"designed to never raise unhandled exceptions"); a JSON document that is an array
or a number is detected and valid but not decoded, as `DecodeResult.content` admits
objects and strings; the topic's schema decides a detection only while it is not
cached, so the same message may be detected differently when it comes again;
`_decode_avro` does not look at the magic byte.  `topics.py` reads
`encoding_result.encoding`, which no `EncodingResult` has, and calls a method
`detect_topic_encoding` that does not exist: through the API the service is
reached by `schemas.py` only.

## 3. Runs

| Run | Bounds | What it shows |
|---|---|---|
| `engine` | one execution; offsets 1..4, every subset of them present; every range from 0..3 to 0..4, dry or not, with or without script | accounting, order, range and percentage invariants, with up to three copies of each message; the loop ends once the log goes past the range; every step is a step of `RangeCopy` |
| `service_races` | two streams at once (each may start or resume), one controller with one request, two database faults; two messages, a log that ends with the range and may grow past it | RUNNING rows have a stream, unstarted rows are untouched, reported counts are backed by deliveries, a pause stops each stream within one message |
| `service_one_at_a_time` | two streams, one after the other, one request, one fault; a log that goes on past the range; under fairness | at most one success is unreported, COMPLETED means the engine was exhausted, streams end, RUNNING ends |
| `breaker` | three callers, three requests, threshold 2, timeout 2, two attempts, clock to 4 | threshold, rest before half-open, bounded attempts, every request ends; every step is a step of `TripSwitch` |
| `pool` | two adapters, two callers, two faults | no caller is told "none healthy" without having seen all or meets an emptied list but after a shutdown, every client has been stopped after shutdown unless a stop raised or was cut short, and what is lost is bounded; a dead pool recovers, callers of the lock get on |
| `sandbox` | one script, two callers, one worker, one place in the queue; under fairness | the history names the version and success of what ran; every step is a step of each caller's `ScriptCall`; the calls of an archived script end, but for endless ones and those behind them, and no other starts; a script that returns gets its answer whatever the others do; a call with a time limit ends |
| `encoding` | one schema id, one topic; every kind of message, every declaration, every configuration | binary is the last resort after the layers that read the bytes, a detection made from them is valid, what is valid is readable or was confirmed, but for Protobuf without a registry client, which is always valid |
| `schema_cache` | two lookups at once, two schemas and the list of subjects, two entries, time-to-live 1, timeout 1, clock to 3 | size, order of eviction by last use, age of what a hit answers |

Why the bounds are enough.  The engine treats messages alike; four offsets hold a
range with a message before it, in it, at `offset_end` and beyond it, and holes at
each place.  Copies made by the producer's client are explored by `engine` (three
attempts) and proved about for any number; the runs of the service send each record
once, for size, and no action of the service reads what was delivered.  The races of
the service are between two writers of one row and a controller: two messages let
each stream be overtaken before, between and after them, and two faults reach the
error path of an error path.  Threshold two distinguishes the first failure from the
one that trips; three callers let late outcomes of two calls meet a third.  Two
adapters distinguish "one healthy" from "none".  Three keys compete for two entries
of the cache, two lookups of one key overtake each other, and a clock to 3 passes
time-to-live and timeout together. In the sandbox the interference is between one
execution and another over one worker and one queue: two callers let each be in the
queue, in the worker and abandoned while the other is at any of its steps, and one
endless script already holds the whole pool.  A message has one id and one topic,
and what is remembered of others' calls are the keys of this one, so one of each is
enough.  The invariants marked as proved below hold for every value.

### Where code and documentation disagree

Each of these runs finds a behaviour of the code that a document or comment of
the repository excludes.

* `engine_offset_end`: `offset_end` is "inclusive" in `replay_models.py:83` and in
  the engine's total, and exclusive in the consumer: the last message is never replayed.
* `service_critical_error`: `replay.md` marks a job FAILED on a critical error;
  `start_job` does not look at the status of a progress and marks it COMPLETED.
* `sandbox_timeout`: "A 2-second CPU timeout is enforced per execution"
  (`sandbox/README.md:21`); `execute` has none, and `execute_with_timeout` has no caller.
* `encoding_avro`: `get_schema_by_id` returns "SchemaMetadata or None if not found"
  (`schema_registry_client.py:192`); answered from the cache it raises
  `TypeError`.  The validator fills the cache for the decoder, so an Avro message
  that has just been found valid is not decoded.

Five more are part of every run of their module, which describes what the code
does, and have no run of their own: a cancelled job "cannot be resumed"
(`api/v1/replays.py:185`), but opening its progress stream replays it; resuming
"from current position" (`replay_service.py:313`) replays the range from its
start; the health check loop "reconnects failed adapters" (`pool.py:350`)
only when no adapter is healthy; the detector's first layer is said to check for
Avro and Protobuf (`encoding_detector.py:29`) and `enable_protobuf_detection`
to enable "Protobuf detection" (`encoding_models.py:180`), but there is none, so a
Protobuf message whose topic has no schema at hand is reported as text or binary
(`BinaryIsLastResort` therefore speaks of the other three layers); and the scripts of
`sandbox/README.md` do not compile under the pinned RestrictedPython (section 2).

### Fairness

Every task of the event loop that is ready runs: weak fairness for the steps of a
stream, of the engine it awaits, of a controller between its two sessions, of the
health check loop, of startup and shutdown, of a retry loop.  Tasks are never
preempted and never starved by asyncio, which justifies it.  A client of the
progress stream takes what it is sent or disconnects.  The waiters of an
`asyncio.Lock` are served in order: strong fairness of taking it.  Nothing makes a
broker fail or recover, a producer append to the source topic, a client disconnect
or a user press pause.  In the sandbox an idle worker takes what is queued and a
script that returns does so in the end, and the event loop runs what is ready unless
`shutdown` blocks it; submitting a script never waits in the code, and strong
fairness of it makes up for the bound on the queue; nothing makes an endless script
return or a process die.  That run may stop for good: a shutdown waits for endless
scripts.

## 4. Proofs

TLAPS checks the theorems below for every set of streams, controllers, callers,
scripts and workers, every job, log, pool size, threshold and timeout.  Assumptions
on constants are the named ASSUMEs of the modules.

* **Engine types and accounting** (`ReplayEngineProofs`).  `EngineTypeOK` and
  `EveryMessageCountedOnce` are inductive together: each way through the loop
  body changes one of the two counts and `consumed` once.
* **CountedMeansDelivered** counts different messages, as the client may have sent one
  several times; it needs that the job never changes, that only an acknowledged
  produce raises `message_count`, and from `OrderInv` that a message in hand is none
  of those delivered before (`DeliverAddsOne`).
* **DeliveredInOrder** is strengthened by `OrderInv`: what a stream delivered lies
  below `cur` while a message is in hand and below `pos` otherwise, and both
  lie in the range.  `DeliverKeepsOrder` is the lemma about sequences it rests on:
  copies of one message stand together.
* **PercentWithinBounds** is strengthened by `CountsBounded`: the consumer's
  second break condition keeps `consumed` below the total while a message is in hand.
* **FinalMeansRangeRead** is strengthened by `ReadInv`: the consumer stands inside
  the log, and `consumed` is the number of records between `offset_start` and its
  position, less the one in hand.  `OnlyTheEndEnds` is why `max_messages` cannot cut
  a range short: it is one more than the range holds.
* **CopiesARange**: every engine step is a step of `RangeCopy` or a stutter, for
  every stream (`EngineCopiesARange`), and so under the service
  (`ServiceCopiesARange`).  One lemma for each abstract step carries it through the
  refinement mapping; `InHand` says that the message in hand is the abstract cursor.
* **ServiceImplementsEngine** (`ReplayServiceProofs`): every step of the service is
  a step of the engine or leaves it alone, so all six engine invariants hold of the
  composed system (`ServiceKeepsEngineInvariants`).
* **RunningHasStream, UnstartedIsUntouched, ReportedWasReplayed,
  PauseStopsWithinOneMessage**, each with the strengthening that relates the
  stream's position to its engine's: where the engine of a stream in
  `engine`, `yielded` or `poll` stands, that pausing controllers saw a started
  row, that a stream which is past its poll cannot yield twice.
* **CompletedMeansExhausted, AtMostOneSuccessUnreported** hold under `MaxLive <= 1`, one
  progress connection at a time, and rest on `Alone`: at most one stream is live, so
  nobody claims the row or writes its counts behind its back.  Without that both
  fail, and what remains is `ReportedWasReplayed`.
* **Breaker** (`CircuitBreakerProofs`): `BreakerInv` ties state, count and the
  times together; `TriesInv` counts invocations in each position of the retry loop.
  With the same invariant each action is a step of `TripSwitch` or a stutter
  (`BreakerImplementsSwitch`).
* **Cache** (`SchemaCacheProofs`): `IInv` says of every entry, and of every response
  under way, that its version was current since the request was sent, and that no
  request is older than `Timeout`.  `WithoutProperties`, `ToEndProperties` and
  `EvictedProperties` are the lemmas about sequences it rests on;
  `KnownStaysKnown` is why the registry may change at any time.
  `OrderedByUse` is strengthened by `UsedInOrder`: the dictionary is a part of the
  keys in the order of their last use (`WithoutOrder`, `ToEndOrder`, `EvictedOrder`).
* **Pool** (`AdapterPoolProofs`): `ErrorsAreTrue` holds because a caller
  that keeps the lock keeps the round-robin index: what it has seen are the adapters
  behind the index, all different, and as many as it has made attempts; and because the list is
  emptied by `shutdown` alone, which cannot be undone.
  `NothingLeftOpen` is strengthened by what is open at each place of the start, of
  the loop and of the shutdown, wherever the cancellation finds them, and by
  `OpenInv`: what was lost and what may still be lost are paid for by stops that raised.
* **Encodings** (`EncodingServiceProofs`): the layers are tried in order, so where a
  call stands says which readings have been excluded or were too slow
  (`BinaryIsLastResort`); what was detected from the bytes carries what the
  validator looks for (`DetectedIsValid`); and `answers` holds what a verdict
  rests on (`ValidMeansReadable`).  Neither says more than the code: a detection from
  the topic's schema or the magic byte is left out of the one, and the other lists
  Protobuf without a registry client, valid whatever its bytes are, as a case of its own.
* **Sandbox** (`ScriptSandboxProofs`): `HistoryIsTruthful` rests on `version = 1` for
  every row that exists, on rows keeping their code, and on
  `AnswersReachTheirCaller`: what is queued or executed for a caller is the code of
  its present call, which has no answer yet, and is there only once; so the answer
  of an abandoned script cannot reach the next call.  `SandboxRunsCallsOnce` adds
  `ToldInv`, which says where in a call there is an answer, and maps every action to
  a step of each caller's `ScriptCall`.  `NoCallIsLost` is the converse of
  ownership: whoever waits for an answer has its script in a pool that works.

### What is proved of the liveness properties

Fairness and ENABLED are beyond this prover.  What makes most of these properties
hold is a measure that falls and a guard that is true, and these are safety:

| Property | A measure that falls | Nothing stands still |
|---|---|---|
| `EndsOncePastEnd` | `ReplaysWindDown`: at most 4 steps and 3 for each offset of the range | `ReplaysWaitForTheLogOnly`: past the range the consumer always finds a record |
| `StreamsEnd` | `StreamsWindDown`: at most 12 steps and 5 for each offset, whatever the other streams, controllers and faults do | `StreamsAreNeverStuck`: past the range the guards of some step of the stream hold |
| `RequestsEnd` | `RetryLoopsWindDown`: at most 3 steps for each attempt | |
| `CallsEnd` | `SweepsEnd`: who has the lock is checking, and checks each adapter once at most | |
| `OthersGetThrough` | | `OnlyEndlessScriptsHoldUp`: a worker can finish or take a script, or endless ones hold them all |

The measures count a process's own steps: other actors neither raise them nor
lower them.  `StepsLeft` combines the place of the stream in `start_job` with what
its engine has left; `Coupled`, which says where the engine stands at each place,
is the invariant it needs.

So every invariant, action property and refinement that a passing run checks is
proved for all constants.  Only model-checked are the liveness properties
themselves: the five above, `RunningEnds`, `PoolRecovers`, `ArchivedComesToRest` and
`TimedCallsEnd`.  The counterexamples of section 3 are found by TLC.

## 5. Plan

The modules above model the part of the backend that keeps state.  What could
follow: measures for the remaining liveness properties, the recovery callbacks of
the error handlers, the composition of `EncodingService` with `SchemaCache` in place
of its set of cached keys, and the frontend's store once its list loads pages
concurrently.

## 6. Not modelled

Topic, health and consumer group queries (stateless reads), configuration, logging,
dependency injection and migrations, the registry of recovery callbacks and the
statistics of the error handlers, the derived statistics of a job, the endpoints of
`schemas.py`, lists and history reads of the sandbox, and the frontend: its store
keeps the answer that arrives last, and its forms send one request and show one
answer.  `EnrichmentScriptExecutor` and `ScriptService` are reached by nothing and
change nothing but a dictionary.  `replay_models.py:68` names a column `metadata`,
which SQLAlchemy reserves; the models describe the repository as it is written to
work.
