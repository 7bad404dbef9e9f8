# ImageDescriptor in TLA+

TLA+ models, model-checking runs and machine-checked proofs for the COGnito
image descriptor in `src/app`: a FastAPI service that takes coordinates and a
thumbnail, asks five external services about them, lets a language model write a
description and saves it.

To check something by hand, in this directory:

    tlc -workers 2 -config Server.cfg Server.tla
    tlapm ServerProofs.tla

`PROJECT.json` lists the components, every run with its properties, the source
lines that each definition models, the hazards of the code with the properties
that cover them, or with the reason why none does, a mutation for every property that makes it fail, the findings
and the theorems. This file explains them.

- [1. The system](#1-the-system)
- [2. How the models are made](#2-how-the-models-are-made)
- [3. The modules](#3-the-modules)
- [4. Runs, bounds and what they show](#4-runs-bounds-and-what-they-show)
- [5. Fairness](#5-fairness)
- [6. What is proved](#6-what-is-proved)
- [7. What the code does against its documents](#7-what-the-code-does-against-its-documents)
- [8. What is not modelled](#8-what-is-not-modelled)
- [9. Plan](#9-plan)

## 1. The system

One process, one asyncio event loop. All shared state is module-global or hangs
off `app.state`; there are no threads in the program's own code (aiosqlite keeps
one for the cache database, and answers arrive as awaits). What makes the program
hard is therefore not memory but suspension: between two awaits nothing else
happens, and at every await anything may.

```
 POST /describe, /describe/batch, ...          GET /health, /health/ready
        |                                              |
  shutdown_middleware ---- _in_flight, _drain_event ---+------- lifespan (SIGTERM)
        |                                              |
  describe_batch -- active_batch_jobs                  | ping
        |                                              |
  _describe_and_save --------------------------> db/supabase.py  (_client, lock, backoff)
        |
  compose_description
        |  gather: geocoder, landcover, mission      each through _safe_call and
        |  gather: describer, context                its own CircuitBreaker
        |
  modules/*.py -- cache/store.py, http_client.py, utils/retry.py
```

| Component | State it keeps | Operations | Talks to | Hard behaviour | What makes it correct |
|---|---|---|---|---|---|
| Circuit breaker (`utils/circuit_breaker.py`) | failure count, deadline, exported gauge | `is_open`, `record_success`, `record_failure`, `get_status` | wall clock, Prometheus | outcomes recorded long after the question was asked | the three views agree; it arms only on consecutive failures; it always opens again to calls |
| Guarded call (`_safe_call`, composer) | none; a call is "between" question and record | one | breaker, a service | stale outcomes, cancellation in between | bounded overshoot, nothing recorded for a cancelled call |
| Analysis pipeline (`services/composer.py`, `_describe_and_save`) | list of warnings shared by tasks, results | two `gather` phases, save | five services, database | tasks end in any order; a timeout cancels all of them | every gap has its warning, every request ends once and leaves no task |
| Process lifecycle (`main.py`) | `_shutting_down`, `_in_flight`, `_drain_event`, cleanup task | middleware, SIGTERM handler, lifespan | every request, batches, cache, HTTP client | flags, counter and event change around awaits; timeouts race with the last request | counters exact, drain means drained, shutdown ends |
| Batch endpoint (`api/routes.py`) | results, semaphore, `active_batch_jobs` | the loop over items | lifecycle's flag, pipeline | interrupted between two items, fails in the middle | replies add up, nothing starts after SIGTERM |
| Database client (`db/supabase.py`) | `_client`, `_consecutive_failures`, `_last_failure_time`, lock | `get_client`, `_reset_client`, save, ping, list, get, delete | Supabase | double-checked creation, failures reported on an older client, backoff | one creation, no herd, reconnects |
| Health endpoints (`api/routes.py`) | none | ping of cache and database under a timeout | database client | a probe has side effects on the client's backoff | a probe does no harm |
| Geocoder (`modules/geocoder.py`) | `_lock`, `_last_request_time` | cache, lock, pause, fetch with retries, cache | Nominatim, cache | a lock held across sleeps and retries | one at a time, rate kept, nobody starves |
| Cache store (`cache/store.py`) | an SQLite table, hit counters | get, set, cleanup, statistics | every module | expired rows deleted by key after an await | no fresh row lost, errors are misses |
| Cache migrator (`cache/migrator.py`) | schema, version rows | migrate | SQLite | crash between script and version row | every script takes effect exactly once |
| Read, delete and log endpoints (`api/routes.py`) | a row in the database, the text in the cache | get, list, delete | database client | statements given up and executed later, several deletions at once, errors that look like absence | a deletion is confirmed once, a lost save is not paid for again |
| Retry policies (`utils/retry.py`) | none | three attempts with backoff | services | multiplies with locks and timeouts | bounded attempts |
| Shared HTTP client (`http_client.py`) | `_client`, lock | `get_client`, `close_client` | every module | closed at shutdown without the lock that creation takes, under requests that are still running | one open client until then, at most one leaked |
| Authentication (`auth.py`) | cached key set and its time, lock | verify | JWKS endpoint, HTTP client | keys that change while they are fetched or cached; a lock held across the fetch | keys served are no older than their time to live, one fetch for all |
| Describer (`modules/describer.py`) | none but the cache | download, call of the model | any web server, Gemini, cache, HTTP client | redirects, sizes and retries multiply; a paid answer may be lost with the save | downloads end, the cache serves the retry |
| Land cover, context, mission (`modules/`) | none but the cache | one call each | Overpass, DuckDuckGo, STAC | how each one fails, and what it hides | every gap has its warning |
| Schemas, configuration, errors, logging, metrics, rate limit, timeout | constants, counters | | | | |

The hazards, with their lines, are in `PROJECT.json`. They come down to five
sources: (a) state read before an await and acted on after it (breaker, client,
cache row, batch gauge); (b) tasks that share a list, a counter or an event and
end in any order; (c) cancellation by `apply_timeout` or by a disconnected
client, at any await, and statements that are executed after that; (d) locks held
across awaits (geocoder, database client, key set, but not the breaker's, the HTTP
client's and the in-flight one); (e) timers that race with what they wait for.

## 2. How the models are made

**A step is the code of one task between two suspension points.** An
`asyncio.Lock` whose holder never awaits (`CircuitBreaker._lock`,
`_in_flight_lock`, the HTTP client's) can never be found taken, so what is under it
is part of the step around it. A lock that is held across an await
(`geocoder._lock`, the database client's, `_jwks_lock`) has an `owner` and a FIFO
`queue`; a lock that is free but has been promised to a waiter is not taken by a
newcomer, as in CPython's `asyncio.Lock.acquire`. `WaitQueue` has what the three
queues share: a waiter that is cancelled leaves from where it stands. What the tasks
rely on is stated without any queue in `FairLock`, and each of the three
components is proved to implement it (section 6).

**Tasks made by `gather` or by `wait_for` start later than they are made.** They
have a state "starting", in which others run and a cancellation reaches them
before their first line (Python 3.11 runs what `wait_for` waits for in a task).

**Cancellation** is an action that is enabled at every await. `CancelledError`
is no `Exception`, so it passes all the `except Exception` clauses; the model
does what the `finally` and `async with` clauses on its way do.

**Time** is kept as what is left of a deadline or as what has passed since an
event, capped where more would make no difference, so that no run needs a bound
on the clock. Ticks are those of a monotonic clock.

**External services** answer, fail in each of the ways that the code's `except`
clauses tell apart, or do neither until they are cut off. What they return is
data: `"value"`, `"null"`, `"empty"` or a failure.

**Faults.** Operators with the comment "Fault:" (`HandlerResetsAlways`,
`CancelLeavesCalls`, ...) are not part of any specification. Each is a plausible
bug; put in place of the definition that follows it, it makes a property fail in
the property's own run. `PROJECT.json` ("mutants") says which.

## 3. The modules

| Module | Models | Uses |
|---|---|---|
| `CircuitBreaker` | the breaker as operators on a record | |
| `SafeCall` | any number of callers of one service through `_safe_call` | `CircuitBreaker` |
| `Composer` | requests through both phases and the save, all breakers | `CircuitBreaker`; implements `SafeCall` |
| `WaitQueue` | leaving the queue of a lock; what a line is | |
| `FairLock` | what is relied on of a lock, abstractly: one holder, first come first served | |
| `Geocoder` | tasks behind the geocoder's cache, lock, pace and retries | `WaitQueue` |
| `Server` | requests, batches, SIGTERM and the shutdown half of `lifespan` | |
| `Supabase` | operations on the shared database client | `WaitQueue` |
| `SupabaseProbe` | the same under a periodic readiness probe and an outage | `Supabase` |
| `Cache` | tasks and the cleanup on one SQLite connection, migrations, crashes | |
| `HttpClient` | the shared HTTP client and its closing | |
| `Auth` | tasks that need the provider's keys, a provider that changes them | `HttpClient`, `WaitQueue` |
| `Download` | the describer's download under `retry_http` | `HttpClient` |
| `Clients` | both users of the HTTP client and its closing at shutdown | `Auth`, `Download` |
| `Descriptions` | requests that describe, get, list and delete one image | |
| `*Proofs` | theorems about the module they are named after | that module, `TLAPS`; three of them `FairLock`, `ComposerProofs` also `SafeCallProofs` |

### CircuitBreaker, SafeCall

`_failures` is `failures`. `_open_until` is `left`, the time to the deadline:
`Disarmed` for 0.0, 0 for a deadline that is reached or past. `is_open` both asks
(`IsOpen`) and changes state (`AfterIsOpen`: an expired deadline resets the count,
which the gauge shows as half-open). `record_failure` and `record_success` are
`AfterFailure` and `AfterSuccess`; neither asks whether the breaker is open, which
is where late outcomes bite.

In `SafeCall` a caller is idle or awaits the service; `Skip`, `Enter`, `Succeed`,
`Fail` and `Cancel` are the ways through `_safe_call`, `GetStatus` is
`get_breaker_statuses`, which goes through `is_open` and so may half-open a
breaker too. It is also the abstract specification of what one service's breaker
goes through in the pipeline.

### Composer

Per request: `stage` (where `_describe_and_save` stands), `call` (its task for
each service, then what the task returned, `"gap"` when `_safe_call` returned
None with a warning), `warned` (how often each module is in the shared list),
`saved`, `counted` (increments of `description_requests_total`) and `reply`.
Shared: `breakers`. `Begin`, `SecondPhase` and `Composed` are the code around the
two `gather` calls, `StartCall` and `EndCall` a `_safe_call` before and after its
await, `Save` the save. `Endings(s)` says how the call of service s can end; it is
read from the modules: `mission` returns None without a `stac_id`, `context`
turns its search's errors into an empty value, `describer` may reject the
thumbnail without asking the model and may return an empty text. `streak` and
`lost` are history: failures recorded, and failures of the service itself.

### Geocoder

`LookUp`, `LookUpFails` and `DeleteExpired` are `CacheStore.get`, with the await
between reading an expired row and deleting it; `CleanUp` the server's cleanup
task; `TakeLock` and `Acquire` the two ways to the lock; `Paced` the pause under
it; `Retry`, `GiveUp` and `Answer` the ends of an attempt; `Store` the write.
`_last_request_time` is `sinceAnswer`, the time since; it is set by answers only.

### Server

`Admit`, `Refuse` and `Leave` are `shutdown_middleware`; `StartBatch`,
`EndItem` and `AbortBatch` the loop of `describe_batch` with its `finally`;
`LoopFrom` is one turn of that loop, from its head to the next await, and is
where the flag is looked at. `Sigterm` is the handler. `StopServing`, `PollWake`,
`StartWait`, `DrainWake`, `DrainTimeout`, `CleanupCancelled` and `Close` are
`lifespan` after its `yield`. `waiter` is the task in which `wait_for` awaits the
event: `Event.set()` resolves its future, so it resumes even if a probe clears
the event before it runs ("woken"). When the ASGI server resumes `lifespan` is
external: with or without a SIGTERM, with requests running or arriving
(`add_signal_handler` replaces the server's own handler, so that the one does not
follow from the other).

### Supabase, SupabaseProbe

`client`, `failures`, `age` are the three globals; `LockedBody` is the body of
`get_client`'s `async with`; `HandlerResets(o, e)` is the table of the operations'
`except` clauses (which error makes which operation call `_reset_client`), the
one place where the operations differ. `CreateFails` resets twice when the
operation's handler catches what `get_client` has already accounted for, as the
code does. `calm` is history. `SupabaseProbe` adds a database that is up or down,
one task that pings at a fixed period, and fairness; the endpoint is documented as
a Kubernetes readiness probe (`api/routes.py`, `/health/ready`).

### Cache

`disk` is what has been committed, `conn` what the one connection of the process
sees: the first INSERT or DELETE opens a transaction, everybody's changes go into
it, and anybody's commit ends it. aiosqlite executes what it is handed in that
order and also for a task that has been cancelled since, so a statement is
executed by the step that awaits it, and the next step of its task may come much
later or never. `Connect` to `Ready` are `CacheStore.init` with `run_migrations`:
`executescript` takes effect on disk at once, the row that records the version
with the commit. `Get`, `Miss`, `Hit`, `DeleteExpired` are `get`; `Set`; `Commit`
the commit of both; `CleanUp...` is `cleanup_expired`; `Stop` stands for a crash, a
failed start-up and `close`, and drops what was not committed. `expires_at` is the
time left; a row is valid in the very moment of its end (`>`), and NULL is
`Forever`. `life` is history: how long a value may still be served.

### HttpClient, Auth, Download, Clients

Clients are numbered as they are made; `client` is `_client`, `open` those that are
not closed. `GetClient(k)` is the whole of `get_client`, part of the step of whoever
calls it, `BeginClose` and `EndClose` are `close_client` before and after its await.

In `Auth`, `keys` is the version that `_jwks_cache` holds and `age` the time since
`_jwks_cache_ts`. The clock is read before the fetch, which is why `Fetched` sets the
age to `begun`, and not to zero; what it gets are the keys of any moment of the
fetch, `base..published`. An empty answer is kept as the code keeps it, and to the
next look it is no key set. The provider is external and rotates its keys when it likes.

In `Download`, an attempt takes its client once (`Attempt`), so that the redirects
that follow go through a client that may have been closed since. `Redirected`,
`Responded`, `Chunk`, `Complete` and `Fails` are the ends of an await; hop and size
start again with each attempt. Which targets are acceptable and which failures are
transient are choices. `Clients` interleaves the two and lets `lifespan` close the
client at any moment, as it may after a drain that timed out.

### Descriptions

Per request: `stage`, the `text` it got, `attempt` (its calls of the model that
failed), `statement` (sent to the database, executed, or neither), `result` (what
the statement found) and `reply`. Shared: `cached` and `row`, the two copies of a
description. `LookUp` to `Store` are `describe_image` with `retry_gemini`;
`Composed` decides on the save; `Connect`, `Answer` and `QueryFails` are the
operations of `db/supabase.py` and the endpoints' answers to them (`SaveReply`,
`GetReply`, `ListReply`, `DeleteReply`), where a `ConnectionError` and any other
error differ. `Upsert`, `Select` and `Delete` are the database: it executes what it
was sent once, early, late or never, also when the program has timed out or has been
cancelled. `cacheFailed` is history.

## 4. Runs, bounds and what they show

The cfg has the module's name unless another is given. Model values stand for
tasks; they are interchangeable, but symmetry is used nowhere because most runs
check liveness or a refinement.

| Run | Module, cfg | States | Checks |
|---|---|---|---|
| `breaker` | SafeCall | 1,232 | TypeOK, Coherent, ArmedByStreak, OvershootBound, CooldownEnds |
| `composer` | Composer | 77,281 | TypeOK, GapsExplained, EndsClean, ImplementsSafeCall, RequestsEnd |
| `composer_context` | Composer, ComposerContext | | violates ContextFailuresOpen |
| `geocoder` | Geocoder | 5,784 | TypeOK, OneAtATime, PacedAfterAnswer, EveryoneServed |
| `server` | Server | 172,080 | TypeOK, CountersExact, CleanDrain, DrainedBatchesStayIdle, RepliesAddUp, NoItemAfterSigterm, ShutdownCompletes |
| `supabase` | Supabase | 25,140 | TypeOK, OneCreation, HealthyMeansNoFailures, NoHerd, WaitersProceed |
| `supabase_probe_slow` | SupabaseProbe, SupabaseProbeSlow | 3,934 | Reconnects |
| `cache` | Cache | 76,820 | TypeOK, RecordedIsApplied, ServesMigrated, HonestHits, Settles |
| `clients` | Clients | 243,585 | TypeOK, SharedClient, KeysRecent, FetchOnlyWhenStale, EveryoneEnds |
| `descriptions` | Descriptions | 3,700,194 | TypeOK, DeletedOnce, RetryFromCache |
| `descriptions_missing` | Descriptions, DescriptionsMissing | | violates MissingMeansAbsent |
| `supabase_reconnect` | SupabaseProbe | | violates Reconnects |

**breaker.** The code's own threshold (5) and cooldown (30), four callers: four
calls in flight when the breaker opens extend it three times, which is what
`OvershootBound` allows. `Coherent` says that count, deadline and gauge agree
whatever is recorded late; `ArmedByStreak` that only consecutive failures arm it;
`CooldownEnds` that late failures cannot keep it open.

**composer.** Two requests and one service of each phase: those with the most
ways to end in their phase, except the endings that the search service hides,
which `composer_context` is about. The threshold is 1, so that each request can
meet each breaker closed, open, half-open and reopened by the other request's late
failure. More services of a phase repeat the same independent tasks; the theorems
of section 6 cover any number. `GapsExplained` is about the list of warnings that
concurrent tasks share, `EndsClean` about cancellation, `ImplementsSafeCall`
carries `SafeCall`'s properties over to every breaker.

**geocoder.** Three tasks are one that asks, one that waits and one that is cut
off. With a second of two ticks there is a wait that is shorter than a second;
with a time to live of two ticks a row expires while a task is on its way. One
place is the worst case for the lock and for the cache.

**server.** One ordinary request, one probe, two batches of up to two items, two
polls. The two batches make the case that matters: one is at an item when SIGTERM
arrives, the other still being authenticated and not yet in the gauge. The probe
makes the other one: it clears the event after the drain has been woken.
`ShutdownCompletes` holds although requests may hang for good. Deadlock is not
checked, since a stopped process does nothing.

**supabase.** Three tasks: one creates, one waits, one fails on the client before.
`MaxCounted` caps the failure count where the backoff has reached its maximum
(`MaxCountedAssumption`), and nothing else depends on the count. A maximal backoff
of three units leaves room for base, double and capped backoff. Get and delete
have the handlers of list and are left out of the run. `NoHerd` says that after
a failed creation nobody tries again before the base backoff, however many tasks
were queued behind the one that failed.

**supabase_probe_slow, supabase_reconnect.** The same property of the same
specification with a probe that comes less often and more often than the longest
backoff. It holds in the first and not in the second.

**cache.** Two tasks, one key, two values, two migrations of which the second
comes with a later release. One task reads an expired row while the other replaces
it, is cancelled between its INSERT and its COMMIT, or loses its change to a crash;
each start-up may be killed between any two statements. With a time to live of one
tick a row is valid, in its last moment, and expired. `HonestHits` compares what is
served with the history of what was put, `Settles` says that a transaction left
open, which holds the write lock of the file, is ended by the cleanup's commit.

**clients.** Two tasks that authenticate, one of which waits behind the other's
fetch, and one download, on a client that is closed at any moment. A time to live of
two ticks lets keys be replaced during a fetch, after it and at the very end of
their time; one redirect and two bytes are enough to reach both limits in each of
three attempts. `SharedClient` allows what the code does at shutdown: a task that
asks for a client while `close_client` awaits gets a new one, which is then
forgotten, open; the property says that this is the only leak, of one client, and
that before the shutdown there is none. `FetchOnlyWhenStale` is the second look
under the lock, through failures and disconnections of those ahead.

**descriptions.** Two requests that describe the image and two that delete it, each
kind beside its own, and one reader. The empty text is a second answer of the model:
it is cached, a hit from then on, and never saved. `DeletedOnce` counts replies
against executed saves: a deletion that timed out and was executed later, or two that
meet, must not be confirmed twice for one row. `RetryFromCache` says that whoever
comes after a save that failed or was refused is served from the cache.
Deadlock is not checked, as the requests may all be over.

**descriptions_missing.** One request of each of three kinds is enough: a row is
saved, the statement of a get or of a delete fails, and the answer is a 404.

## 5. Fairness

Weak fairness, action by action, and only where the code or its runtime gives it:

- *Time passes* (`Tick`, `Time`).
- *A task whose wait is over is resumed* (`Acquire`, `TakeTurn`, `WakeUp`,
  `StartCall`, `SecondPhase`, `Composed`, `StartWait`): the event loop is a FIFO queue.
- *Calls of services end*, with an answer or an error
  (`Answer \/ Retry \/ GiveUp`, `Create \/ CreateFails`, `Fetched \/ FetchFails`,
  `Proceed` of a download, `EndCall`, `Save`): the
  HTTP clients have timeouts and `retry_http` a bound, the fairness is on the
  disjunction, and nothing says which of the ends it is. `EndCall` is one action
  for all of them. For two libraries it is an assumption: that the database client
  comes back, and that `generate_content` does. The latter is called synchronously
  from a coroutine (`describer.py:151`), without a timeout: until it returns the
  whole event loop stands still, which also keeps the request's timeout from firing.
- *Sleeps and timeouts end and a cancellation is delivered* (`PollWake`,
  `DrainTimeout`, `CleanupCancelled`, `Close`).

- *The cleanup task's statements succeed now and then* (`CleanUp`,
  `CleanUpCommit` of `Cache`, strongly fair): the loop sleeps, deletes and commits
  for as long as the process serves, errors are logged and it goes on. The model
  does not bound errors; it excludes a database that never works again.

Nothing is promised about callers (they may never come back), about requests in
`Server` (a handler may hang: `ShutdownCompletes` must not need them), about
when the process is told to stop, or about answers in `SafeCall`. `Descriptions`
states no fairness: what it says is safety only.
`CooldownEnds` needs the clock alone: the calls in flight can extend an opening
only finitely often, as no call is let through meanwhile.

In `SupabaseProbe` the environment is part of the property: the probe is made on
time and work keeps coming, and while the database is up an operation succeeds.

## 6. What is proved

All theorems hold for every value of the constants that satisfies the named
assumptions: any threshold and cooldown above zero, any finite set of callers or
requests, any batch size, number of polls and permits, any backoff, any number of
migrations. TLC evaluates the assumptions in every run.

| Theorem | States | Argument |
|---|---|---|
| `SafeCallProofs!TypeCorrect`, `BreakerCoherent`, `OpensOnConsecutiveFailures`, `OvershootBounded` | the safety of one breaker | `IInv` = TypeOK, Coherent, OvershootBound and `StreakBacksCount`: below the threshold the count never exceeds the streak, from it on the streak has reached the threshold. Without it ArmedByStreak is not inductive: the step that arms the breaker knows the count only. |
| `ComposerProofs!TypeCorrect`, `EveryGapExplained`, `EveryEndClean` | the safety of the pipeline | `IInv` is TypeOK and, for each request, `WarningsExact` (at every moment, not only in a response, the warnings are those of the tasks that ended as gaps), `CallsAtStage` (which tasks exist at each stage) and `AccountAtStage` (what has been counted, saved and replied at each). That no module is warned of twice, part of TypeOK, needs all three: a task can end only once, and only in its phase. |
| `ComposerProofs!Implementation` | the pipeline implements `SafeCall` for every service | The mapping gives each service its breaker, its streak and, as callers, the requests whose task for it is in flight. Each action is a `SafeCall` step for the service it is about and a stutter for the others; a cancellation is a `Cancel` for every service with a call in flight, each in its own instance. |
| `GeocoderProofs!TypeCorrect`, `AskedOneAtATime`, `AnswersArePaced` | types, mutual exclusion and the pause after an answer | `SleepsLongEnough`: what is left of a sleep and what has passed since the last answer add up to a second at least, also for the sleeps between retries. |
| `ServerProofs!TypeCorrect`, `CountersAreExact`, `DrainIsClean`, `DrainedBatchesIdle`, `EveryReplyAddsUp`, `NoItemStarts` | the safety of shutdown | `DrainInv` says what `lifespan` knows while it drains. Its heart: a wake-up that is on its way counts like one that was noticed, because nothing was in flight when it was sent and only probes have been admitted since. `BatchInv` ties results, permits and reply of a batch to where it stands. The counters are cardinalities, so the proof carries lemmas about what one request's move does to them. |
| `SupabaseProofs!TypeCorrect`, `CreatedOnce`, `HealthyClient`, `NoHerdFollows` | types, one creation, coherent state, no herd | `CoreType`, OneCreation and HealthyMeansNoFailures are inductive together: that no client is set while one is created needs the lock, and the second look under it. `HerdInv` adds that the calm is no shorter than the time since the last counted failure, and that whoever creates a client has waited out the base backoff. That the backoff never falls below its base needs powers of two to grow, an induction over data at first sight; the lemma `Powers` has it from the number of subsets of `1..n`. |
| `SupabaseProofs!CountingSaturates` | failures counted beyond `MaxCounted` change no backoff | The bound of the model on `_consecutive_failures`, which has none in the code, is thereby no restriction; `BackoffGrows` is the lemma. |
| `CacheProofs!NoMigrationIsLost`, `StartUpEnds` | applied migrations stay, a start-up runs down | `SchemaInv` says that the connection has recorded at least what the disk has, so that a commit only adds. A start-up takes three steps for every migration that is pending; the tasks and the cleanup do not touch the schema. |
| `CacheProofs!TypeCorrect`, `RecordsAreTrue`, `ServedWhenMigrated`, `HitsAreHonest` | the safety of the cache, with crashes anywhere | `SchemaInv`: connection and disk agree on the schema except for a version just recorded; in both, what is recorded has been run and has no gaps. `LifeInv`: every copy of a row (on disk, in the open transaction, in a reader's hands) has no longer to live than its value may be served; a commit, a rollback or a crash only moves rows between copies, and time takes the same from all of them. |
| `ClientsProofs!TypeCorrect`, `ClientIsShared`, `KeysAreRecent`, `KeysFetchedOnce` | the HTTP client, the key set and the downloads | `ClientInv` counts clients by how far the shutdown has come, which is why three are the most there can be; `KeysInv` says that keys which have been replaced were replaced after the clock reading they are dated by; `LockInv` that only the owner of the lock fetches. |
| `DescriptionsProofs!TypeCorrect`, `DeletionsPaid`, `RetryIsServed` | deletions and the cache | `CountInv`: executed deletions that found a row, and the row itself if there is one, are no more than the executed saves; each confirmed deletion is one of these. A text that has come to its save is in the cache, or the cache has failed. |

**Locks.** `GeocoderProofs`, `SupabaseProofs` and `ClientsProofs` each prove
`LineIsExact` (exactly the tasks that wait stand in the queue, each once) and
`LockIsFair == Spec => Fair!Spec`. `FairLock` has no queue, only who waits and the
relation of who came first; the mapping reads the relation off the queue's
positions. A free lock is therefore always the longest waiter's to take, whoever
failed, found nothing to do when its turn came, or was cancelled in the middle of
the line. A lost waiter, one that waits without an entry or an entry that nobody
waits for, contradicts `LineIsExact`; being overtaken contradicts `LockIsFair`.

**Every breaker.** `Composer` implements `SafeCall` for each service, so what is
proved of one breaker should hold of each. `EveryBreakerSafe` and
`EveryOpeningEnds` carry that out: `Service` is an arbitrary service, `One` an
instance of `SafeCallProofs` under the refinement mapping, and the lemmas proved
there are applied to it.

**What lies beneath the liveness properties.** Liveness itself is out of the
prover's reach, but most of what makes it true is safety: a number that every step
of the one concerned lowers and that nobody else raises. With the fairness of
section 5 a number of that kind cannot be lowered forever.

| Theorem | The number | Beneath |
|---|---|---|
| `SafeCallProofs!OpeningsEnd` | the cooldown left and one more for each call let through: a late failure that sets the deadline anew has used up its call | CooldownEnds |
| `ComposerProofs!RequestsComeToAnEnd` | two for each task that is to start, one for each in flight, the stages ahead: at most two for each service and three from the request's beginning | RequestsEnd |
| `GeocoderProofs!LockIsHeldBriefly` | the holder's sleep, attempts and pauses, not the ticks of a fetch under way, which ends by fairness alone; with `LockIsFair`, every place in the line costs so much and no more | EveryoneServed |
| `ServerProofs!ShutdownEnds` | polls left, where the wait stands, what is to be closed: requests can wake the wait up and nothing else | ShutdownCompletes |
| `ClientsProofs!DownloadsComeToAnEnd` | attempts, redirects and bytes that are left | EveryoneEnds |
| `CacheProofs!StartUpEnds` | three for each pending migration | that the process comes to serve |
| `DescriptionsProofs!RequestsComeToAnEnd` | stages and attempts that are left; besides, that an answer is final and a statement is sent and executed once | that the model is called three times at most |

Every proof shows the invariant for the initial states, then action by action, and
combines these in one temporal step. They rest on the named assumptions, the
library's facts about finite sets and sequences, and nothing else.

**Model-checked only.**

- Liveness: CooldownEnds, RequestsEnd, EveryoneServed, ShutdownCompletes,
  WaitersProceed, Reconnects, Settles, EveryoneEnds. Reasoning about fairness and
  ENABLED is outside what the prover supports; the last table says which part of
  them is proved. For WaitersProceed that is the fairness of the lock alone: how long
  a creation takes is the database's affair. For Reconnects and Settles it is
  nothing, since what they say rests on the fairness of the environment.

Every safety property of a passing run, type invariants included, is a theorem.

## 7. What the code does against its documents

Each of these is a run that TLC finds violated; `PROJECT.json` ("findings") quotes
the lines.

1. `composer_context`: one breaker per service is documented, opening after five
   failures. The one for the search service cannot see its failures, which
   `research_context` turns into empty results (`context.py:66`).
2. `supabase_reconnect`: a reset is documented to make the next call create a new
   client. `ping` takes the refusal during a backoff for a failure and re-arms the
   backoff; a probe more often than the longest backoff keeps the client from ever
   coming back (`supabase.py:127`).
3. `descriptions_missing`: the 404 of get and delete is documented as "no
   description with that ID". The operations turn every error but a
   `ConnectionError` into the value that means no row (`supabase.py:171`), so that
   a database which fails is reported as a description that does not exist.

Seen while modelling, each decided by one or two lines of the code and without a
run:

- A success that is recorded late closes an open breaker before its cooldown is over
  (`circuit_breaker.py:58`); `SafeCall` has the step.
- One request a second is documented for the geocoder. After a request that failed
  for good or was cancelled the next one is made at once, since
  `_last_request_time` is set after successes only (`geocoder.py:63`).
- Interrupted items of a batch are recognised by a word in their error's text, which
  other errors may contain (`routes.py:302`).
- The batch endpoint is described as processing its items in parallel
  (`routes.py:226`, `BATCH_CONCURRENCY` in the repository's README), and its loop
  awaits each item before it starts the next (`routes.py:298`). In `Server` an item
  never waits for the semaphore for that reason.

## 8. What is not modelled

- *Tokens and API keys*: how one is verified changes nothing; only the need for the
  provider's keys is modelled.
- *Addresses*: which targets of a download are acceptable is a choice of `Download`,
  and so is whether an error is transient. The delays between its attempts have no
  length (those of the geocoder do).
- *Cache statistics and `ping`*: they read; the hit and miss counters decide
  nothing. A SELECT and the fetch of its row are one step, and a migration's script
  is one statement, as the only one there is.
- *Two processes on one cache file*: each has its own connection, and the second
  sees errors, which `Cache` has, and the first one's commits, which it has not.
- *Land cover, context and mission* beyond how their calls end: percentages, image
  resizing, prompts and the parsing of answers are functions of one answer.
- *Pages, filters and columns* of the read and log endpoints: one image stands for
  all, as rows do not interact.
- *What is in the health endpoints' bodies*: a table over one moment's statuses; that
  asking for them changes a breaker is `GetStatus` of `SafeCall`.
- *A cached text and a row that differ*: two requests for one image may leave
  different texts in the two places. `Descriptions` has this behaviour; no document
  says that they agree.
- *Schemas, configuration, error bodies, logging, rate limiting*: declarative,
  output only, or a library's.
- *Wall clock set back*: the breaker takes its deadline from `time.time()`; a
  clock that is set back prolongs a cooldown. The models' clock only goes forward.
- *Cancellation inside `finally` and `async with` exits*: these contain no await
  that suspends (the in-flight lock is never found taken), so none can occur
  there.
- *The order in which a cancelled request ends*: `BaseHTTPMiddleware` runs the
  endpoint in a task of its own, so that the middleware's `finally` may count a
  cancelled request out just before its endpoint has ended. In `Server` the item
  ends first.
- *A start-up that fails*: `lifespan` before its `yield` is one initial state.

The models are not composed into one: `Composer` sees the database as a save that
succeeds, fails or raises, the geocoder as a service with its endings, `Server` sees
an item of a batch as something that ends with an outcome, and `Descriptions` the
cache and the database client as something that does its part or fails. Each of
these summaries is what the component's own model allows.

## 9. Plan

Done: `CircuitBreaker`, `SafeCall`, `Composer` with its refinement, `Geocoder`,
`Server`, `Supabase`, `SupabaseProbe`, `Cache`, `HttpClient`, `Auth`, `Download`,
`Clients`, `Descriptions`, `FairLock` with its three implementations, and the proofs
of section 6.

What would come next:

1. `Server` with `Clients`: the request that outlives the drain is the one that
   meets the closed client. In `Clients` the closing comes at any moment, which
   includes that one.
2. The pure functions: land-cover percentages (their rounding and their sum), the
   table of health statuses, retry delays, each against a reference definition on
   bounded inputs.
3. A wall clock that is set back, for the breaker and the cache.
