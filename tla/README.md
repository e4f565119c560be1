# kd39: a verification development

kd39 is a set of C++20 processes: an access gateway that takes HTTP and
WebSocket requests and calls gRPC services, three such services
(configuration, users, game rooms), and the infrastructure they share
(stand-ins for Redis, MySQL, etcd and a message queue). This directory holds
TLA+ models of the parts of it that run concurrently or fail, the TLC
configurations that check them and the proofs that TLAPS checks. Smaller parts
that share no state with the rest (governors, administration and tokens,
the life of a process, logger, load generator, texts of keys) are checked
together in one run.

    tlc -workers 2 -config ConfigService.cfg MCConfigService
    tlapm ConfigServiceProofs.tla

`PROJECT.json` lists for every definition the source lines it models, for
every run what it checks, and for every property a plausible change of the
code that breaks it. These changed forms stand in the modules, each marked
`Mutant of ...`; no specification uses them.

## 1. The system

### Components, their state and operations

| component | state | operations | module |
| --- | --- | --- | --- |
| HTTP/WebSocket server (`gateways/access_gateway/http`) | `running_`, acceptor, one accept context and thread, a context and a thread per worker, round-robin index, the sessions' coroutines | `Start`, `Stop`, `AcceptLoop`, `HandleSession` | `HttpServer` |
| Gateway routing, per request (`routing/grpc_router.cpp`) | runtime configuration, a limiter and a breaker per service, the attempts of each request | `RouteWithStatusAsync`, `InvokeWithResilienceAsync`, `UpdateRuntimeConfig` | `ResilientInvoke` |
| Gateway routing, threads | `grpc_running_`, the shared gRPC context, 1 to 4 threads | `StartGrpcWorkers`, `StopGrpcWorkers` | `RouterWorkers` |
| Circuit breaker (`framework/governance`) | state, failure count, time of opening | `AllowRequest`, `RecordSuccess`, `RecordFailure` | `CircuitBreaker` |
| Rate limiter | tokens, time of the last refill | `Allow` | `TokenBucket`, `RateWindow`, `Governance` |
| Application (`framework/app`) | `g_running`, condition variable, hooks | `Run`, the signal handler | `Application` |
| Configuration service (`services/config_service`) | version counter, table; Redis, MySQL, etcd, queue | `PublishConfig`, `GetConfig`, `BatchGetConfig`, `WatchConfig` | `ConfigService` |
| User service (`services/user_service`) | identity counter, table; Redis, MySQL | `CreateUser`, `GetUser` | `UserService`, `UserDirectory` |
| Game service (`services/game_service`) | room counter, rooms; Redis | `CreateRoom`, `JoinRoom` | `GameRooms` |
| Coordination (`infrastructure/coordination/impl/etcd`) | one state per endpoints, kept by weak pointers: instances, key values, watchers of both, locks, leaders | `Register`, `Deregister`, `Resolve`, `Watch`, the provider's `Put`, `Get` and `Watch` (`WatchKey`), `TryLock`, `Unlock`, `Campaign` | `EtcdState` |
| Message queue (`infrastructure/mq/core`) | a deque per topic; each consumer's thread and flag | `Publish`, `Pop`, `Start`, `Stop` | `MessageBus` |
| Redis client, MySQL pool (`infrastructure/storage`) | maps under one mutex each | `Get`, `Set`, `FindRows`, `UpsertRow`, ... | atomic steps of the services; the texts of keys in `StoreKeys` |
| Administration (`POST /admin/runtime-config`) | a handler's copy of the runtime configuration | `GetRuntimeConfig`, merge, `UpdateRuntimeConfig` | `AdminConfig` |
| Authentication (`gateways/access_gateway/auth`) | none; options, the clock | `Authenticate`, `Base64UrlEncode`, `Base64UrlDecode` | `AuthMiddleware` |
| Logger (`common/log`) | one logger per process, its level, the sink of the day, the files | `InitLogger`, `Raw`, `sink_it_`, `SetLogLevel` | `Logger` |
| Load generator (`bench`) | the next request number, successes, errors and latencies of each pool of workers | `RunMixedBench`, `RunHttpBench`, `RunWsBench` | `LoadBench` |

### How they interact

A connection is accepted by the accept thread and moved to a worker's context.
The worker's coroutine answers it or awaits the router. The router's
coroutine goes through the limiter and the breaker of the downstream service,
which all requests share, and awaits a gRPC call that one of the router's own
threads completes. A service handles calls in parallel and touches its stores
one after the other, each under the store's own lock. The configuration
service publishes an event for each change; the user service's consumer polls
for it on a thread of its own. The processes register with the coordination
state and the gateway resolves through it. The gateway's `main` registers
`Stop` of the HTTP server as a shutdown hook of the application. Every process logs from
all its threads through one logger; an administrator's request is handled by the
workers of the HTTP server like any other and writes what the router's requests
copy.

### What is hard in it

- handlers of a service interleave between stores (configuration, user), and
  lookups write too, because they fill caches;
- the gateway retries calls that may have been executed, and JoinRoom and
  CreateRoom are not idempotent;
- limiter and breaker are shared by requests that are suspended for long, so
  outcomes arrive late and out of order;
- threads share flags and contexts without locks: the run/reset loop of the
  router, the shutdown of the HTTP server, the signal handler;
- what looks persistent in the coordination stand-in has the life of a local
  variable;
- a record has its time before it has its turn in the log file, and a change of
  the log level, or of the runtime configuration, is several steps.

`PROJECT.json`, "hazards", lists each of these at its line with the property
that watches it, or the reason why none does.

### What makes each component correct

The properties are stated, with a comment each, at the end of the modules.
In short: a breaker is closed exactly below its threshold and respects a whole
cool-down (`CircuitBreaker`); no window admits more than its refill and the
burst (`RateWindow`); a request is executed no more often than the attempts it
started with and its answer means what it says (`ResilientInvoke`); a call is
never forgotten by the threads (`RouterWorkers`); no thread and no connection
outlives the context it runs on, save a connection that waits in the router, and
Stop returns (`HttpServer`); hooks run once, in order, and are
not cut short (`Application`); versions, lookups and events of the
configuration service agree (`ConfigService`); the user service cannot be told
from one table (`UserService`); rooms are never overfull and answers stay true
(`GameRooms`); one coordination state is alive at a time and its watchers are
up to date (`EtcdState`); no message is lost, doubled or reordered
(`MessageBus`); an administrator's fields stay as asked unless an overlapping
request set them back (`AdminConfig`); decoding gives back what was encoded, or
nothing (`AuthMiddleware`); records stay in the files until rotation has to
drop them (`Logger`); the report of the load generator adds up (`LoadBench`);
an entry and its text go together (`StoreKeys`).

## 2. The modules

An action is the code between two points where another thread or coroutine can
come in: a locked section, a step on an atomic or on a store, or the code
between two awaits. Where a handler makes several such steps it has a program
counter, and the steps have names. Variables keep the names of the members
they stand for.

**CircuitBreaker** One action per operation and outcome (`AllowGranted`,
`AllowRefused`, `RecordSuccess`, `RecordFailure`) and a clock. Instead of
`opened_at_` the time since is kept, capped at the cool-down, where the code
no longer tells values apart. The failure count is capped at the threshold
for the same reason; `sinceFailure` is a history variable.

**TokenBucket, RateWindow** The bucket counts in units of 1/`Unit` token, so that
rates that are no whole number of tokens per tick are integers; refill and
admission are one locked action. `RateWindow` adds an observer that may open a
window at any moment and counts what was admitted in it. Rounding of doubles
is not modelled.

**Governance** The breaker and the bucket side by side, as the router's
constructor builds them for each service: their calls interleave and they share
the clock.

**ResilientInvoke** composes both through `INSTANCE` with the requests of one
service. A request copies the runtime configuration (`Arrive`), asks the limiter
(in `Arrive`'s successor steps), asks the breaker, and goes round the loop
of attempts. A call travels as a member of `inbound`: it can be lost, answered,
answered too late, or executed after the gateway gave it up. An administrator
may change the number of attempts at any moment, a service may degrade and
recover.

**RouterWorkers** The loop of the gRPC threads and the destructor, at the
grain of one access to `grpc_running_` or to the context. The initial state
chooses which of the worker slots are used, as `DefaultGrpcThreadCount` does
after the machine; `Alone` is the case of one. The context belongs
to a library: `run` works until the context is stopped, running out of work
stops it, `reset` makes it ready again whoever stopped it.

**HttpServer** Three kinds of actors: the accept thread, the sessions on their
workers, and the thread that calls `Stop`, whose eight statements are eight
actions. What a request contains is abstracted to the way its handling goes: an
answer on the spot, a call of the router, an upgrade, or an exception. The
router is what `ResilientInvoke` shows of it: an answer, later. `home` is the
context a connection was handed to, told apart by the `Start` that made it, so
that a connection may be left on one that Stop has destroyed (`HasContext`). That
happens to those that wait in the router (`InRouter`): the last step of Stop
leaves them where they are, and their answer ends in `stray`, a stage for what
the model follows no further.

**Application** `Run` with the test and the wait of the condition variable as
two steps, because the handler does not take the mutex, and the handler's two
statements on any thread.

**ConfigService** A version stands for an entry, since each publication has its
own. A publication writes table, MySQL, Redis, etcd and queue in that order; a
lookup reads Redis, MySQL and the table and fills Redis and the table from
MySQL. The constant `Deps` says which stores are configured, as the
constructor's argument does. Lookups ask for environment `dev`, as `GetConfig`
does, so `DevKeys` are the keys a lookup can name.

**UserService, UserDirectory** `UserDirectory` is the promise: calls take effect
at one instant, identities are new. `UserService` is the code, store by store.
The refinement mapping makes the table in memory the directory.

**GameRooms** The service with the gateway's retries in front and a network
that delays and loses. `JoinRoom` is one locked action; `CreateRoom` is three.

**EtcdState** Every call of the stand-in is GetState, a locked section, and the
release of the local pointer, in this order; an object nobody holds is dead
and its identity may be taken by a new one.

**MessageBus** Messages of a topic are numbered in the order of publication. The
worker of a consumer checks its flag, pops a batch per subscribed topic,
handles it and sleeps if there was nothing.

**AuthMiddleware** `Authenticate` as a function of token, options and clock, with
base64url down to characters and bytes, because what it accepts depends on
lengths. Decoding is a closed form: the code refuses a text one of whose groups
holds padding, so each group it accepts gives three bytes. The JSON library is
kept to the kinds of a member's value; a signature is the key it was made with.

**AdminConfig** The handler in its three sections under the router's lock: read,
write, read for the answer. What a request does not name it writes back as it
read it. The histories say what the requests would have made of the
configuration one after the other, and which fields an overlap set back.

**Logger** The main thread reads its configuration file and initialises the
logger; threads make records (`Stamp`) which reach the sink later (`Sink`); midnight
comes at any time. The sink of the day is the repository's, the rotating files
below it are spdlog's: rotation on opening, and when a record does not fit. A file
is the sequence of its records, each the number it has among those of its day.
`SetLogLevel` is two steps.

**LoadBench** The split of a mixed run with its rounding, then two pools of workers,
each drawing numbers from its own counter. An HTTP worker turns a failure into
an error and goes on; a WebSocket worker ends with it.

**StoreKeys** What `ConfigService` takes as a name, spelled as the code spells it:
the texts of the keys of the four stores, as sequences of characters, with the
composite key of `UpsertRow` (its loop over the three key fields of
`config_entries` is written out) and the filters of `FindRows`. What the words are
made of, and what separates them, are constants.

**ProcessParts** The last five modules, `Governance` and `Application` side by
side. They share no state, so a behaviour follows the steps of one of them
(the variable `part`) and the states of the parts add up instead of multiplying.

`MC*` modules extend a module with the symmetry or the structured constants its
runs need, and define nothing else. `*Proofs` modules extend the module they
are named after with its inductive invariant and its theorems.

## 3. The runs

| run | question | distinct states |
| --- | --- | --- |
| process_parts | each of the parts of `ProcessParts` in any order of its own steps: the breaker with the router's threshold and windows of up to 7 ticks opened at any moment; two administrators; base64url of up to four bytes; signals on three threads; the logger over a midnight; the load generator in every mode; keys of entries | 431k |
| invoke_safety | two requests, administrator, degrading service: executions and answers | 832k |
| invoke_liveness | every request is answered; the breaker recovers | 100k |
| router_workers | one to three threads under each other's stop and reset: calls complete, a thread that is alone does not lose the destructor's stop for good, and the destructor returns | 115k |
| http_server | two connections, two workers, two starts: nothing outlives its context but connections that wait in the router, connections are served, Stop returns | 131k |
| config | two publishers, a lookup, a watcher, two keys, every store | 1.2M |
| user_service | three handlers against the directory | 35k |
| game_rooms | two players, two rooms, sizes 0 to 2, with a name or without, retries | 3.4M |
| etcd_state | two clients in any calls | 318k |
| message_bus | two consumers competing, started and stopped: nothing lost, everything handled | 268k |
| application_one_signal | a violation: see below | |
| jwt_accepted | a violation: see below | |

`application_one_signal` checks a statement the code does not keep.
`framework/app/application.h:19` says that `Run` blocks until a termination
signal is received and then runs the hooks. The handler stores the flag and
notifies without taking the mutex; when both fall between `Run`'s test of the
predicate and its wait, the notification is lost and `Run` waits for ever
(`SignalEndsRun`). A later signal ends it, which is what `RepeatedSignalStops` of
process_parts says.

`jwt_accepted` checks that a genuine JWT is let in, which is what
`docs/services/access-gateway-architecture.md:24` says of the middleware ("JWT +
legacy token"). `Base64UrlDecode` pads its input to whole groups of four
characters, marks padding with -2, and writes no byte for it (lines 51-53, 60-61
and 73-74 of `auth_middleware.cpp`), but the test in line 62 refuses whatever is
below -1. So a token is refused whenever the length of its header or of its
payload is not a multiple of three bytes (`GenuineTokenAccepted`; the
counterexample is the initial state). What does come back is right:
`DecodedIsEncoded` of process_parts.

The proofs establish the types of each component's state. One type invariant that
relates state is checked in a run as well (`EtcdState`): who is inside a call holds an object, and
objects nobody holds are as new.

### Behaviours the models contain and the properties go around

These follow from the code as it is. The properties state what holds in spite of
them, and their comments say where they stop.

- *Configuration, overlapping publications.* The stores of a publication are
  written one by one, so two publications of a key can leave Redis with the
  older one, and a lookup that copies a row it read before can put an older
  entry into Redis and the table. A lookup after the answer to a publication
  then returns something older. `QuietKeyAgrees` is stated for keys whose
  operations never overlapped; `OwnVersions`, `FoundStaysFound` and
  `EventAfterStores` hold for all.
- *Configuration, watchers.* Versions are taken before the table is locked, so
  a newer version can come to the table before an older one, and a watcher that
  asks on from the newest never receives the older. `WatchIsComplete` excludes
  behaviours in which versions crossed.
- *Rooms, retries.* `JoinRoom` tests for space before membership. A join whose
  answer was lost, retried by the gateway, can be told that the room is full
  although the player is in it. `AnswerStaysTrue` is about the answers `OK`.
- *Coordination.* `GetState` keeps weak pointers only, and each call holds the
  only strong one in a local variable. What was registered, locked or won dies
  when no call is inside: `Resolve` after `Register` returns nothing, and a lock
  can be granted to a second client. `OneLiveState`, `WatchersUpToDate` and
  `OneLeaderPerState` are about the life of one state.
- *WebSocket messages.* A message with a JSON member of an unexpected type throws,
  nothing catches, and the session ends without an answer (stage `wsThrown`).
  `ConnectionServed` does not forbid it: it counts a connection as served when its
  session has ended, and when it has become a WebSocket.
- *Breaker.* Every status but `OK` counts as a failure, `NOT_FOUND` and
  `INVALID_ARGUMENT` among them: five lookups of unknown keys close the way to a
  healthy service for a cool-down (`Answers` has `APP_ERROR` for them).
- *Administrators.* Two requests at once, each naming one field, can leave the
  older value in the field of the first, and its answer may have shown the newer
  one. `LastAskedInForce` leaves these fields out until they are named again.
- *Log files.* Records made on both sides of midnight can reach the sink in the
  other order; each return to a day rotates that day's files, and after
  `max_files` returns records are gone although little was written.
  `RecordsKept` counts the returns.
- *Log options.* A missing configuration file is reported through the logger,
  which builds it from default options; `InitLogger` then comes too late with what
  the environment says (`common/log/logger.h:22` speaks of the first call of
  `InitLogger`, and this is none).
- *Load generator.* With one worker for both protocols the HTTP half is left out
  without a word. When every WebSocket worker has failed, the requests nobody drew
  are not counted, and their latencies are zeros in the percentiles. A
  connection that fails when it is closed counts an error beside its requests.
- *Texts of keys.* `TextIsName` is about fields without separators. With one in a
  namespace or a key two entries may share a text, in all stores.
- *Router threads.* With two or more gRPC threads the destructor of the router
  may never return: a thread's `reset` can follow the destructor's `stop`, after
  which another one runs an idle context for ever. `LoneThreadStops` and
  `DestructorReturns` are stated for one thread, which is what the code starts on
  a machine with up to three cores; `CallCompletes` holds for any number checked.

- *Sessions in the router.* Stop waits for its threads and for nothing else. A
  session suspended in `RouteWithStatusAsync` (`http_server.cpp:407` and `:484`)
  is not on the stack of any thread, and `worker_io_contexts_.clear()` (line 163)
  destroys the context it is to be resumed on; the router's answer, which may
  come until the router itself is destroyed, then posts to a context that is gone.
  `ContextsOutliveSessions` leaves out the sessions in the router and holds for
  all others.

### Bounds, and why they are enough

Two of everything that interleaves is what the hazards need: they are races of
two publications, of a lookup and a publication, of two joins on a last place,
of a worker and the thread that stops it. Three are taken where the third
plays a role of its own: three handlers of the user service, so that a fill
meets a creation and another lookup; three publications, so that two can
overlap and a third come after them, or a cache be stale by two; three
messages with batches of two, so that a batch leaves something behind. Two starts
of the server let a connection of the first meet the contexts of the second.
Counters are bounded in the guards, each bound a constant named in its
module: `MaxVersion`, `MaxUsers`, `MaxRooms`, `MaxPublished`, `MaxStarts`,
`MaxAttempts`, `MaxWindow`; `MaxBytes`, `MaxNow`, `MaxDay`, `MaxRecords`,
`MaxRequests`, `MaxConcurrency`. Reaching a bound only disables further beginnings;
what has begun goes on. Four bytes are a whole group and the first
remainder of the next; six records in files of two with one file kept make
rotation drop some, over days that change back and forth; four requests and
three workers at five ratios give every rounding of the split, with a pool
that gains or loses its only worker. The breaker's threshold is the router's 5 in process_parts
and 2 in the composition, where two requests with two attempts must reach it.

Deadlock is checked except where the system may stop: a process that has ended
(`Application` and the other parts of process_parts), a server that was stopped or could not bind (`HttpServer`), and a
destructor that waits (`RouterWorkers` with more than one thread, above).

Symmetry is used in runs of invariants only, over sets whose members the
specification never tells apart.

### Fairness

Fairness is assumed of what the operating system and the libraries run: threads
are scheduled, a timer or deadline fires, a lock that is free is taken. Weak
fairness suffices throughout.

- `ResilientInvoke`: each request's own steps (its deadline and its backoff timer are
  among them), a live service's execution of what reached it, the clock. No
  failure, recovery or administrator is forced. `BreakerRecovers` assumes that
  requests keep coming, which its comment says.
- `RouterWorkers`: the threads, and each call a thread in `run` can complete.
- `HttpServer`: the accept thread, the workers, the awaits of a session (every
  stream has an expiry), the router's answer, and a Stop that has begun.
  A WebSocket may wait for a message for ever: pings keep it alive.
- `MessageBus`: the consumers' threads and a join that can succeed.
- `Application`: `Run` and a handler that was entered. No signal has to come.
- `LoadBench`: its threads; every call it makes is answered, fails, or closes.

Starting, stopping, publishing and calling are never forced.

## 4. The proofs

TLAPS checks these for every value of the constants that the named assumptions
of the modules admit: any sets of clients, players, publishers, consumers,
connections, keys and stores, any limits.

| theorem | statement |
| --- | --- |
| **GameRoomsProofs** `TypeCorrect` | types |
| `RoomsNeverOverfull` | `NeverOverfull` |
| `AnswersStayTrue` | `AnswerStaysTrue` |
| **EtcdStateProofs** `TypeCorrect` | `TypeOK`: who is inside holds an object, and objects nobody holds are as new |
| `AtMostOneLiveState` | `OneLiveState` |
| `WatchersAreUpToDate` | `WatchersUpToDate` |
| `AtMostOneLeader` | `OneLeaderPerState` |
| **MessageBusProofs** `TypeCorrect` | types |
| `EveryMessageInOnePlace` | `ExactlyOnePlace` |
| `MessagesInOrder` | `InOrder` |
| **HttpServerProofs** `TypeCorrect` | types |
| `ContextsOutlive` | `ContextsOutliveSessions` |
| **ResilientInvokeProofs** `TypeCorrect` | types |
| `DuplicatesBounded` | `ExecutionsBounded` |
| `AnswersMean` | `AnswerMeaning` |
| `GovernorsUsed` | the gateway implements `CircuitBreaker!Spec`, and each of its steps is one of the bucket or leaves it alone |
| `AdmissionsWatched` | an observer who counts what gets past the limiter of the gateway sees a behaviour of `RateWindow` |
| `StopReachesLoneThread` | `LoneThreadStops` of `RouterWorkers` |
| **ConfigServiceProofs** `ConfigType` | types |
| `VersionsOwned` | `OwnVersions` |
| `NeverLost` | `FoundStaysFound` |
| `EventLast` | `EventAfterStores` |
| `StoresAgree` | `QuietKeyAgrees` |
| `WatchersMissNothing` | `WatchIsComplete` |
| **UserServiceProofs** `UserType` | types |
| `UserStores` | `IdentityIsFree`, `StoresAgree` |
| `ServiceIsDirectory` | `ImplementsDirectory`: the service implements `UserDirectory` |
| **ProcessPartsProofs** `BreakerInvariant` | types, `ClosedBelowThreshold` |
| `HalfOpenReopens` | `HalfOpenFailureReopens` |
| `CoolDownRespected` | `CoolDownFromLastFailure` |
| `BucketType`, `WindowBound` | types; `AdmissionBound` |
| `LastAskedStays` | `LastAskedInForce` |
| `HooksRunToTheEnd`, `HooksAllRun` | `HooksNotCut`, `ShutdownComplete` |
| `LevelsAgree` | `LastSetWins` |
| `FilesBounded` | types; no day has more than `MaxFiles` files and the one being written |
| `RecordsStay` | `RecordsKept` |
| `DecodingInverts` | `DecodedIsEncoded` |
| `GenuineIfWhole` | a genuine token is accepted exactly if its header and its payload are whole groups of three bytes |
| `SplitStaffed`, `ReportsAddUp` | `PoolsStaffed`, `ReportAddsUp` |
| `TextsAreNames` | `TextIsName` |
| `PartsAreThemselves` | side by side each part behaves as it does alone |
| `PartsKeep` | the composition keeps the properties of its parts |

Each proof has an inductive invariant (`IInv`; in `ProcessPartsProofs`
`BreakerInv`, `BucketInv`, `AdminInv`, `LifeInv`, `LogInv`, `BenchInv` and
`KeysInv`): the initial state satisfies it, each action preserves it, by a
lemma or a step of its own, and the temporal step of the theorem combines
these facts. What the invariant has to say beyond the property is the argument.

*Rooms.* `NumbersOnce`: `next_room_id_` gives a number to one handler, and a
number not inserted yet stands for no room, so an insertion overwrites nobody's
room and a join that finds a room finds one with a size. `WorkOfRequest`: a
handler of `CreateRoom` works on what its player still asks for, although the
gateway may have given that attempt up and sent another. `AnnouncedExist`: what
a player could have learned of exists, since no room is ever removed;
this is what keeps an announced room from being answered `NOT_FOUND`.

*Coordination.* `HeldIsCurrent`: whoever is inside holds the object of the
table. It makes `OneLiveState` a consequence, and it is what the test of the
weak pointer in `GetState` preserves. `LeadingIsLeader` and `NothingToldYet`
tie what clients were told to the content of the live object; both
need that an object dies with its last holder and its successor is fresh.

*Message queue.* The properties speak of what a consumer handled, has in hand
and of what is queued. The proof restates them over `Has`, the first two of
these, since a step moves numbers from the deque to the batch and from the batch
to what is handled: every number in the deque is above all a consumer has of
that topic. Lemmas say what concatenation, and taking a batch from the front, do
to the elements and the order of a sequence.

*HTTP server.* `ThreadsOfOwner` and `ContextsExist` say which threads
and contexts exist at each of Stop's statements. `HomesExist`: a connection that is
on a worker and not in the router was handed over since the last Start, and there
is none between Stop's end and the next Start; the numbers of the starts tell
the contexts of two of them apart. The joins are what carries it: Stop clears the
contexts, and what is still on them, only after the accept thread and the
workers are gone. `BacklogListened` and `HeldOnce`, that a connection waits only at
an open listener and that one between accept and hand-over is in the hands of the
accept thread alone, leave none for a server that is down. Connections in the
router have only that the start of their context is no later than the last one
(`ContextsOutlive` says nothing more of them).

*Resilient invocation.* `ExecutionsBounded` says that the executions and the
calls still on their way are no more than the attempts made, and these no more
than the budget; to be inductive it needs beside it that the calls are finitely
many (`CallsFinite`), `AttemptsLeft` (nothing is sent before both governors
agreed, and then only with an attempt left) and `OutcomesEarned`: only an
execution makes a reply, and only a reply an outcome that says so.
`GovernorsUsed` is a refinement: the requests, wherever their coroutines
interleave, use the breaker by its operations alone, so `BreakerInvariant` and
`CoolDownRespected` hold of the breaker in the gateway. `AdmissionsWatched` does the
same for the limiter and its windows: a request that leaves the limiter towards the
breaker has been admitted by this bucket, once, and nothing else takes from it
(`PassesAdmitted`, `OthersTakeNothing`), so `WindowBound` holds of the gateway.

*Router threads.* `ThreadsInv`: `grpc_running_` falls with the first step of the
destructor and nothing raises it again. A lone thread that undoes the stop with its
reset is on its way to the test of that flag, so it does not enter the context
again; it is never inside one that nothing stops.

*Configuration.* `IInv` adds four conjuncts to the properties: a publication in
progress holds a version its key owns (`Publishing`); a lookup in progress that
copies has something to copy (`Getting`); a key that was in the table when a lookup
began is still there (`Promised`), for nothing is ever removed; and a
publication has left its key in each store it has passed (`Passed`). They hold
for any set of configured stores.

A second invariant, `QInv`, is proved on top of it for the two properties about
behaviours without an overlap. `QuietAlone`: on a key whose operations never
overlapped a publication has neither another publication nor a lookup beside
it. `QuietPublishing`: then the stores it has passed hold its version and the others
the newest answered one. `QuietGetting`: what a lookup copies is what
the stores agree on. `NewestLast`: if versions come to the table in the order they
were taken, the one that comes next is above all that is in the table, was
received by a watcher or may still be copied.

*Users.* `IInv` adds that identities at or above the counter are nowhere
(`Numbered`) and that a handler that writes has a profile to write (`Writing`).
From `StoresAgree` it follows that every write but the insertion leaves the
table as it is, so these steps are stutters of the directory, and that
a store that answers a lookup answers what the directory holds.

*Breaker.* `BreakerInv` adds that `opened_at_` is the time of the last failure
while the breaker is open. Without it the cool-down could run from an
earlier failure. That the count is not reset on the way to half-open is what
makes one failure enough: it is still at the threshold.

*Bucket.* The bound on admissions is not inductive, since a window may open with
any number of tokens. `BucketInv` adds `Conservation`: what the window admitted and
what the bucket could pay for now are together covered by the burst and the
earnings of the window. The product of rate and time makes this non-linear;
`EarnedGrows` isolates the only fact about it.

*Administrators.* `AdminInv` adds `CopiesUpToDate`: the copy of a request that
has not been written back yet agrees with what was asked for in every field that
was neither set since nor set back before. It is stated of sanitised values, for
the router does not sanitise the configuration it starts with: a copy of this
and what a later request made of it agree only after sanitising, which happens
to every field of every write (`SanitizedTwice`).

*Life of a process.* `LifeInv` says which handlers are installed at each step of
`Run`, so that a signal can kill only before the second is, and that the hooks that
ran are those above `nextHook`, in falling order.

*Logger.* `LogInv` says that the level of spdlog's default is always the last one
asked for, and that the level of the logger differs only while somebody is between
the two steps; and that the day being written has a file. For the records it
adds for each day (`FilesOf`): until more files were made than are kept
(`Overflowed`, a count of records and returns), every file but the current one is
full or was cut short by a return to the day, and rotation has dropped nothing
(`InFiles`). The lemmas say what opening, rotating and appending do to it.

*Encoding of tokens.* `GroupBack` takes one group: three bytes make four
characters, each a remainder of a quotient, which make the same three bytes again
(`FourSextets`, `ThreeOctets`). `DecodedBack` looks at the groups of a text one
by one, which the closed form of decoding allows without induction; a last group
that is not whole is padded, and padding is refused (`PaddingRefused`).
`GenuineIfWhole` carries this through `Authenticate`: it bounds from both sides
what `jwt_accepted` finds.

*Load generator.* `PoolInv` counts: a request that was drawn is measured and
counted, in somebody's hands, or lost with a worker that died, and a number is in
one pair of hands. `PoolsStaffed` follows from arithmetic about the rounded
split, for any ratio between 0 and 1.

*Texts of keys.* A text without separators ends where the first separator
stands (`CutAtSeparator`), so three fields can be read back from it
(`ThreeFields`) and two entries have two texts (`TextsDiffer`), for words of any
length. With that each store is the history of what was stored, under other names.

*Composition.* `PartsStep` shows each step of the process to be a step or a stutter
of each part, which makes every behaviour of `PartsSpec` one of every part
(`PartsAreThemselves`); the administrators' configuration is also read by the
authentication, and is proved for the composition (`AdminInParts`).

The type invariants of `GameRooms`, `MessageBus`, `ResilientInvoke`,
`ConfigService`, `UserService`, `HttpServer`, `CircuitBreaker`, `RateWindow` and
`Logger` are proved and not in a run. So are `HalfOpenFailureReopens`, which follows from
`ClosedBelowThreshold`, and `EventAfterStores` and `IdentityIsFree`,
which the proofs of `FoundStaysFound` and `StoresAgree` carry along.

Only model-checked is what must happen at last: `RequestAnswered`,
`BreakerRecovers`, `CallCompletes`, `DestructorReturns`, `ConnectionServed`,
`StopReturns`, `PublishedIsHandled`, `RepeatedSignalStops` and `BenchReports`.
Fairness is about ENABLED, which the prover does not treat. `AdmissionsWatched`
leaves the bound itself to `WindowBound`, which is proved of `RateWindow` once.

No module uses RECURSIVE operators.

## 5. What is not modelled

- Target resolution, routing tables and metadata: functions of their input that keep
  no state. Sessions take every outcome of them, and of the content of requests.
- Redis expiry and streams, the retry policy, the RPC interceptors: no program of
  the repository uses them.
- The context store: a slot per thread, set and read by the interceptors.
- Observability (stubs that log), error names, the syntax of configuration files,
  the command-line client, deployment, and of the load generator its percentiles
  and its report.
- Two processes over one real Redis, MySQL or etcd: in this repository each
  process has its own stand-ins.
- The data races inside library objects during `HttpServer::Stop` (the acceptor
  is closed by one thread and used by another): an accept is either aborted or
  was just completed.
- The shutdown of the gateway across `HttpServer` and `RouterWorkers`: `main` stops
  the server before it destroys the router, and the product of the two models,
  each of a hundred thousand states, is out of reach. Each says what the other
  one relies on: `StopReturns`, `CallCompletes`.

## 6. The plan

Done, in this order: governance, resilient invocation, configuration service,
coordination, message queue, application, user service, game service, router
threads, HTTP server, authentication, administration, logger, load generator, texts
of keys; proofs of every invariant and every step property that a run checks;
the refinements of the user service, of the breaker and of the limiter's windows in
the gateway, and of the parts in a process.

To do: the game service against an abstract room, as the user service against its
directory; an argument on paper for the liveness of `RouterWorkers` and of
`HttpServer` from their invariants, since the prover cannot carry it.
