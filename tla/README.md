# Formal models of shorty

shorty is a url shortener written in Go: an HTTP and a gRPC server over one set
of services, three interchangeable storages (memory, memory saved to a file,
PostgreSQL), and a queue that deletes urls in the background. This directory
holds TLA+ modules that model its components, TLC configurations that check
them on small instances, and proofs, checked by TLAPS, that hold for every value
of the constants. Paths below are relative to `src/`.

## 1. The system

| component | source | state it keeps | operations |
|---|---|---|---|
| delayed queue (flusher) | `internal/buffer/buffer.go` | the buffer, its size, `flushNeed`, `shutdown`, a channel of capacity one, a mutex | `Push` from every delete request; `Run`: a select over the channel, a timer and the context; `doFlush` calls back with the batch |
| memory storage | `internal/storage/memory` | a map from short path to record, a mutex | `Get`, `Store`, `StoreBatch`, `ListUserURLs`, `DeleteUserURLs`, `Dump`, `Stats` |
| file storage | `internal/storage/file` | a memory storage, `changed` and `shutdown` flags, a channel `done`, the file | the calls of the memory storage, each followed by a mark; the persister; `Close`; `New` loads the file |
| database storage | `internal/storage/database` | the table `urls` | one or two statements per call, batches in a transaction |
| shortener and resolver | `internal/services` | the queue | `Shorten` (draws paths until one is free), `ShortenBatch`, `DeleteBatch`, `GetAll`, `Resolve` |
| status service | `internal/services/status` | none | passes `Ping` and `Stats` on |
| HTTP transport | `internal/http` | per request: response writers of logging and compression, user and id in the context | request id, logging, compression, filter or session, handler |
| gRPC transport | `internal/grpc` | per request: user and id in the context | deadline, request id, logging, filter, session, handler |
| sessions | `internal/auth`, `internal/user`, `internal/session` | none: the client keeps a signed token for 24 hours | accept a token, or draw a user and sign one |
| ip filter | `internal/filter` | the trusted subnets | match peer, `X-Real-IP`, `X-Forwarded-For` |
| configuration | `internal/config`, `createStorage` in `internal/app/app.go` | the configuration | flags, file, merge, environment, checks, choice of the storage |
| application | `internal/app/app.go`, `cmd/shortener`, `Run` of the servers and of `internal/profiler` | a context, a wait group, an unbuffered error channel | start everything, wait for a signal or an error, cancel, wait, close the storage |
| static analysis | `cmd/staticlint`, `internal/analyzers` | none | build tools, not modelled |
| connections, generators | `internal/storage/database/config.go`, `internal/generators` | none | not modelled |
| generated code, mocks | `*.pb.go`, `internal/app/mockapp` | none | not modelled |

How they interact. A handler calls a service in its own goroutine; the service
calls the storage, and `DeleteBatch` pushes into the queue. The queue's runner
calls `deleteURLs` back with a batch, with the queue's mutex held, and that calls
the storage. The persister of the file storage is a goroutine of its own that
meets the calls at an atomic flag. `app.Run` shares one context with all of
them: its cancellation ends the servers, the queue and the persister, in no
order but the one that the wait group and `store.Close` impose.

What is hard in it, and what makes each part correct:

- **Queue.** Four shared variables, a channel that is sent to with the mutex held,
  flags that are tested outside of it. Every element that was taken is handed over
  once, in order; no full buffer is forgotten; the last flush has everything that
  was there before the shutdown; the queue makes progress.
- **Memory storage.** Readers see the map between critical sections; one of several
  stores of one path wins; a failing call changes nothing.
- **File storage.** The file is a prefix of one dump whatever crashed; a graceful
  stop saves what was acknowledged; `Close` returns; the flag tells the truth.
- **Shutdown of both.** The last flush of the queue calls a storage that stops on the
  same context: what is lost then, and whether the process ends.
- **Database and services.** Two statements of one call with others in between, a
  connection that fails after a commit, retries, deletions long after they
  were asked for: an answer leads to the url that was asked for, a deletion
  only hits older rows of its owner, an error has stored nothing. Over the memory
  deleted paths are given away again: a path leads to its url until its owner
  has it deleted.
- **Application.** Errors reported when nobody listens any more, handlers that
  outlive their server: the storage is closed last, the exit code says why,
  and the process ends.
- **Transport.** Two layers delay and rewrite the answer; sessions are made up on
  the way: status, body and effect agree, and an owner gets the token.
- **Configuration.** Three sources with one representation for "not given".

`PROJECT.json` lists the hazards line by line, each with the properties that
would catch it.

## 2. Modules

| module | models | kind |
|---|---|---|
| `DelayedQueue` | what the queue promises: take, refuse, hand over, close | abstract specification |
| `Flusher` | `buffer.go`, one action per step between two accesses to shared state | component, implements `DelayedQueue` |
| `FlusherProofs` | | proofs |
| `UrlMap` | the map of records and what each call does to it | operators |
| `UrlStore` | what a storage promises: atomic additions over free or deleted paths, and deletions | abstract specification |
| `MemoryStore` | `simple.go`: goroutines, mutex, loops step by step, the unlocked walk of `Stats` | component, implements `UrlStore` |
| `MemoryStoreProofs` | | proofs |
| `FileStore` | `file.go`: calls, persister, file operations with errors, `Close`, crash, restart | component over `UrlMap` |
| `FileShutdown` | queue and file storage, step by step, on one context, the flush callback between them | extends `FileStore`, instantiates `Flusher` |
| `FileStoreProofs` | the proofs about `FileStore`, then those about `FileShutdown` | proofs |
| `Database` | the statements, and the unique constraints they meet | operators |
| `DatabaseStore` | every method of `database.go`, statement by statement, with overwriting stores | component over `Database` |
| `DatabaseStoreProofs` | | proofs |
| `Shortener` | the services over the database and an abstract queue | composes `Database` and `DelayedQueue`, implements `UrlStore` |
| `ShortenerProofs` | | proofs |
| `MemoryShortener` | the services over the memory storage, each of whose calls is one step | component over `UrlMap` and `DelayedQueue`, implements `UrlStore` |
| `MemoryShortenerProofs` | | proofs |
| `AppLifecycle` | `app.Run`, the three servers, their listeners, handlers and the queue as seen from outside | component |
| `IPFilter` | `filter.go` | operators |
| `Transport` | middleware, interceptors, handlers, sessions; services end with any result | component over `IPFilter` |
| `TransportProofs` | | proofs |
| `Config` | `config.New` and `createStorage` | component |
| `AppProofs` | the proofs about `AppLifecycle` and about `Config` | proofs |
| `MC*` | the instances that TLC checks | |

How they correspond to the code. An action is one step of a goroutine between two
accesses to state that another can see; what a goroutine does with a lock
held is one action when nobody can look in between, and several when somebody
can (the loops of the memory storage, `doFlush` around its callback, a rewrite
of the file). The state variables have the names of the code's fields (`flushNeed`,
`fillChan`, `bufMux`, `changed`, `shutdown`, `done`). Variables marked *history* in
the modules (`early`, `delivered`, `dirty`, `missed`, `inflight`, `base`, `seen`, `born`,
`owners`, `told`) record what happened and are read by no guard. Data is abstracted to what the
properties tell apart: paths, urls, users and tokens are members of small
sets, a random path is any path, time is a small counter. Definitions marked as
*Mutant* are plausible bugs, used by no specification: with one of them in the
place of the definition it follows the property named in `PROJECT.json` fails.

Choices worth knowing:

- `Flusher` lets each call of `Push` happen once, as an element of its own.
- The timers of the queue and of the persister are made anew by `time.After` for every
  select (`buffer.go:84`, `file.go:147`), so `SelectTimer` loses to everything that is ready: a
  token, `Close`, a cancellation. Left out is a goroutine that is stalled for the whole interval
  between `time.After` and the select's look at its channels. A cancellation and a token
  that are both ready are taken in either order.
- `MemoryStore` lets `Stats` walk the map without the mutex, as the code does: it
  visits the records one by one, in any order, while others write; what was added
  behind it may be visited or not. A write meanwhile may abort the process
  (`fatal`), after which nothing happens.
- `FileStore.Boot` loads the file with `Loads`: a torn line or an url that does not
  parse makes the process refuse to start. `WriteSome` writes any part of a dump, so
  that a crash finds any part of it. `Crash` is possible in every state.
- `Shortener` uses one clock for `time.Now` in the service and the timestamp of the
  database; skew between two machines is not modelled. Length limits of the
  table's columns are not either. No service passes `overwrite`; `DatabaseStore` models
  that store, its lookup, and its update, which finds the row by the new orig. After
  a cancellation a flush may be executed or not; the last one gets a cancelled
  context and is not.
- `FileShutdown` is `Flusher` and `FileStore` as they are, in one state: a deletion is a
  call of the storage named by the batch it stands for, made while the queue's mutex
  is held. Hence the calls of `FileStore` are `StorageCalls` in its configuration, every
  batch there can be and every store. It has one life and no crash; those are
  `FileStore`'s.
- `MemoryShortener` follows what the memory does otherwise than the database: it
  stores an url twice, gives a deleted path away again, lists what is deleted,
  ignores the time of a deletion and the context, so the last flush is executed.
- `Transport` lets a service end with any result that `Shortener` or the other
  services can end with, and runs the chain of each protocol in its order. The
  response writers are operators on one record: `WriteHeader` of the compression
  decides by the content type set so far, the logging keeps the last status
  until the first byte (`FlushHeader`), and closing the compressor is on the way out.
- `Config` keeps one value for `""` and `false`, as `merge.go` does.

## 3. Runs

| run | instance | states | what it shows |
|---|---|---|---|
| `flusher` | four calls, flush size two | 12 882 | eight properties: exactly once, no lost wakeup, what was early is delivered, the batch is owned, a wedge is for ever and comes in a shutdown only, the queue implements `DelayedQueue` and makes progress |
| `memory` | three goroutines, nine forms of calls, two paths, two users | 86 070 | consistent reads, statistics off by no more than what changed, one winner per path, failures without effect, `UrlStore` |
| `file` | a store, a batch and a delete over two paths, two lives | 448 212 | the file after crash, error and stop; progress of `Close` and of the persister |
| `file_stop` | two deletions in a queue of size one, one store, i/o errors, cancellation and `Close` | 206 142 | a deletion that was accepted is lost to the shutdown only; the process ends |
| `shortener` | three requests, two urls, two paths, two users, clock up to 2, one connection fault, three draws | 88 350 | right answers, right deletions, errors without effect, `UrlStore`, deletions are applied |
| `memory_services` | four requests, two paths, two users, three draws | 282 151 | paths lead to their urls until they are deleted, deletions hit their owner's records, what was handed over is deleted |
| `database` | three calls of any method, two paths, two urls, clock up to 3, one fault | 261 455 | what a store tells, overwriting or not, and that a path keeps its url unless it is overwritten itself |
| `app` | http server, profiler, grpc server, three requests | 43 088 | order of the shutdown, exit code, end of the process |
| `transport` | a request of any form beside one that uses the session, three addresses, three filters, session of one tick | 1 779 472 | session, status, body and effect agree; statistics only for trusted sources |
| `config` | every parameter alone, and those read together, any values, any sections | 97 588 | the documented precedence, the flags of the filter beside a file left out, and when urls are only in memory |
| `flusher_wedge` | two calls, flush size one | violation | finding 1: an interrupt need not end the queue |
| `file_load` | as `file` | violation | finding 2 |

Type correctness of the queue, the memory storage and the application is not
among the properties of the runs: it is part of the inductive invariants that are
proved, which were checked as invariants before.

Why these bounds are enough to be interesting. The wedge of the queue takes a
token that is sent on the way to a flush, a cancellation that is taken before that token,
and a second fill behind it: two calls with size one reach it, and four with size two. Two stores and a
delete of one path are what it takes to reuse a deleted path; a reader beside a
batch of two is what it takes to see half of one. A file needs two lives to be
loaded, and a third call to change the map between a dump and its mark. A
deletion that meets a younger row needs a delete, and a store of the path it
names, at two different times. Two requests with one session suffice for
the token of the one to expire, or to arrive, before the other. A path of the memory
changes hands with a store, a delete, another store, and a late delete of the
first user: four requests. An overwriting store takes a lookup, somebody in
between, and an update; a third call deletes. A batch that the callback is given
and a push that waits behind it are the least for the shutdown of the queue to
meet that of the file. `MaxClock`, `MaxFaults`,
`MaxTries`, `MaxLives` bound clock, faults, draws and restarts, in the guards;
`MaxTries` is three, the code's limit (`service.go:21`). No symmetry is used.
Every configuration has `CHECK_DEADLOCK FALSE`: requests end, processes exit,
and a wedged queue stops, which its properties name instead.

Fairness, where a property needs it (each module says so beside its `Fairness`):

- goroutines that can go on do; calls in progress return (weak fairness); nobody is
  obliged to send a request, a signal, to cancel, to crash or to fail;
- the timers of the queue and of the persister fire;
- a case of a select that is ready again and again is taken (strong fairness):
  Go's select chooses uniformly among the ready cases;
- in `FileShutdown` the fairness is that of its two parts, with the callback a call in
  progress, and `app.Run` goes on when it can;
- a mutex is granted to a waiter in the end: `sync.Mutex` hands it over to one that
  starves;
- in `AppLifecycle`, a handler returns. That holds unless the queue wedges, which
  `Flusher` shows.

`ProcessEnds` is stated "unless the queue wedges", which it only does in a shutdown
(`WedgedOnlyInShutdown`), and `StopsWhenCancelled` "unless a report is not heard beside a second
cause" (`TwoCauses`): findings 1 and 5 show that both escapes are real. `EventuallyDelivered`
needs none, up to the cancellation, and `DeletionApplied` ends with it or with a
failed statement.

## 4. Findings

Two runs expect a violation:

1. **The queue can wedge at a shutdown** (`flusher_wedge`, `InterruptEndsRun`; `app.go:89` against
   `buffer.go:66`). `Push` sends to a channel of capacity one with the mutex held. The timer
   starts a flush; before it has the mutex a call fills the buffer and sends its token,
   and the flush takes the element and resets the flag. Then the application is interrupted, and the
   select, with the token and the cancellation both ready, takes the cancellation. A call that
   tested the shutdown flag before fills the buffer again and blocks in its send,
   holding the mutex that the last flush waits for. `Run` of the queue does not return, nor does
   `wg.Wait` (`app.go:154`): the process does not end, and the storage is not closed.
   `WedgedForever` says that nothing ends it, `WedgedOnlyInShutdown` that it takes a shutdown: before,
   the next select takes the token that stayed behind. Both are proved.
2. **A saved file can be refused at the next start** (`file_load`, `batch.go:34`,
   `db.go:70`): a batch stores urls that it does not parse, the loader parses them.

The others have a configuration each, `tlc -config X.cfg M`, with the sentence that
the run contradicts quoted above the property in its module:

3. **The flag of the file storage can be reset over an unsaved change**
   (`MCFileStoreFlag.cfg`, `MCFileStore`, `ChangedMeansUnsaved`; `file.go:49` against `file.go:166`).
   `QuietFileIsCurrent`, `CloseKeepsAcked` and `EventuallyDumped` hold for every other
   change; such a one is not saved by a graceful stop either.
4. **Accepted deletions are dropped at shutdown** (`MCShortenerStop.cfg`, `MCShortener`,
   `AcceptedDeletesApplied`; `batch.go:69` against `buffer.go:87`): the last flush passes on the
   context whose cancellation it follows. With the file storage
   (`MCFileShutdownLost.cfg`, `MCFileShutdown`, `EarlyDeletesApplied`) it depends on who sees
   the cancellation first: a storage that does refuses the batch (`file.go:146`).
5. **The process may not end after an error** (`MCAppLifecycleError.cfg`, `MCAppLifecycle`,
   `EndsOnError`; `app.go:89` against `app.go:154`): a second error, or one after a signal,
   blocks its server at the channel.
6. **Two urls of a batch can be answered with one path** (`MCMemoryShortenerBatch.cfg`,
   `MCMemoryShortener`, `EveryAnswerLeadsToOrig`; `README.md:6` against `simple.go:119`): if both
   drew it, the memory keeps the last.
7. **Statistics of no map there was** (`MCMemoryStoreStats.cfg`, `MCMemoryStore`,
   `StatsOfOneMap`; `simple.go:17` against `simple.go:145`). `StatsBetween` bounds the error.
8. **An overwriting store does not overwrite** (`MCDatabaseStoreOverwrite.cfg`,
   `MCDatabaseStore`, `OverwriteOverwrites`; `database.go:63` against `database.go:227`): the update
   looks for the row by the new orig, and finds none, or one it must not move.
   No service asks for it. `OnlyOverwritten` leaves an overwritten path free to lead elsewhere,
   so a repaired update satisfies it as well.
9. **A deletion without a time may have another's** (`MCDatabaseStoreUnset.cfg`,
   `MCDatabaseStore`, `UnsetMeansNow`; `database.go:177` against `:176`): the time of the url
   before it stays in force. The service sets them all.
10. **`Get` hides a failed statement** (`MCDatabaseStoreGet.cfg`, `MCDatabaseStore`,
    `GetReturnsUrl`; `database.go:123` against `:129`): an empty url and no error.
11. **Without subnets requests are refused** (`MCTransportSubnets.cfg`, `MCTransport`,
    `NoSubnetsPass`; `middleware/filter/filter.go:53` against `:60`).
12. **A configuration file loses the filter's flags** (`MCConfigFilter.cfg`, `MCConfig`,
     `FlagsOverrideFile`; `config.go:79` against `merge.go:3`); a file without that section
    ends `New` with a nil dereference (`env.go:16`). `Precedence` says nothing of these flags
    (`Forgotten`); of everything else it states the order of `config.go:79`.

Seen on the way; the models follow the code:

- `http/server/handlers.go:355`: `DeleteBatch` answers 202 after any error, as the last
  status set is the one sent; `:124`, `:282`, `:336`, `:340` return with no status, sent as 200.
- `handlers.go:144` and `grpc/server/handlers.go:86` call `errors.Is` with its arguments swapped:
  an invalid url is answered as an internal error.
- `resolver.go:59` indexes an empty path. Over gRPC the recovered panic
  (`interceptors/logging/logging.go:45`) becomes an OK with an empty answer.

## 5. Proofs

`FlusherProofs`, for any set of calls and any flush size. It assumes that
`FlushSize \in Nat \ {0}` (the program uses a constant) and that no call is named
like the runner or the free mutex (`CallsAssumption`). The inductive invariant is

    IInv == TypeOK /\ LockInv /\ StoredExactlyOnce /\ WakeInv /\ TokenInv /\ CloseInv /\ EarlyInv

`StoredExactlyOnce` is about buffer, deliveries and size, and no step can be
followed without knowing who holds the mutex (`LockInv`: the call that
sends, or the runner that flushes). `NoLostWakeup` is not inductive: that a full
buffer has a token depends on what `flushNeed` promises, namely that the token is in
the channel or the runner past its select (`WakeInv`). `EarlyDelivered` needs the
history variable to be part of what was logged (`EarlyInv`) and the flag to be
set exactly from the last turn on (`CloseInv`). `TokenInv` says that a token which came while
the runner was on its way to the lock has its flag set, so that nobody sends a second
one: `WedgesInShutdown` needs that. From it follow the type
invariant, `ExactlyOnce`, `WakeUp`, `EarlyElements`, `WedgesInShutdown`, the action properties
`BatchIsOwned` and `WedgeIsForever`, and `ImplementsQueue`: initial states map to
initial states of `DelayedQueue`, and each step to a step or a stutter.

`FileStoreProofs`, for any calls, requests and number of lives (`MaxLivesAssumption`:
it is positive; `RequestOfAssumption`: every call stores or deletes):

    IInv == Shape /\ FileInv /\ DirtyInv /\ StopInv

`FileInv` relates file and last dump (a part while it is written, all of it
between two rewrites, unless there was an error); `DirtyInv` says that the map is the
last dump but for calls that changed it since, that such a call will mark or has
marked, and that a mark is lost only if it is remembered in `missed`; `StopInv` says
that after the shutdown flag only calls in progress change the map. From it:
`OneDump`, `TornMidWrite`, `QuietFile`, `GracefulStop`. `missed` and `inflight` are not
there to make the theorems true: they are exactly the changes that finding 3, and a
call that passed the flag before `Close`, lose.

Its second part is about `FileShutdown`, for any finite set of pushes, any stores and
any flush size (`PushesAssumption`, `FlushSizeAssumption`; `StorageCallsAssumption` says
that the storage may be called with every batch). The lemmas `QueueStepOrNone` and
`StoreStepOrNone` show that a step of the composition is a step of `Flusher` or leaves the queue alone,
and a step of `FileStore` or leaves the storage alone. So both inductive invariants
carry over (`ShutdownRunsQueue`, `ShutdownRunsStore`) and none of their proofs is
repeated. For the second the buffer that is passed on has to be a call
that the storage knows: it is an injective sequence of pushes, as the queue stores
nothing twice, and no longer than there are pushes (`BufferIsBatch`). What is left is
what ties the two together, `Glue` in `ShutdownInductive`: the callback has a batch to
pass on, whatever was delivered belongs to a batch that was executed or refused,
only a storage that stops refuses, and `Close` comes after the queue has
stopped. From it `LostOnlyThere`.

`MemoryStoreProofs`, for any goroutines and requests. It assumes that no goroutine is
named like the free mutex (`ThreadsAssumption`), and that requests are well formed: a
store has one url, and the urls of a call one user (`RequestsAssumption`).

    IInv == TypeOK /\ LockInv /\ BatchInv /\ DeleteInv /\ HeldInv /\ OneLiveWinner

`LockInv` says who is in a critical section; behind the mutex the map is the one that
outsiders see (`base`), changed by as much as its holder has done: `BatchInv` for a
batch, `DeleteInv` for a deletion. `HeldInv` keeps the paths of a call that succeeded
until a deletion names them; without it, `OneLiveWinner` does not follow a second
winner. From it: `TypeCorrect`, `OneWinner`, `ReadersSeeOneMap`, `FailuresChangeNothing`,
and, if no request overwrites, `ImplementsUrlStore`.

`StatsAreBetween` is about the walk of `Stats` without the mutex. It needs two invariants
more. `WalkInv` says that a walk has counted the user of every record it visited that is
live and was so for outsiders all along, and nobody who had no live record in
any map there was. `FiniteInv` says that the sets it counts are finite: without it their
sizes say nothing. A write and a walk meet in the middle of critical sections, where the map is
neither the one before nor the one after; `WritesBetween` shows that a record is live
then only if it was before or is after, and is not lost in between.

`ShortenerProofs`, for any calls, requests, draws and times. `RequestsAssumption`: a
request is of a known kind, and what it stores are urls, one for a single store.

    IInv == Shape /\ CallInv /\ QueueInv /\ RowInv /\ AnswerLeadsToOrig

`DeletedByEarlierOwner` is about rows, deliveries and the requests they came from:
`QueueInv` keeps every deletion, queued or delivered, tied to its call and user, and
`RowInv` every deleted row to a deletion that was delivered. `AnswerLeadsToOrig` holds
on because a row keeps its url whatever is done to it. From it: `AnswersLead`,
`DeletionsAreOwned`, `ErrorsStoreNothing` and `ImplementsUrlStore`.

`AcceptedAreApplied` is the safe half of `DeletionApplied`: as long as no statement has
failed and no shutdown has begun, a deletion that `DeleteBatch` accepted waits in the
queue, or the row it names is deleted if it is older and its user's. Its invariant `QInv`
has three parts. `PushedOk`: the first `tries` deletions of a call are in the queue or were
delivered, and a success has pushed all. `TimeInv`: no deletion is from the future, so a
row that is stored after a delivery is younger than it. `AppliedInv`: what was
delivered is executed.

`MemoryShortenerProofs`, for any requests, paths, users and origs. It assumes a positive
`MaxTries` and, as for the database, well formed requests (`RequestsAssumption`).

    IInv == Shape /\ CallInv /\ QueueInv /\ LeadInv /\ DeletedByOwner /\ DeliveredIsDeleted

A path changes hands here, so an answer leads to its url only until something happens.
`LeadInv` says until what: the record an answer was given for is live, or a deletion
by its user was handed over after the answer (`born` counts those before it), or
a later url of the batch has the path. `AnswerLeadsToOrig` alone, which admits a
record marked deleted, is not inductive: the next store would take the path. In a batch
the last url with a path wins, so the proof needs the greatest index of a set
(`Greatest`), which exists by the well-foundedness of the subsets of an interval. From
it: `AnswersLead`, `DeletionsAreOwned`, `DeliveredAreDeleted`, `ImplementsUrlStore`, and
with `PushedInv`, as above, `AcceptedAreDone`: over the memory an accepted deletion is
never forgotten, at a shutdown either.

`DatabaseStoreProofs`, for any calls, requests and number of faults; it assumes that
no url is spelt like an outcome of `Get` (`RequestsAssumption`).

    IInv == Shape /\ CallInv /\ UpdateInv

`UpdateInv` is why an overwriting store does no harm to other paths while every statement is
answered: the update looks for its row by the url, and is sent for a path that
another url has by then. From it `OthersArePreserved`; `StoresTellTruth` needs no such condition.

`AppProofs`, first about the application, for any servers and handlers, each handler of
one server (`ServersAssumption`):

    IInv == TypeOK /\ ServerInv /\ HandlerInv /\ MainInv /\ CodeInv

`ServerInv` relates a server's place to its listener, `HandlerInv` a handler to the
server that waits for it, `MainInv` where `Run` is to all that has ended by then. From it:
`TypeCorrect`, `ClosedLast`, `CodeIsTrue`.

Its second part is about the configuration (`ConfigSpec`), for any parameters, sections,
defaults and values: `ConfigInv == Sources /\ Stages /\ Precedence`. `Precedence` is about
the end, and compares what arrives with the order that is documented (`InOrder`); `Stages` says what the configuration is between the steps (the flags, then the
file, then what the two make of it, `FromFile`), and `Sources` that a file says
nothing of a section it does not have. From it: `PrecedenceHolds`, and, as the file
path is a parameter of its section (`StorageAssumption`), `MemoryIsAsked`.

`TransportProofs`, for any requests, users and filters; it assumes that "no user" is
none (`UsersAssumption`) and that operations are known (`RequestsAssumption`).

    IInv == Shape /\ WriterInv /\ EffectInv /\ FilterInv /\ SessionInv

`WriterInv` follows the response writers: untouched on the way in, fresh or sent with
one header on the way out, whole at the end. `EffectInv` relates the status to what
the service did, `SessionInv` each owner to a token that was told or is about to be,
`FilterInv` statistics past the filter to an address that was trusted. From it:
`OwnersAreTold`, `StatusesAreTrue`, `AnswersAreWhole`, `OnlyTrusted`.

Every safety property of a passing run, invariant or action property, is stated by a
theorem. Model-checked only: the liveness properties (`EventuallyDelivered`,
`CloseReturns`, `EventuallyDumped`, `DeletionApplied`, `StopsWhenCancelled`, `ProcessEnds`), as
liveness under fairness and ENABLED are beyond the prover, and what a configuration
shows to be violated. No module has a recursive operator.

## 6. Not modelled

The parsing and formatting of urls, json, log lines, and addresses beyond whether
they parse; TLS handshakes and the contents of a generated certificate; signatures
(a token is this server's or it is not); migrations of the database; pprof's own
handlers; the static analysis tools, which are no part of the running system; the pool
of database connections and its tracers; generated code and mocks. Write errors towards a client are
logged by the code and left out. `X-Request-ID` only reaches the log.

## 7. Plan

Done, in this order: the queue and its abstract specification, the memory and the file
storage, services over the database, the application, the transport, the
configuration; then the shutdown of queue and file as a whole, the services over
the memory, the database with overwriting stores; proofs for every component and
every composition.

Left:

1. **Two processes over one file**: `FileStore` has one; nothing in the code locks it.
2. **Liveness by hand**: `DeletionApplied` and `EventuallyDelivered` need, beside the
   safe halves that are proved (`AcceptedAreApplied`, `ExactlyOnce`), that a flush happens.
   That step stays with TLC.
