# WinterJS in TLA+

WinterJS is a JavaScript server: it runs a user's script in SpiderMonkey and
answers HTTP requests with what the script's handler returns. This directory
holds TLA+ specifications of the parts of it that carry its own logic, the TLC
models that check them on small instances, and TLAPS proofs of the properties
that matter most. Paths below are relative to the repository root.

## 1. The system

### Parts, their state and their operations

| Part | Source | State | Operations |
|---|---|---|---|
| Worker (request loop) | `src/runners/request_loop.rs`, `request_queue.rs`, `event_loop_stream.rs` | control channel, `shutdown_requested`, queue of request promises, continuations (bodies being sent), JavaScript event loop, initialisation error | initialise; receive a request, `Shutdown` or `Terminate`; start and finish a request; step the event loop; cancel what cannot finish; leave |
| Multi-threaded runner | `src/runners/single.rs` | mutex, list of threads, in-flight counter per thread, `shut_down` | `handle` (lock, choose or spawn a thread, send, await), `shutdown` (announce, poll, sleep, give up) |
| Inline runner | `src/runners/inline.rs` | one channel, the finished flag of its worker | `handle`, `shutdown`, worker and server joined on one thread |
| Server and process | `src/server.rs`, `src/main.rs` | connections, the ctrl-c handler | call `handle` for each request, turn errors into 500, shut down once, exit |
| Cache API | `src/builtins/cache/` | named lists of (request, response) entries, the futures of `put` and `addAll` | `open`, `delete`, `match`, `put`, `add`, `addAll`, ... |
| Request handlers | `src/request_handlers/` | the registered listener or module, routes | evaluate the script, start a request, finish a settled promise |
| async_hooks | `src/builtins/internal_js_modules/node/async_hooks.ts`, `src/builtins/core/` | stack of context frames, frame of each promise | promise hooks, `run`, `exit`, `bind`, timers |
| Events | `src/builtins/js_globals/event.ts` | listener lists, event flags | `addEventListener`, `removeEventListener`, `dispatchEvent` |
| node:buffer | `src/builtins/internal_js_modules/node/buffer.js`, `__winterjs_internal/base64-js.js` | ArrayBuffers and the Buffers that are windows on them | `alloc`, `from`, `slice`, `copy`, `fill`, `write`, `toString`, integer accessors, ... |
| Web Crypto | `src/builtins/crypto/` | keys and their usages | `digest`, `sign`, `verify`, `importKey`, `exportKey`, `generateKey` |
| Others | exec and watch runners, CLI, loaders, small builtins, ieee754, readable-stream | | see `PROJECT.json`, "components" |

### How they interact

`server.rs` calls `Runner::handle` in a task of its own per request. The
multi-threaded runner sends `HandleRequest(data, oneshot sender)` over an
unbounded channel to one of its threads and awaits the receiver; the inline
runner does the same with its only worker. A worker starts a request by calling
the handler, keeps the promise it got in its `RequestQueue`, and answers over the
sender when the promise settles. Ctrl-c calls `Runner::shutdown`, which sends
`Shutdown` to the workers, polls once a second until they are gone, and sends
`Terminate` when the timeout has passed. Caches belong to one worker: their
futures run on its event loop and interleave at awaits only.

### What is hard about it

* Threads, tasks and the ctrl-c handler interleave. The counters a request uses to
  choose a thread are read one by one while others change them; a mutex is held
  over a sleep; a client may go away at every await.
* A worker polls three sources with `select!` in random order, and decides to give
  up on a request from an edge (the event loop *became* empty) that may be missed.
* Each request owns a one-shot sender that must be used on exactly one of about ten
  paths, whatever shutdown, timeout or panic does.
* User code may throw, never settle, keep the event loop busy for ever, never finish
  initialising, or never return from one call; shutdown must cope.
* `put` and `addAll` suspend between checking and changing the cache.
* The async context is a stack that promise hooks, timers, microtasks and `run` push and
  pop from outside of each other; the hooks are registered in the middle of a program.
* Buffers share memory: `copy` and `fill` may read what they have just written. The
  accessors split negative and 64-bit values into bytes with 32-bit operators, and the
  encoders keep state from one code unit to the next while they count down the room.

`PROJECT.json` lists these under "hazards", each at its line with the properties
that would catch it.

## 2. Modules

| Module | Models | Role |
|---|---|---|
| `RequestLoop` | worker | an open module: its environment actions (`Spawn`, `Send`, `SendControl`) are what a runner may do |
| `SingleRunner` | multi-threaded runner, server, ctrl-c | extends `RequestLoop`; every environment action of the loop is part of an action of the runner, so that `LoopSpec` is a property to check |
| `InlineRunner` | inline runner, `join!` of worker and server | extends `RequestLoop` |
| `RequestService` | what clients are promised | abstract; instantiated by both runners with a refinement mapping |
| `CacheStorage` | Cache API | on its own |
| `CacheTests` | `test-suite/.../17-cache.js` | extends `CacheStorage`: the tests as its clients |
| `EventTarget` | `Event` and `EventTarget` | on its own |
| `AsyncContext` | async_hooks and promise hooks | on its own |
| `Buffer` | node:buffer over memory | on its own |
| `BufferStrings` | the encodings of node:buffer, base64-js | on its own |
| `Filtering` | the loops that select or remove elements of a list | used by `CacheStorage`, `EventTarget` and `BufferStrings` |
| `RequestLoopProofs`, `SingleRunnerProofs`, `InlineRunnerProofs` | | theorems about the worker; about each runner, from those |
| `CacheStorageProofs`, `EventTargetProofs`, `AsyncContextProofs` | | theorems about the module of that name |
| `BufferProofs` | | theorems about `Buffer` and `BufferStrings` |
| `FilteringProofs` | | lemmas about `Filter`, used by three of those |
| `MC...` | | model values and symmetry sets for TLC |

### RequestLoop

`phase[w]` is where `handle_requests` of worker `w` is: not spawned, initialising,
in the `select!` loop, inside `cancel_unfinished` (`"drain"`, polled to its end
before it cancels), in the loop that reports an initialisation error, inside of
JavaScript that never returns (`"stuck"`), or returned.
`chan[w]` is the channel, `requests[w]` and `continuations[w]` the two sets of
futures of the `RequestQueue`, `loopBusy[w]` whether the event loop has work,
`error[w]` whether the initialisation error is still to be reported, `promise[r]`
what the `PromiseFuture` of a request would see, and `resp[r]` the one-shot
channel. There is one action per branch of `select!` and outcome of its handler;
`ExitReady` is the test at the loop's head. `sent` and `truncated` are history
variables that bound the control messages and record broken-off bodies.

User code is nondeterminism limited by the constant `UserCode`: whether
initialisation may fail, whether a handler may throw, return a promise, or answer
with a body that is a JavaScript stream, whether a step of the event loop may
report an unhandled error, and whether a call of JavaScript may never return
(`"hangs"`: `Hang` takes a worker that is about to call user code to `"stuck"`, where it
takes no further step and reads no message). `MayPanic` adds the unwinding of a worker at
any time. The profile `release-compact` aborts the process on a panic (`Cargo.toml:90`);
unwinding is what the other native builds do.

Facts taken from the runtime, which is outside this repository:

* a promise settles only in a step of the event loop, and an empty event loop
  settles nothing;
* a request that was started leaves the event loop with work: building its body
  stream queues a job;
* a body future that reads a JavaScript stream may give the event loop work;
* `finish_request` may return a further promise, which re-arms the `RequestFuture`.

Left out: the `None` message (a runner keeps a sender for as long as it exists), and
the moment between the drop of the receiver and the end of the thread, which are
one step.

### SingleRunner and InlineRunner

`hpc[r]` is the program counter of the task of `handle`. Holding the mutex, a
request loads the counters one per step (`LoadCount`) and then chooses with the
three rules of `find_or_spawn_thread`; `counts` are the values it read, which may
be stale by then. `ClientGone` drops the future at an await: waiting for the lock or
for the answer. `spc` is the program counter of `shutdown`; `Sleep` keeps the lock,
`WakeUp` releases it, `TimeoutReached` is the clock. `ServerExit` is the end of
`main`, after which nothing happens. In `InlineRunner` there is no lock and no flag;
`late` records which requests were sent behind `Shutdown`, for the properties only. One
thread runs JavaScript, the server and the tasks of `handle` there, so a step of theirs needs
`Polls`: no JavaScript call has kept the thread. `shutdown` is called on the ctrl-c handler's own
thread and goes on. `Spins`, in both runners, is JavaScript that runs on without returning.

### RequestService and its refinements

The abstract service knows what each client sees (`idle`, `waiting`, an answer, or that it
is `gone`) and the stage of the server (`open`, `closing` after ctrl-c, `stopped`, `exited`).
A request is taken once and answered at most once, 503 is said only after ctrl-c, a late
request may fail at once, and the process does not end while a client waits. `Service` in
each runner is `INSTANCE RequestService WITH` a mapping from the runner's program counters;
`ImplementsService` is its specification, as a PROPERTY. Locks, counters, channels, workers
and the timeout map to stuttering steps.

### CacheStorage

`Lists` are the `Rc<RefCell<Vec<..>>>` lists that cache objects share, and `Named`
which of them a name refers to: a deleted cache keeps its list alive through its
handles. A future of `put` or `addAll` is a task with its own state; between
`PutBegin` (the checks and `take_body`) and `PutCommit` (delete what matches, push)
other tasks run. A request is what matching tells apart: URL without fragment, query,
method, one header that `Vary` may name. `MatchAll`, `StorageMatch`, `CacheKeys` and
`IsMatch` are operators; `has`, `keys` and the `match` calls change nothing and are no
actions here (they are calls of `CacheTests`).
Assumed: user code does not change the headers of a request or response after
handing it to `put` (the cache keeps the very object).

### EventTarget

`listeners[t]` is the array of a type, `defined` the types that have one (a dispatch of
another type throws and changes nothing). `stack` holds the dispatches under way, each
with the index and the length of its `forEach`; user code runs at the top level or in the
callback of the innermost one, and only then may it add, remove, abort or dispatch.
`forEach` reads its length once and visits the indices that still exist: `HasNext`. A
callback that throws ends its dispatch. A dispatch also records what it called, what was
added and whether anything was removed, for the properties. The abort event of a signal is
modelled from its use: it runs the removal that `addEventListener` left with it.

### CacheTests

Each test of `17-cache.js` is a sequence of calls, each with the result the test asserts.
`made` counts the calls that have returned; `Query`, `OpenCache`, `DropCache` and
`DeleteEntries` are calls that return at once, `Start`, `Run` and `Settled` the promises of
`put`, `add` and `addAll`, for which `CacheStorage`'s own actions run with the answers of the
tests' backend. Tests up to `CacheStorage keys` have a cache of their own and start from an
empty storage; those after it look at all caches and are one session.

### AsyncContext

`frames[f]` is the storage of a frame (the first is the root), `stack` is
`asyncContextStack`, `calls` the JavaScript calls under way. A job is a script, a timer, a
microtask or a promise reaction; jobs do not interleave, calls nest. `Run`, `Exit`,
`GetStore`, `Capture` (everything that keeps the current frame), `Enter`, `Fire` and
`Return` are the library; `NewPromise`, `Settle`, `React` and `ReactionEnds` are SpiderMonkey
calling the four hooks, once `hooksSet`. `Collect` is the finaliser of a storage. `sees`
records what a piece of code was promised when it was called, bound or scheduled. A promise
whose reaction returns another promise stays pending. A promise has one reaction: that an
engine may call the hooks of an async function's promise once per `await` is not modelled.

### Buffer and BufferStrings

In `Buffer` a byte has `Base` values and every constant of the code that is a power of 256
is one of `Base`, so that eight-byte values can be gone through. The calls of `Next` build and
share memory; the properties quantify over every call that is possible in a state, the
out-of-range ones included. The `byteLength` of `readIntLE` and its kind is the 1 to 6 that they
are documented for; the code does not check it (with 0, a write stores one byte). The 64-bit
writes shift with the signed `>>`, as `SignedShift`. `BufferStrings` keeps the real constants:
strings are sequences of UTF-16 code units chosen for the roles they play. Left out: floats, `inspect`, `toJSON`, and
coercion of arguments that are not integers other than the `>>> 0` of offsets (`Position`).

## 3. Runs

| Run | Checks | Result |
|---|---|---|
| `RequestLoop` | one worker, three requests, all user code, panics: sender used once, no request lost, only pending requests called unresolvable; under the fairness of `select!`, `Terminate` ends every initialised worker that JavaScript gives back to it | passes |
| `RequestLoopRest` | without unhandled errors the empty-loop signal is not missed; with user code that comes to rest every request is answered and `Shutdown` suffices | passes |
| `RequestLoopMissedEmpty` | the same signal, with unhandled errors | violated: see below |
| `SingleRunner` | counters exact, stale reads harmless, nothing behind `Shutdown`, clean shutdown cuts nobody off, the runner implements the loop's environment and `RequestService` | passes |
| `SingleRunnerLive` | nobody starves on the mutex; ctrl-c ends the process, unless a worker that is for ever initialising or for ever in one JavaScript call keeps a client waiting | passes |
| `InlineRunner` | FIFO order alone separates early and late requests, `RequestService` is implemented, ctrl-c ends both halves of `join!`, unless the script never finishes initialising or never gives the thread back | passes |
| `CacheStorage` | an entry is found by its own request; with a cache opened, deleted and opened again, names are unique and the list of a deleted cache gets no name again; `addAll` keeps its own entries and stores nothing if it fails before its puts | passes |
| `CacheTests` | every assertion of the tests holds; no test is left with a promise that nothing can settle (deadlock check) | passes |
| `EventTarget` | a dispatch calls a listener twice only if it was added again, and all of them in order unless one is removed | passes |
| `AsyncContext` | `getStore` returns what was promised, the stack is balanced, frames do not change, rejections keep a context | passes |
| `Buffer` | accessors read what was written, `copy`, `fill`, `indexOf`, byte-wise `lastIndexOf` and `compare` against their definitions | passes |
| `BufferStrings` | round trips in every encoding, whole characters, base64 against bits | passes |

Every property of a passing run has a mutant in `PROJECT.json`: a definition next to
the one it replaces, with a plausible slip of the code, under which TLC finds that
property violated.

### Finding

`EventLoopStream` promises a value "whenever the event loop is empty". A step that
both empties the loop and reports an unhandled error yields the error only, and the
next poll sees an empty loop and yields nothing: a request that can no longer settle
waits until another request runs the loop, and a shutdown waits for its timeout.

### Other observations

Met while modelling; the properties are stated so that they hold with them.

* The shutdown timeout is documented (`main.rs:298-301`) as the time "before forcefully
  terminating request handler threads". `Terminate` is a message, which a worker reads
  between two calls of JavaScript (`request_loop.rs:116-125`) and not while it initialises
  (`request_loop.rs:103`). A handler that loops for ever never reads it, and the client it
  keeps waiting keeps the process alive. `TerminateObeyed` and `CtrlCExits` name both cases
  as their exceptions; with `"hangs"` in `UserCode` TLC reaches them.
* `bidirectionalIndexOf` is documented (`buffer.js:709-710`) as finding the first or "the last
  index of `val` in `buffer`". In ucs2 `lastIndexOf` returns that index in units of two
  bytes (`buffer.js:823`), `indexOf` in bytes. `IndexOfIsExact` leaves `lastIndexOf` in ucs2 out.
* `17-cache.js:511` states all or nothing for `addAll`. It holds for whatever fails before the
  puts (`AddAllAllOrNothing`); the puts themselves are made one by one (`cache/mod.rs:444`) and
  are not undone when a later body fails.
* Listeners are compared by `options.capture` with `===` (`event.ts:332`). An options object
  without `capture` leaves it `undefined`, so a non-capturing callback can be added twice,
  although the comment at `event.ts:324` says it is skipped.
* `AsyncResource.prototype.bind` keeps the current frame, not the frame of the resource, and
  `AsyncLocalStorage.exit` passes its arguments as one array.
* In `buffer.js`: `copy` with an end of 0 returns minus its start; `indexOf` in ucs2 from an odd
  offset or over an odd length may end in a RangeError when nothing is found, and `lastIndexOf`
  in ucs2 from an odd place counts in halves (the model rounds); `fill` with a Buffer that overlaps the
  range repeats bytes it has already changed; hex `write` takes a length of 0 for no limit; of two lead surrogates at the
  end of a string the second is lost; `write` with an explicit length may split a character.

### Bounds

Three requests with one worker let one be in the channel, one in the queue and one
streaming, so each pair of phases meets. Two threads are enough for a stale counter
to matter (one read before, one after a change). The runs of the runners have two requests: one
accepted, one arriving in the middle; `SingleRunnerLive` has one thread, which is enough for
the mutex, the sleep and the timeout to meet. Panics and all user behaviours are on
unless a run is about their absence (in inline mode a panic ends the process). The cache run has
two tasks, the default cache and one other name, and `MaxLists` = 3 lists: the other name is opened,
deleted and opened again. Its requests differ in query, method and header, its responses in `Vary`
and status. `MaxBatch`
requests to one `addAll` are enough for a pair that shadows itself. `CacheTests` has what its
tests name. Two callbacks and three nested dispatches make every way in which an index and its
array can move apart. `AsyncContext` has two storages, three frames and calls three deep: a frame
that replaces one key and inherits another; two promises, so that one reacts to the other.
`Buffer` has windows over one or two arrays of up to eight bytes of four values, with offsets
one beyond both ends and one that `>>> 0` wraps around: every width up to eight bytes, both signs,
at every edge of its range.
`BufferStrings` has strings of five units, which hold a pair between lone surrogates, and four
bytes, the longest UTF-8 sequence. Symmetry is used over requests, tasks, callbacks, storages and
stores, in runs without liveness properties only.

The runners and `CacheTests` name the states in which they may stop (`Ended`, `Finished`) or go on
with nothing but JavaScript that does not return (`Spins`), and deadlock is checked. In the others it is not: a worker that has returned, a cache nobody uses,
a program that makes no further call may stop.

### Fairness

* `select!` starts polling at a random branch, so a branch that is ready again and again
  is taken: strong fairness of `Receive` and of `Finish`. `FuturesUnordered` polls what
  was woken in order.
* `cancel_unfinished` and the test at the loop's head are synchronous: weak fairness.
* tokio's mutex is a FIFO queue: strong fairness of the lock for each waiting task.
* The clock advances and tokio runs a task that is ready: weak fairness of the timeout,
  the wake-up and the steps of `handle`.
* All of this presupposes that a call of JavaScript gives its thread back. Where it does
  not, the model says so: `Hang` leads to `"stuck"`, where none of these steps is enabled, and
  in `InlineRunner` no step of a task of the one thread either (`Polls`).
* The end of initialisation, arrivals, disconnections and panics are not fair in `FairLoopSpec`
  and `FairSpec`, and an event loop may stay busy for ever. `RestingLoopSpec` adds, as a separate hypothesis, that
  the script finishes initialising, that bodies end and that the event loop runs empty
  again and again.

## 4. Proofs

The theorems hold for every value of the constants: any sets of requests, workers, listeners,
keys or windows, any depth of nesting and any number of steps. Each module's proof has the same
form: an inductive invariant, one lemma per action (or kind of action) that it is kept, one
`[]`-theorem for the invariant, and the properties of the runs from it. `PROJECT.json` lists them
all. The only assumptions are the named `ASSUME`s of the modules, which say what the constants
are; TLC evaluates them in every run.

### RequestLoop (`LoopAssumption`)

* `LoopTypeCorrect`: `LoopSpec => []TypeOK`;
* `LoopSenderUsedOnce` and `LoopNoLostRequest`: a sender is at one place until it is used,
  and an unanswered request is held by its worker;
* `LoopUnresolvableIsPending`: `cancel_unfinished` gives up on pending promises only;
* `LoopNoPendingOnEmptyLoop`: if `"errors" \notin UserCode`, no worker rests on an empty
  event loop with a pending request;
* `LoopCutOffByTerminate`: while no worker was sent `Terminate`, no request is answered that the
  server is shutting down, and only a panic breaks off a body.

`SenderUsedOnce` alone is not inductive: it says that no message is twice in a channel,
and that a control message is not needs the record of what was sent (`ControlSent`).
`NoLostRequest` in turn needs to know that a sender is only used where it is found.
`LoopInv` is the conjunction of `TypeOK`, `SenderUsedOnce`, `NoLostRequest` and
`ControlSent`. Lemmas state what `Head`, `Tail` and `Append`
do to the set of queued requests; one lemma per kind of step (answer the head, answer a
queued request, quit, drain) shows that it keeps `LoopInv`, and `WorkerStepInv` cites them
action by action. The action property is proved by looking at who can write `"unresolvable"`;
`LoopNoPendingOnEmptyLoop` by an induction that adds `QueueOnlyInLoop` (a worker outside its
`select!` loop has no queue), in which the branch for `StepFailed` is where the hypothesis is needed.

### SingleRunner (`LoopAssumption`, `RunnerAssumption`)

* `RunnerUsesLoopProperly`: every step of the runner is a step of the loop's environment or of a
  worker, or leaves the loop alone: `Spec => LoopSpec`. What is proved of the loop therefore holds
  in the runner, and its invariants become conjuncts of `RunnerInv`;
* `RunnerInFlightExact`: a thread's counter is the number of tasks that await one of its answers,
  although tasks are dropped at every await;
* `RunnerBusyOnlyWhenFull`: the unlocked, stale reads of the counters never make a request share a
  busy thread while another could be spawned;
* `RunnerNothingBehindShutdown`: no request is in a channel behind `Shutdown`;
* `RunnerCleanShutdown`: while no worker was told to terminate, nobody is cut off;
* `RunnerImplementsService`: `Spec => Service!ServiceSpec`, step by step.

`RunnerInv` adds to the loop's invariants: who holds the mutex (`LockHeld`), which threads exist
and that requests go to them (`ThreadsSpawned`), when a request is sent (`SentWhenAwaiting`), that
the flag is set under the mutex and every running thread is told (`ToldToShutDown`), the counters
(`CountsAwaiting`, which carries that the set counted is finite, since `Requests` need not be),
that a loaded counter can only be too high because only the holder of the mutex increments
(`StaleButSafe`), and `DoneOrTold`. None of the properties is inductive without the mutex's part.
`NothingBehindShutdown` is proved from `RequestsFirst`: requests are appended before the flag is
set, control messages after it.

### InlineRunner (`LoopAssumption`, `InlineAssumption`)

`InlineUsesLoopProperly`, `InlineCleanShutdown` (a request sent before `Shutdown` is served unless
the timeout passes) and `InlineImplementsService`. There is no mutex, so the argument is FIFO
order: `EarlyBeforeLate` says that `Shutdown` splits the channel into early and late requests until
the worker takes it, and that only late ones are left from then on; `LateTurnedAway` that a late
request reaches no handler and an early one is not turned away; `ShutdownProgress` ties these to
the program counters.

### AsyncContext (`AsyncAssumption`)

* `AsyncSeesItsContext`: `getStore` returns what the running code was promised when it was called,
  bound or scheduled;
* `AsyncStackUnwound`: no path leaves a frame behind or pops one too many;
* `AsyncFramesAreConstant`: the store of a live key in a frame never changes (action property);
* `AsyncContextKept`: a rejected promise keeps its context, others release it; and `AsyncTypeCorrect`.

`SeesItsContext` speaks of the innermost call only. The invariant says it of every call on the
stack, of what was captured and of every promise that has still to react (`CallsSee`,
`CapturedSees`, `PromisesSee`): a return makes an outer call current again. For that the i-th call
must find its frame, which is `OneFramePerCall`: the stack is as long as the calls, up to a shift
that depends on the kind of the job. `HooksSetFirst` covers the reaction during which the hooks are
registered.

### EventTarget (`EventAssumption`)

`EventCalledOnce`, `EventCalledInOrder`, `EventTypeCorrect`. For every dispatch under way, `EventInv`
says what is ahead of its index: nothing that it has called, unless added since (`NotAgain`), and,
as long as nothing was removed, the array it began with (`Intact`). Removal shifts the array under
the indices of several dispatches at once; `ElementRemoved` of `FilteringProofs` says by how much.

### CacheStorage (`CacheAssumption`)

* `CacheEntryFound`: `match` with an entry's request returns that entry, also through
  `caches.match`, whatever puts, batches and deletes interleave;
* `CacheStorageWellFormed`, `CacheDeletedStaysDeleted`, `CacheTypeCorrect`;
* `CacheAddAllAllOrNothing` and `CacheAddAllKeepsItsOwn`.

`EntryFound` needs that no entry answers the request of a later one and each answers its own
(`ListsSound`). A pair that passed the checks of `put` answers its own request (`CacheableMatches`);
`put_impl` first deletes all that answers the new request, so that its new last entry is shadowed by
none (`CommittedList`), and a deletion keeps the order of the rest (`DeletedList`).
`AddAllKeepsItsOwn` needs `BatchesSound`: what a task fetched is put by that
task, after all its fetches, and no pair it has still to put matches one that it has put.

### Filtering

`Filter` is what the removal loops leave. It is defined by ranks instead of recursion: the n-th
element left is the one with n - 1 elements left before it. `FilteringProofs` shows that it keeps
the order, the elements and the first of them, and what the removal of one element does; that it
is `SelectSeq` is checked by TLC on all sequences up to length four (`FilterSelects`). `MatchAll`,
`DeleteImpl` and `StorageMatch` of the cache and `Abort` of the signals are written with it.

### Buffer (`BufferAssumption`)

* `BufferInvariant` and `BufferTypeCorrect`: every Buffer, however it was made (slices of slices with
  negative or excessive ends included), stays inside of its ArrayBuffer, no ArrayBuffer is longer
  than `K_MAX_LENGTH`, and no write changes the size of one or stores something that is not a byte;
* `BufferReadsWhatWasWritten`: the read and write accessors, of all widths, signs and byte orders;
* `BufferCopyAsIfDetached`: `copy`, over windows that may overlap;
* `BufferFillRepeats`: `fill` with a Buffer;
* `BufferIndexOfIsExact`: `indexOf`, `lastIndexOf` over bytes, and `compare`.

All hold for every `Base`, size and offset. `fill` is a loop that reads the memory it is writing. Its
recursive function is taken apart in two inductions over the turns, that the recursion has a solution
(`FillTurnsExist`) and what memory is after i turns (`Filled`). `UpTo` is the induction they use: it
is stated for a set, which the provers can instantiate, and proved from the ranks of `Filtering`.

The accessors are compared through the number their bytes are the digits of (`Value`). Every write
method, the borrowing loop of `writeIntLE` included, leaves the digits of the value modulo
`Base^width` (`WriteStores`), every read method returns the number of its bytes, less `Base^width`
when the highest bit is set (`ReadMeans`), and for a value that passed `checkInt` the one undoes
the other (`MeaningOf`). The length bound of the invariant is needed because `checkOffset` compares
an offset after `>>> 0`. The last conjunct of `BufferAssumption` is arithmetic, the powers of `Base`
up to the eighth: the provers do not know exponentiation.

The loop of `arrayIndexOf` goes back after a partial match, so its states are pairs (i, foundIndex)
and the induction is over a rank that falls: first how far the match's beginning is from the end,
then i (`SearchFalls`). `LoopEnds` gives such a loop a result, `RankInduction` carries the invariant
(`Partial`: what lies between foundIndex and i has matched) from each state to the next, and a
restart leaves no place out (`Restart`).

### BufferStrings (`StringsAssumption`)

* `StringsStayTyped`: strings stay code units and Buffers bytes (`StringTypeOK`, inductive as it is);
* `BufferTextKeepsBytes`: hex, base64, latin1 and ucs2 keep every byte, both ways;
* `BufferBase64IsBits`: decoding base64 is exact for padded, unpadded, URL-safe and dirty text;
* `BufferUtf8RoundTrip`: UTF-8 keeps every character and replaces lone surrogates, with the one
  exception stated in the property;
* `BufferWritesWholeCharacters`: `write` stores whole characters only and stays within its room.

They hold for strings and Buffers of every length and in every state of the type invariant: the
work is in the operators, whose loops are recursive functions. The argument for each:

* Base64. Text and bytes are both read as bits. Six bits per digit and eight per byte are the same
  bits when four digits stand for three bytes (`GroupBytes`, `EncodeGroup`), and the last group is
  the same with zeros for what is missing; `Filter` gives the digits that `base64clean` keeps.
* `utf8ToBytes`. The loop is compared with the bytes of the string's characters, added up over the
  repaired string `WellFormed(s)` (`Totals`). Its invariant (`Turned`) says that after i code units the
  bytes are those of the characters that have ended, that a pending `leadSurrogate` is the last unit
  read, and that `units` is what the bytes leave of the room (`AtUnit`), or that a character did not
  fit and nothing has followed (`FullAt`). Which characters have ended (`Ended`) is where the exception
  comes from: of two leads at the end the second one stays pending when the loop is over.
* `utf8Slice`. It is read back from the end: at the place where the bytes of a character begin, it
  returns the rest of the characters, by an induction that descends over the ends of characters.
  The lemmas about one character are arithmetic on at most four bytes: the length that the first
  byte announces is the length `EncodeUtf8` has given it, and `CodePoint` undoes it.
* `write`. What the loop has written is the bytes of a prefix of whole characters, by its invariant,
  and `blitBuffer` cuts nothing of it off since the loop has kept to the room.

### Model-checked only

* Liveness (`TerminateObeyed`, `EveryRequestAnswered`, `ShutdownEnds`, `LockReached`,
  `CtrlCExits`): the prover has no reasoning about fairness or ENABLED here.
* `CacheTests.AssertionsHold`: about given programs, which TLC runs to their end.

## 5. Plan

Done: the request loop, both runners and the service they implement, the Cache API with its
tests, `EventTarget`, `AsyncContext`, `Buffer` and `BufferStrings`; every safety property of these
but the assertions of the tests is proved.

Next:

1. `RequestHandlers`: the listener slot, `respondWith` at most once, and the Cloudflare routes as
   operators; shown to offer the request loop only the outcomes it assumes.
2. Proofs about it, from the theorems of `RequestLoopProofs`.

## 6. Not modelled

* hyper, tokio, SpiderMonkey and the runtime crate (fetch, streams, URLs): external. They appear
  as the choices they offer the code; so do the tests of streams and URLs.
* The service-worker and Cloudflare handlers: only their outcomes reach the request loop.
* Web Crypto: sequential validation around library primitives.
* `Event`'s propagation and cancelled flags and `composedPath`: nothing in the repository reads
  them, and the path is always empty.
* exec mode (no concurrent state), watch mode (commented out), CLI parsing, file serving, floating
  point in Buffers (ieee754), readable-stream.
