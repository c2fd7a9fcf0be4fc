# Formal models of the boltffi runtime

boltffi scans a Rust crate, and generates the C ABI and the host-language code
(Swift, Kotlin, Java, C#, Dart, Python, Ruby, TypeScript) that calls it. Most of
the repository is that generator: it runs once, sequentially, on files. What can
go wrong in ways a test hardly reaches is the part that is *linked into the
product*: the runtime in `boltffi_core`, its Dart and TypeScript counterparts,
and the host-side templates that drive it from other threads. This directory
models that part.

## 1. Inventory

| Component | Source | State it keeps | Operations | Talks to |
|---|---|---|---|---|
| Continuation scheduler | `boltffi_core/src/runtime/continuation.rs` | `state` (Empty, Waked, Stored, Cancelled), `callback_ptr`, `callback_data`: three atomics | `store_continuation`, `wake`, `cancel` | called by futures and streams, calls the host's continuation |
| Rust future | `.../runtime/future.rs` | execution state under a mutex, wake target shared with the wakers | `poll`, `complete`, `panic_message`, `cancel`, `free`, `poll_sync` (wasm), waker vtable | scheduler, the executor that wakes, the host's driver |
| Host drivers of a future | `boltffi_backend/templates/target/*/` | per-language slot of the suspended call | the poll / continuation / complete / free handshake, task cancellation | Rust future |
| SPSC ring buffer | `boltffi_core/src/ringbuffer.rs` | slots, producer and consumer index | `push`, `pop`, `pop_batch_into`, `available_count` | event subscription |
| Event subscription | `.../runtime/subscription.rs` | ring, `is_active`, condvar, scheduler | `push_event`, `pop_batch_into`, `wait_for_events`, `poll`, `unsubscribe` | ring, scheduler, host stream consumer |
| Stream producer | `.../runtime/subscription.rs` | fixed array of weak subscriber slots | `subscribe`, `push`, `subscriber_count` | event subscriptions |
| Foreign call | `.../runtime/foreign_call.rs` | completion cell and state, waker cell and state | `start`, `complete`, `poll`, drop | foreign async callback, Rust executor |
| Async callback registry | `.../runtime/async_callback.rs` | thread-local map of pending requests | `allocate`, `set_waker`, `complete`, `take_completion`, `cancel`, `remove` | wasm host |
| Pending future / handle tables | `.../runtime/pending.rs`, `handle.rs`, `callback/*` | handles, reference counts | create, clone, release | host objects |
| Dart gates | `boltffi_dart_runtime/src/lib.rs` | gate outcome, out slot, pending list, shutdown flag | `create_gate`, `signal_gate_ok`/`error`, `wait`, `destroy`, sync FFI scopes | isolate thread, Rust threads |
| TypeScript runtime | `runtime/typescript/src/*.ts` | pending futures, woken set, stream sessions, callback refcounts, handles | poll, wake, cancel, drain, retain/release | wasm module |
| Wire codec | `boltffi_core/src/wire/*`, `types/buf.rs` | byte buffers | encode, decode, ownership of `FfiBuf` | every call |
| Scanner, AST, binding IR, lowering | `boltffi_scan`, `boltffi_ast`, `boltffi_binding` | syntax trees | sequential passes | generator |
| Macros, backends, bindgen, CLI, verifier | `boltffi_macros`, `boltffi_backend` (renderers), `boltffi_bindgen`, `boltffi_cli`, `boltffi_verify` | files | sequential code generation, packaging | generator |

Everything above the last two rows is linked into the product or generated
into it, and runs concurrently with user code. How the parts meet:

```
 host code ── driver (async.swift, async.kt, ...) ── poll/complete/cancel/free ──► RustFuture
    ▲                                                                               │ store / wake / cancel
    └────────────── continuation callback ◄──── ContinuationScheduler ◄─────────────┤
    ▲                                                                               │
    └── stream driver ── poll/pop_batch/wait/unsubscribe/free ──► EventSubscription ┘
                                                                    │ push / pop
 Rust code ── StreamProducer.push ── Weak::upgrade ────────────────►└► SpscRingBuffer
 Rust task ── ForeignCall.poll ◄──── completion ──── host's async callback
```

What is hard in each part, and what makes it correct:

- **Continuation scheduler.** Three atomics stand for one slot. Stores, wakes
  and cancels race; a wake may come before the store it is meant for. Each
  continuation has to be run exactly once, with its own data, and a wake or a
  cancel has to reach it.
- **Rust future.** `poll` is three steps, and the lock is held in the middle one
  only; wakes, `cancel` and a poll made from inside a continuation fall in
  between. The host must not be left parked on a future that is ready, and
  `complete` must tell a result from a cancellation.
- **Host drivers.** Cancellation of the host's task arrives on any thread. The
  host's own continuation has to be resumed once; the handle has to be freed,
  once, when no call is inside it.
- **Ring buffer.** Two threads, two indices that wrap, slots without a lock. No
  slot may be written while it is read, and what comes out is a queue.
- **Event subscription.** Three ways to read (continuation, batch, blocking
  wait), two ways to end (either side), and the last reference may be dropped by
  a push. Neither an accepted event nor the end of the stream may go unnoticed.
- **Stream producer.** Raw `Weak` pointers in slots that every call walks without
  a lock. A slot may not be followed after its memory is gone.
- **Foreign call.** Two `UnsafeCell`s shared by a polling task and a completion
  on another thread. No access may overlap, the answer must be dropped once, and
  the last waker must be woken.
- **Async callback registry, TypeScript runtime.** One thread, but re-entrant:
  wakes and cancels are deferred to microtasks, and handles and identifiers are
  used again.
- **Dart gates.** A Rust thread blocks until the isolate answers; the isolate may
  be blocked too, or shut down.

## 2. Modules

Proof modules are named after the module they are about. Properties stand at
the end of each module, with a comment each. Definitions marked `Mutant:` are
wrong versions of the definition that follows them; no specification uses them.
They record which plausible bug each property would notice.

| Module | What it is | Builds on |
|---|---|---|
| `ContinuationHandoff` | abstract: one slot, every operation one step | |
| `ContinuationScheduler` | the three atomics, a step per access | implements `ContinuationHandoff` |
| `RustFuture` | operations of a future handle and the Rust side of it | same slot as `ContinuationHandoff` |
| `RustFutureHandshake` | the most general host that keeps to the handshake | `RustFuture` |
| `KotlinAsyncCall`, `SwiftAsyncCall`, `JavaAsyncCall`, `CSharpAsyncCall`, `DartAsyncCall`, `PythonAsyncCall` | the drivers of six languages | `RustFuture` |
| `AsyncDrivers` | one call under any of the seven | the above; the drivers keep to `RustFutureHandshake` |
| `AsyncCallbackRegistry` | requests of asynchronous host callbacks, numbered | |
| `WasmAsyncCall` | the TypeScript driver, the wasm entry points and the host's answers | `AsyncCallbackRegistry` |
| `BoundedFifo` | abstract: a queue of at most `Capacity` events | |
| `SpscRingBuffer` | the ring, a step per index or slot access | implements `BoundedFifo` |
| `EventSubscription` | operations of one subscription | ring as `BoundedFifo`, slot as `ContinuationHandoff` |
| `EventSubscriptionHost` | the most general host that reads one | `EventSubscription` |
| `StreamContext` | the stream drivers of Swift, Kotlin and Java | `EventSubscription` |
| `StreamDrivers` | one subscription under any of the four | `StreamContext`, `EventSubscriptionHost` |
| `DartStream`, `TypeScriptStream`, `CSharpStream` | the readers of three languages, which have no context | `EventSubscription` |
| `StreamHosts` | one subscription under any of the seven | `StreamDrivers` and the three |
| `StreamProducer` | the table of subscriber slots | |
| `AwaitedAnswer` | abstract: a future with one answer, a poll one step | |
| `ForeignCall` | a Rust task that awaits the host, a step per access | implements `AwaitedAnswer` |
| `DartGate` | worker threads that call into a Dart isolate | |

The composition is by level. `RustFuture` and `EventSubscription` take the slot,
and the latter the ring, at the granularity of the abstract module, one step per
operation. That this is enough is what `ImplementsHandoff` and
`ImplementsFifo` (checked, and the safety part of both proved) say of the atomics. Both
hold of serial users only, and the levels above are proved to be such:
`DriversOfferOneByOne` and `ReadersOfferOneByOne` that a poll which comes to store its
continuation finds the earlier ones run, `RingHasOneUserASide` that the ring has one
producer and one consumer at a time. In the same way `ImplementsAwaited` says of a
`ForeignCall` that it is a Rust future like those `RustFuture` takes. The
drivers stand beside each other over the same library: `AsyncDrivers`,
`StreamDrivers` and `StreamHosts` choose one of them in the initial state, so that
one property asks the same of all. `StreamHosts` puts three more readers beside
those of `StreamDrivers`.

### State and actions against the code

`PROJECT.json` gives the source lines of every definition. In outline:

- `ContinuationScheduler`: `state`, `callback_ptr`, `callback_data` are the
  struct's fields. `call[t]` is the frame of the call thread `t` is in: program
  counter, argument, the state it loaded, the pointer and data it loaded.
  `CallStore`, `CallWake`, `CallCancel` enter a call; `ReadState` is
  `current_state`; `TryTransition` the compare-exchange with the `match` around
  it; `WriteData`, `WritePtr`, `LoadPtr`, `LoadData`, `Invoke` are one access
  each. A continuation stands for its pointer and its data, so a mixed pair is
  visible (`torn`). `MayDisplace = FALSE` is a consumer that stores again only
  after its last continuation was run. Every consumer in the repository is such.
- `RustFuture`: `exec` is `future_execution_state`, `inner` whether the user's
  future can finish, `waker` whether it holds a waker. A poll `p` is identified
  by the continuation it passes, and `at[p]` says which of its three steps is
  next. `freed` is the handle, `touched` records that it was used later. `cancel` and
  `free` borrow the future while they run the parked continuation (`CancelDelivers`);
  a `free` does not wait for another thread's `cancel`. The handshake asks that of the
  host, and so each driver's way of seeing to it is a guard of its release.
- `KotlinAsyncCall`: `map` is `boltffiContinuationMap`, `co` the place in
  `boltffiCallAsync`, `job` and `handler` the kotlinx objects. The library is
  modelled by what the code relies on, listed at the head of the module.
- `SwiftAsyncCall`: `continuationSlot` is the atomic word that install, the ready
  closure and `onCancel` compete for. `checking` and `tasks` are a driver between
  `canPoll()` and the poll of the Task it started.
- `JavaAsyncCall`: `opPhase`, `activePoll`, `delivery` and `continuations` are the
  atomics of `Operation` and `PollSignal` and the map, one access a step. Three
  kinds of threads meet in them: the drive loop (`frame["drive"]`), the callers of
  `cancel()` (`frame[c]`), and JNI's `resume` (`callback[p]`). `returned` says that the
  first `drive()` is over and `call()` returned its result: before, nobody can cancel.
- `CSharpAsyncCall`: `method` is the place in `CallAsync` and `PollOnceAsync`,
  `Continuations` the dictionary, `hooks` what is registered with the token and
  `hook` the one its source is running. `RustFutureOwner` is `ownerCancelled` and
  the handle itself; its lock makes each of its methods one step, but for the
  continuation that a cancel runs, which `CReleases` waits for.
- `DartAsyncCall`: `isolate` is where the one isolate is, between turns "idle".
  `_pollCallable` is the listener, `pending` the call's entry in `_pending`, and
  `received` the messages handled so far: a first poll that answers Ready is told
  twice, by its return and by its message.
- `PythonAsyncCall`: `wait` is the place in the coroutine, `ready` the asyncio
  future of the poll it awaits, `scheduled` the `set_result` calls that were handed
  to the loop by the threads that ran a continuation.
- `WasmAsyncCall`: one thread. `stack` is the polls under way, the innermost last,
  since a poll may call a host function that starts or aborts a call; `jobs` is the
  microtask queue, which runs when the stack is empty. `pendingFutures`,
  `wokenHandles`, `drainScheduled` and `failure` are `AsyncFutureManager`'s, and
  handles are addresses that a later call may get again. The registry's entries
  carry the request they were made for (`of`), so that an answer taken for
  another's is visible when the 32-bit numbers go round (modulo `MaxId`).
- `SpscRingBuffer`: fields as in the code; indices count modulo `Word`
  (a release build: a debug build panics on the overflow). `push[t]` and `take`
  are the frames of the two sides; `alive` ends with `Drop`. `MayOverlap` lets two
  pushes run at once, which `&self` permits.
- `EventSubscription`: `queue`, `held`, `offer` are the ring; `slot`, `phase`,
  `signal`, `by` the continuation slot and who runs a continuation out of it;
  `active` is `is_active`; `wait` a thread in `wait_for_events`, between its test
  and its sleep too, since `notify_one` is called without the mutex. `strong` is
  who holds a reference: the host's handle, each push under way, the class
  (`Owned`). The last to leave runs `Drop`. `EventSubscriptionHost` adds where the
  reader is (`reader`) and what it was last told (`answer`).
- `StreamContext`: `lifecycle` and `processing` are the two bytes all three
  languages have; `chain` is the poll chain with the Task, coroutine or loop
  between two polls; `term[x]` is where each thread is in `requestTermination` and
  `finalizeIfIdle`. The callback runs on the thread of the call that runs the
  continuation, which goes on after it (`under`). The canceller waits for `start()` to
  return (`StartReturns`), which in Swift and Java makes the first poll. What the languages do differently
  is a disjunct guarded by `host`: Java's callback returns before its loop handles
  the poll, a Kotlin collector may be cancelled inside a send.
- `DartStream`: `turn` is where the isolate is, "out" between turns; `microtask` the
  rest of a drain that `streamCallback` left for later, `streamActive` its `active`.
- `TypeScriptStream`: one thread, so JavaScript goes on when no call into the
  library is under way (`Idle`). `iterator` is the generator, `closed` and
  `unsubscribed` the flags of the session, `pending` the entry of the poll manager
  and `pollResult` what its promise was resolved with.
- `CSharpStream`: `readAll` is the place in the iterator `ReadAll`, `streamToken`
  its cancellation token. It never polls, it waits.
- `StreamProducer`: `weak_ptr` are the slots, a subscription is its address, and
  an address is free for the allocator when neither a strong reference nor a
  `Weak` is left (`Allocated`).
- `ForeignCall`: fields as in the code, the flags of `waker_state` as a set;
  `task` and `host` are the two frames, `refs` who holds the `Arc`.
- `DartGate`: `alive` and `outstanding` are the header's state, `outcome` and
  `out_free` a gate's; `slot` is the memory for the result and `refs` who counts in
  the gate's `Arc`. `pc[w]` is a worker's place in its shim, `isolate` and `serves`
  the listener's, `doomed` the gates that a `destroy` in progress has to cancel,
  `depth` and `joining` the synchronous exports.

Interleavings are sequentially consistent. For the plain data (slots, waker
cell, answer) that is enough: each is handed over by a release and an acquire of
the index or state word, and `CellsExclusive` and `SlotsOwned` say no two accesses
meet. What weaker orders allow between two *different* atomic words, such as a
stale load of `state` by a wake, is not explored.

## 3. Runs

| Run | Specification, bounds | What it shows |
|---|---|---|
| `scheduler` | `ContinuationScheduler`, 3 threads, 2 continuations; 94 thousand states | No continuation is run twice, with another's data, or forgotten; the cells are never shared (`CellsExclusive`); wakes and cancels reach the consumer; the atomics implement the one-step slot, fairness included. |
| `async_drivers` | `AsyncDrivers`, six drivers and the general host, 3 polls, 1 spurious wake, 2 cancellers; a cancel at any point at which the caller can make one; 262 thousand states | Under each driver the result or the cancellation is told as it should (`OutcomeSound`), nobody is left parked with nothing to wake it (`NoSilentWait`), no map or dictionary keeps an entry and no listener is closed that a thread may still run (`NothingLeftBehind`), Swift's continuation is resumed at most once, one Java thread ends the call (`JavaOneOwner`), the driver is a host that keeps to the handshake (`KeepsHandshake`, a refinement; Swift's, once `onCancel` frees, to the order of the calls only), and its call ends. |
| `wasm_async` | `WasmAsyncCall`, 2 calls, 2 handles, 3 requests numbered modulo 2, 2 nested polls, 1 stray wake | A handle used again is never polled, woken or cancelled for the call that had it before; nothing is leaked unless the module failed; an answer reaches its own request, up to a whole round of numbers; answers and cancels are heard. |
| `ring_buffer` | `SpscRingBuffer`, capacity 4, indices modulo 8, batches up to 3, two threads that push one at a time; 333 thousand states | No slot is overwritten or read twice, counts are honest, Drop leaks nothing unless the indices wrapped, and the ring is a bounded queue, with every call returning. |
| `streams` | `StreamHosts`, the four hosts of `StreamDrivers` and three bindings, one pushing thread, one event pushed any number of times, one continuation at a time, ring of 2, batches of up to 2; 580 thousand states | No use after free by a reader that waits for its calls, the three bindings among them (`HandleIsHeld`), no silent park, a Closed is real, an EventsAvailable has events behind it, events are taken, though not by C# once the stream was closed, and the end is told, although a notify may be lost (`EventsAreTaken`, `StreamEnds`); the contexts pop only what they hold and free once. |
| `foreign_call` | `ForeignCall`, 2 wakers | Cells are never shared, the answer is moved or dropped once, and reaches the task; the accesses of poll and completion implement the one-step future (`ImplementsAwaited`, fairness included). |
| `dart_gate` | `DartGate`, 2 workers, 2 gates, exports one deep; 172 thousand states | The slot of a result is written, read and freed in order whatever is cancelled; `destroy` misses no gate; a waiter's answer is not replaced; every waiter is told unless the isolate is stuck in a join. |
| `swift_free_under_poll` | `SwiftAsyncCall`, 2 polls | Finding 1. |
| `java_cancel_race` | `JavaAsyncCall`, 2 polls, 1 canceller | Finding 2, at the second poll. |
| `stream_free` | `StreamContext`, Swift, nobody but the host holding the subscription, batches of 1 | Finding 3, at the second poll. |
| `stream_producer_race` | `StreamProducer`, 2 threads, 2 slots, 2 addresses | Finding 4. |
| `dart_join` | as `dart_gate` | Finding 5. |

### Why the bounds are enough

Three threads are the least with which a store, a wake and a cancel race, and
two continuations the least with which one can be taken for another. Three polls
allow a first poll, one that a spurious wake causes and one that the real wake
causes; two cancellers are a cancel that meets another. A ring of four slots with
indices modulo 8 wraps both; the batch of 3 does not divide the capacity. The
subscription has a ring of two and batches of two: a full batch, one that is not,
and an event that arrives behind one. Two calls into wasm
with two handles nest, follow each other at one address, or live side by side; three
requests numbered modulo two go round. Two wakers are a change of waker. Two workers
are one that `destroy` finds and one that it meets in `create_gate`. Two addresses let
the allocator give one back while the other is in use. For the scheduler, the future
under the handshake and under each driver, the calls into wasm, the ring, the foreign
call, the subscription with its hosts, the gates and the serial producer the theorems
below do away with the bounds.

Besides the sets of threads, polls, continuations, wakers, workers, gates, calls and
addresses, `MaxSpurious`, `MaxBatch`, `MaxRequests`, `MaxId`, `MaxDepth` and `Word`
are the only bounds on what grows; everything else is bounded by the code. A run
without deadlock checking is one of a system that may stop: a finished call, a
closed stream.

In `streams` the class keeps a reference of the subscription (`Owned = TRUE`), so
its memory outlives a context's free, and a call that comes after the free finds it
there. `stream_free` is the case in which it does not. A Swift call is followed up
to its first use of freed memory, and its liveness is claimed that far; the
liveness of a Java call is claimed when it is not cancelled. Findings 1 and 2 are
about what these two conditions leave out.

`EventsAreTaken` lets an event stay in the ring if the user gives the stream up
(`GivesUp`), not if the code that reads it ends it because it was told the end. It
excepts C# by name (`LeavesUnread`): `ReadAll` leaves as soon as a wait tells it
Unsubscribed (`csharp/render/stream.rs:212`) and does not read what was pushed between
its last read and the end. That contradicts `docs/src/content/docs/streaming.mdx:194`,
"Each subscriber gets its own buffer and receives all events pushed after
subscribing". Without `LeavesUnread` TLC finds the property violated, by C# alone: the
other six readers keep to it.

### Fairness

- *Library code runs on.* A thread that entered an operation of the runtime takes
  its next step: weak fairness of each thread's steps (`Run`, `RunPush`, `RunPoll`,
  `RunTake`, `RunUnsubscribe`, `Library`, a shim's `InShim`, `CancelNext` of a
  `destroy`). Nothing in it blocks, except the mutex of a future, held for one step,
  the condvar wait, and the wait of a gate.
- *Time passes.* A wait that sleeps times out unless something ends it first,
  however often it is woken: strong fairness of `TimesOut`.
- *Drivers and executors run what they have.* A coroutine or Task that was
  resumed goes on (`Coroutine`, `Driver`, `OnCancel`, `RunChain`, `RunTerm`), and so
  do Java's loop, callbacks and cancellers, the C# method, its callbacks and the
  source of its token, and the loop of asyncio, with the steps of its task; the executor polls a task that was
  woken (`PollDue`), a reader that was told something reads (`Reads`), a host answers
  a continuation by polling again or completing.
- *JavaScript runs its jobs.* A poll and a callback return (`Polls`, `HostReturns`),
  and a microtask that was queued is run (`Jobs`). In `TypeScriptStream` other Rust
  code may run in between again and again, hence strong fairness of `TSRuns`.
- *A consumer goes on with its stream.* It asks a C# or TypeScript iterator for the
  next item, or returns from its loop (`CSYields`, `TSResumes`).
- *The Dart event loop is fair.* The isolate takes the turns it has (`Turn`,
  `DSTurns`). A listener that was posted is run although the
  isolate enters one synchronous export after the other in between, hence strong
  fairness of `Listener`. An export that joins nobody returns.
- *A foreign call is answered.* `ForeignCall` assumes that the host completes what
  was started, which its interface asks of it. `WasmAsyncCall` does not: a host
  callback may stay unanswered.
- Nobody is obliged to push, to wake, to cancel, to close or to free. Liveness
  properties therefore start from an event accepted, a call cancelled, a wake
  made.

## 4. Theorems

All are checked by TLAPS down to the last leaf, for every value of the constants
that satisfies the modules' assumptions.

- **`ContinuationSchedulerProofs`.** `TypeCorrect` for every consumer. With the
  serial consumer, `SerialConsumerSafe` (`InvokedAtMostOnce` and `NeverForgotten`)
  and `SerialCellsExclusive`, and `ImplementsOneSlot`, the safety part of
  `ImplementsHandoff`. Neither invariant is inductive. `SlotInv` adds that at most one
  thread is busy with the slot (storing, or about to invoke), none while the state
  is Stored, that the busy thread or the Stored state owns the one pending
  continuation, and what each label implies about the frame. `OwnerStep` is the
  step of the thread that is busy, `PrivateStep` that of one that is not. For the
  refinement `Bars` says what the mapping comes to under `SlotInv`, without its
  `CHOOSE`: the busy thread is the only one that claims anything, so the signal is
  its own. The compare-exchange is then the step of the handoff (`TransitionHandsOff`)
  and the invocation the delivery; a store that finds the slot cancelled claims on
  its read, and every other access is a stutter.
- **`AsyncDriversProofs`, the Rust future.** `OutcomeIsSound` and `NobodyWaitsInSilence`,
  under any host that keeps to the handshake, for any number of polls and spurious
  wakes. The argument of `NoSilentWait` is `WakeComes`: a poll
  that found the Rust future pending, or has parked, leaves a waker with it, or a
  wake is under way, or the wake has left its mark in the slot that the poll will
  offer itself to. That `complete` and `free` meet no poll, and `free` no cancel that
  is running a continuation, is `HostIsSerial` and `FreeIsQuiet`. For the general host
  these are its guards; that the drivers keep to them is what the next item proves.
- **`AsyncDriversProofs`, the drivers.** All safety properties of the run `async_drivers`, for any
  number of polls, spurious wakes and cancellers. `DriversKeepHandshake` is the
  refinement `KeepsHandshake`; with it `complete` tells the truth and nobody is parked in
  silence under each driver (`DriversGetTheTruth`), and no poll, `complete` or cancel uses
  the handle after its free, nor does a cancel that is still delivering when the free
  comes (`DriversDoNotDangle`, of Swift while `InTurn`). `CallLeavesNothing`,
  `ContinuationResumedOnce` and `JavaHasOneOwner` are what the drivers promise
  themselves. A driver knows of the Rust future
  what its polls were told (`told`), which of them run (`inside`), and what it did with
  the handle (`taking`, `freed`). `RustFollows`, `PollFollows`, `CompleteFollows` and
  the like say what each step of `RustFuture` does to these four, given `FutureInv`; the
  invariant of each driver then speaks of them and of its own variables only, and no
  proof about a driver opens the slot. The invariants say which poll is outstanding at
  each place of the driver (`KPolls`, `CPollsAgree`, `DTPollsAgree`), who still owns the
  map's entry (`KMap`, `CEntries`), whether a message or callback is due, and for Java
  which labels of the loop and of a canceller go with which phase (`JDrive`,
  `JSignals`, `JOwner`). A Swift call whose `onCancel` has taken the
  continuation frees under a poll (finding 1). The invariant of the Rust side is
  therefore cut in two: `FutureCore` is inductive under `HastyNext`, a host that keeps
  to the order of the calls but may free under a poll, and use the handle after;
  only `FreeIsQuiet` and `NoUseAfterFree` need the handshake. Swift's driver is a
  `HastyNext` host throughout (`SwiftBelieves`), and keeps to the handshake `InTurn`.
  On the same invariants rest `DriversOfferOneByOne` (above) and three theorems about
  what the call comes to. `CallersGetTheTruth`: the caller gets a value only if the
  future produced it and `complete` took it, an error or a cancellation only if the
  future failed or somebody asked. `CallerInv` says so of each driver's outcome, and
  `Stands` that an answer `complete` gave is not replaced. `OverIsFreed`: a call that is
  over (`CallIsOver`) has dropped the Rust future, so no handle leaks. A Java call that
  is stuck as in finding 2 is not over. `UncancelledCallsGoOn` is the counterpart of that
  finding: while nobody cancels, each label of the loop goes with one phase, or with two
  when the callback may mark it READY meanwhile (`LoopPhase`), and the callback finds
  the signal of each poll in the map (`SignalsKept`), so the loop never rests over a
  call that nothing will resume.
- **`WasmAsyncCallProofs`.** The four safety properties of the run `wasm_async`, for any
  number of calls, handles, requests and request numbers and any depth of nested polls:
  `HandleIsNotStale`, `CancelReachesItsCall`, `NothingLeaks`, `AnswerIsNotStale`. Of the
  stack and the job queue the invariant asks only who is on them (`Polled`, `Refused`,
  `Queued`); the lemmas `Pushed`, `Popped`, `Appended`, `Taken` say what a poll, a return
  and a job do to that, and the rest does not look inside a sequence. A live call is in
  one place, a first poll, the table or the queue (`PlacesAgree`, `NothingLost`), so
  whoever frees it is the last to hold it, and its handle comes free with no entry
  left under it (`HandlesAgree`). For the registry `Circle` says that the last `MaxId`
  numbers handed out are all different, and `EntriesAgree` that an entry, and the
  answer in it, belong to requests that had the entry's number.
- **`SpscRingBufferProofs`.** With one push at a time: `RingInvariant`,
  `SlotsAreOwned`, `CountsAreHonest`, `NothingIsLeaked`. The invariant says the
  occupied slots are those between the indices, less what a pop has read, and one
  more while a push is about to publish. The first lemmas are the arithmetic:
  indices count modulo `Word`, slots modulo `Capacity`, which divides it, so two
  positions less than `Capacity` apart have distinct slots across the wrap.
  `ImplementsBoundedFifo`: under `RingInv` each step of the ring is a step of
  `BoundedFifo` or a stutter. The queue is read off the slots. Four steps matter: the
  load that finds the ring full, the store that publishes, the load that sizes a
  batch, the store that gives the room back.
- **`ForeignCallProofs`.** `CallInvariant`, `CellsAreExclusive`,
  `AnswerIsDisposedOnce`, `NoWakeIsLost`. `CallInv` relates the flags of
  `waker_state` to the labels of the two frames: who set which flag is inside the
  cell or has left the wake to the other. `ImplementsOneAnswer` is the safety part of
  `ImplementsAwaited`: `Bars` says what the mapping comes to at each label, the answer is
  there once the completion state says so, a poll that is pending takes effect at its last
  load of that state and one that is not as it takes the answer, and most other accesses
  are stutters.
- **`StreamHostsProofs`.** All safety properties of the run `streams`, for any number
  of producers, events and polls, any ring and batch, and all seven hosts:
  `HandleStaysHeld`, `AvailableIsNoGuess`, `NobodyStaysStranded`, `ClosedIsTold`,
  `ContextPopsWhatItHolds`, `ContextFreesOnce`. The proof is by level.
  `SubscriptionInv` is about the library under any host that makes one poll at a
  time and does not free during its own unsubscribe: whoever is inside a call
  holds a reference (`References`), a closed stream has a closed slot or an
  unsubscribe that has still to close it (`EndComes`), a claimed continuation is
  run by a call that does not return before (`RunnerStays`), and `WakeComes` as for
  the future. `RustLeaves` is what a step of the Rust side leaves alone. On it rest
  the two invariants of hosts: `ReaderInv` (one call at a time, none once freed)
  and `ContextInv` (who drains has set `processing` and then read an open lifecycle,
  so a canceller that comes to free finds it busy). `DartInv`, `TypeScriptInv` and
  `CSharpInv` say of the bindings that each holds the subscription until the one
  release at its end, and makes a call only when the last has been answered.
  `RingHasOneUserASide`, `ReadersOfferOneByOne` and `SubscriptionTyped` follow from the
  same invariant. `ContextsDoNotDangle` is the counterpart of finding 3: whoever owns
  the subscription, a context that frees only outside the lines of its poll never uses
  it after, so the free between those lines is the only way to the violation.
- **`DartGateProofs`.** `SlotsAreSound`, `DestroyIsComplete`, `FirstAnswerIsKept`, for
  any number of workers and calls. `GateInv` says who owns what: each worker inside
  a shim the reference "worker" of a gate of its own, each call that is posted or
  served the reference "dart", and the gate its slot until the worker that was told
  Ok takes it over. `WakingWorkersFailFast` is the counterpart of finding 5: a worker
  that has yet to pass the check in `wait` when its join begins panics instead of
  deadlocking, since no step makes it sleep while the isolate is inside an export
  (`SleepStep`). A worker past the check counts as sleeping even on its way to the
  condvar.
- **`StreamProducerProofs`.** `ReadersMayOverlap`: any number of threads may push and
  count at once, and while no `subscribe` meets another call (`SubscribesAlone`) no
  `Weak` dangles and no live subscription is unregistered. Under `TableInv` what a call
  loaded from a slot is still in the slot, and what it found dead stays dead. It is the
  counterpart of finding 4: a `subscribe` that overlaps is the only way there.
  `NoDanglingWeak` and `LiveStaysRegistered`, of a producer that one thread at a time
  uses (`Serial`), are the special case.

The assumptions are about constants only: sizes are positive and the ring's word a
multiple of its capacity, and the stand-ins for "nobody" or for the states of a slot
are no members of the sets beside them (`NullAssumption`, `PollAssumption`,
`NamesAssumption`, `GateAssumption` and the like).

Only model-checked: every liveness property and the fairness part of the three
refinements of abstract modules (the prover does not do `ENABLED`). No module about
which theorems are stated uses a `RECURSIVE` operator, and no theorem needs induction
over data.

## 5. Findings

1. **The Swift driver frees a handle that is in use** (`swift/async.swift:160`).
   `onCancel` cancels and frees on the cancelling thread; the first `start()`, a
   poll under way, or a Task that `canPoll()` let through uses the handle then.
2. **A cancelled Java call may never end** (`java/runtime/async.java:333`). A
   `cancel()` that meets a poll answering Ready and the drive loop each leave the end
   of the call to the other: the `CompletableFuture` stays incomplete and the handle
   is not freed. The first poll is safe, since `call()` returns the `CompletableFuture`
   after it (lines 70-71); every later one, on the resume executor, is exposed.
3. **The stream contexts free under a poll** (`swift/stream.swift:275`, and the like
   in Kotlin and Java). `registerPoll` reads `lifecycle`, then polls;
   `finalizeIfIdle` looks at `processing`, which a poll does not set. In Swift and Java
   the first poll is safe, since `start()` makes it before anybody can cancel; in
   Swift every poll of a Task that `schedulePoll` starts is exposed (line 318), in
   Java every poll of a later `drive()`, in Kotlin the first too, as `start()` launches
   it.
4. **A producer used from two threads follows a freed `Weak`**
   (`subscription.rs:301`). `upgrade` loads the pointer and uses it; a concurrent
   `subscribe` may clear the slot and drop the last `Weak` in between. Two threads
   in `push_event` are also two producers of a ring made for one: with
   `MayOverlap = TRUE`, `SpscRingBuffer` violates `SlotsOwned`.
5. **A Dart export may wait for a worker that waits for it**
   (`boltffi_dart_runtime/src/lib.rs:108`). `wait` looks once whether the isolate is
   inside a synchronous export, and sleeps; the isolate may enter one that joins the
   worker afterwards.

`PROJECT.json` quotes the doc or comment each one disagrees with.

Observed while modelling, and claimed by no run:

- Java's `finishAsyncPoll` has a second gap of the kind of finding 2
  (`async.java:295`): a cancel that was told DEFERRED lands between the look for a
  deferred cancel and the rearming, and is lost. A stale PENDING poll may pass the
  test on WAITING at line 315 (the phase went round), and a cancelled delivery may
  leave its entry in `CONTINUATIONS`.
- Java's Flow publisher (`java/runtime/stream.java:292`) completes on a negative
  `waitResult` without draining what is left, and its `cancel()` frees on another
  thread than the worker's.
- C#'s `ReadAll` (`csharp/render/stream.rs:212`) also leaves on a negative wait without
  reading what the ring still holds, although `docs/src/content/docs/streaming.mdx:194`
  promises a subscriber "all events pushed after subscribing". This is a disagreement
  of code and doc like those above; no run is given to it alone, and `EventsAreTaken`
  excepts it by name (section 3).
- The ring's `Drop` walks the indices as a plain range (`ringbuffer.rs:138`), which is
  empty when the producer's has wrapped and the consumer's has not: the events left are
  leaked, on a 32-bit target after 2^32 of them. `NothingLeaked` leaves that range out.
- A Dart stream's `onCancel` (`dart/prelude.dart:1430`) closes the listener while a
  pushing thread may have claimed the parked continuation and be about to run it, of
  which line 21 of the same file warns for the listeners of callbacks.
- A Dart stream that had its share of batches yields by a microtask (line 1455).
  Microtasks run before timers and messages, so the event loop gets no turn in
  between, though the comments at 1372 and 1454 say that the yield is for it.
- A second iteration of a TypeScript session is rejected at its poll, and its
  `finally` disposes of the session under the first.
- `cancelById` during the first poll of a TypeScript call finds no id and does
  nothing; the caller has to ask again.
- `poll_sync` turns a panic into an error and locks the mutex again, which is
  poisoned then, in a build that unwinds.
- Request numbers of the registry wrap: `insert` then takes the place of a request
  that is still pending after 2^32 others (`AnswersItsOwn` says how far an answer
  may be trusted).

## 6. Not modelled

The map covers a small part of the repository's lines, and has to: nearly all of
them are the generator (scanner, IR, lowering, macros, renderers, CLI, verifier) and
its tests. It runs once, sequentially, and its inputs are programs, which small
instances do not represent; its snapshot tests fit it better. Of what is linked into
the product, left out are:

- Python's subscriptions, which pass each operation on to a caller that polls and
  waits as it likes. `EventSubscriptionHost` is such a caller.
- The batch classes of Swift, Kotlin, Java, C# and Dart, which add a closed flag or a
  null check to `EventSubscription`'s operations, and Java's Flow publisher.
- The reference counts of TypeScript's `CallbackRegistry`, one map operation each.
- Errors that a native call throws into Java or C#, and an asyncio loop that was closed
  under a call.
- A TypeScript session that is iterated twice, and a Dart listener that is run while
  it is closed (both above).
- `AsyncCallbackRegistry.cancel`, which only tests call, and `panic_message`: a wasm
  build aborts on a panic.
- The memory of the hooks of a Dart callback: whoever calls holds a reference of it.
- A consumer that stores over a parked continuation while a wake has claimed it.
  `ContinuationScheduler` admits it (`MayDisplace = TRUE`); the cells are then
  written without owning the slot, and the claimed continuation may be lost. No
  consumer of the repository does it, so no run claims anything of it.
- A subscription that found the producer's slots full (`subscription.rs:376`).
  `StreamProducer` takes that arm; nothing is claimed of the delivery of its events.
- Panics inside a native poll, poisoned mutexes and exhausted memory.
- Handle tables and `pending.rs` (one library call each) and the wire codec
  (sequential, without state).

## 7. Plan

Done, in the order of importance: the slot and its proofs; the future and its drivers
in six languages, with theirs; the ring, its proofs and its refinement; the
subscription, its general host, the stream contexts of three languages and the readers
of three more, with their proofs; the foreign call and the producer with theirs;
the gates of Dart with theirs; the asynchronous calls of wasm with the registry and their
proofs.

Next, in this order:

1. A run of `StreamProducer` with `MayOverlap = FALSE`, so that its theorems have a
   small instance beside them.
2. The gates of Dart as an abstract call with one answer, of which `DartGate` would be an
   implementation as `ForeignCall` is of `AwaitedAnswer`.
3. The type invariants of `StreamHosts` beyond the subscription, as theorems.
