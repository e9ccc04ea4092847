# Verification of godot-rust's runtime core

godot-rust (`gdext`) binds Rust to the Godot engine. Most of its lines are generated or are thin
wrappers over engine calls; the part whose correctness depends on *order* is small: the cell that
lets Rust methods of one object call each other, the life of objects, the executor of async tasks and
the futures on signals, lazily initialized globals, the thread-local state of calls, and the levels by which
the library and its classes are loaded and unloaded. This directory holds TLA+ models of that part, the
TLC configurations that check them, and the proofs that TLAPS checks.

Paths are relative to the repository's crates (`godot-cell/src/cell.rs`, in short `cell.rs`);
`PROJECT.json` maps each TLA+ definition to its lines.

## Inventory

### Components modelled

**Borrow counters** (`borrow_state.rs`). State: `shared_count`, `mut_count`, `inaccessible_count`,
`poisoned`. Operations: increment and decrement of each, all fallible. Correct when at most one tracked
`&mut` is accessible and no `&` beside it, when counts neither wrap nor go below zero, and when the
"poisoning" branches really are unreachable.

**GdCell and its guards** (`cell.rs`, `guards.rs`). State: the counters, the pointer to reborrow from,
the stack depth, and the live guards. `borrow`, `borrow_mut` and `make_inaccessible` create guards;
`make_inaccessible` puts the caller's `&mut` to sleep, so that a nested call can get another one.
Guards are dropped by Rust code in any order the borrow checker accepts; a wrong order panics, and the
panic may be caught by an engine callback. Correct when references that can be used never alias, and
when each derives from the newest pointer.

**GdCellBlocking and its guards** (`blocking_cell.rs`, `blocking_guards.rs`). The same cell shared by
threads (feature `experimental-threads`): a mutex around `ThreadTracker {mut_thread, shared_counts}`
and two condition variables. A call from another thread blocks instead of failing. Correct when one
thread mutates at a time, when a thread never waits for itself, when no wakeup is lost, and when
blocked threads return.

**Objects**: storage, `Gd`, construction (`instance_storage.rs`, `raw_gd.rs`, `gd.rs`, `bounds.rs`,
`registry/callbacks.rs`, `base_weak_initialization.rs`). State: the engine's reference count, the storage with its
borrow, `PENDING_STRONG_REFS`, the deferred calls. Operations: the two-part construction with user code
inside, `to_init_gd` and its surplus reference, clone, drop and `free` of a `Gd`, method calls, deletion by
the engine, `destroy_storage`. Correct when the count is the number of references, when what is referenced
lives, when a method never loses the storage it runs on, and when what nobody references is destroyed.

**Async runtime** (`async_runtime.rs`). A thread-local table of task slots, each `Empty`, `Gone`,
`Pending(future)` or `Polling`, with task ids. `spawn` polls at once (nested, if called by a future);
`GodotWaker::wake` defers a call into the engine's queue, from any thread, at any time, also after the slot was
given to another task; `TaskHandle::cancel`, `is_pending`; `cleanup` at deinitialization. Correct when a stale
waker or handle never touches the wrong task and no wake is lost.

**Signal futures** (`futures.rs`). A mutex around `{state, waker}`, shared by the future and by the
resolvers that sit in the engine's one-shot connection. Four things race on up to two threads: the
emission, the deletion of the signal's object, the poll and the drop of the future. Correct when the
future resolves to what happened, and when no destructor panics inside an engine callback.

**Global** (`global.rs`). A mutex around a `OnceCell`, with `lock` and `try_lock`; the initialization
function and the code that holds a guard may panic. Correct when a guard is exclusive and points to a
value, because `GlobalGuard` dereferences it unchecked.

**Calls** (`private.rs`, `call_error.rs`, `signature.rs`). Thread-local state that nested calls share: the slot for the
last call error, the depth of out-calls, the stack of panic contexts (raw pointers to closures). Calls go
in and out, fail and panic. Correct when this state is what the call stack says, when an error that was kept
from the console reaches a caller, and when an error is given to the call it belongs to.

**Library** (`init/mod.rs`, `registry/class.rs`, `signal_connections_registry.rs`, the binding in `godot-ffi`). State: the
loaded levels and the flag that guards their reload, the binding and its method tables, the classes by
level with their locks, the classes and singletons the engine knows, the stored signal connections. Correct
when levels load in order, when what the engine knows is what will be unregistered, and when an unloaded library
leaves nothing behind, also after panics of user code.

### How they interact

A `#[func]` call from the engine goes through `private.rs` (call depth, panic capture), finds the
instance storage, binds it through a `GdCell` or `GdCellBlocking` guard, and runs user code, which may call
the engine and so come back to the same cell (`base_mut` uses `make_inaccessible`). The guard's
`Drop` runs at the end of the call, also by unwinding, and the panic is caught at the callback. The
engine frees an object by a callback that reads `is_bound`. Async tasks are polled, and surplus references
released, by deferred engine calls on the main thread; a signal future is resolved by a callable that the engine invokes
and drops. Globals hold the class registry; the initialization levels fill and empty it.

In the models these meet as follows. `GdCell` and `GdCellBlocking` are built on the operators of `BorrowState`. What a
cell promises (`ReborrowStack`, `OwnedLock`) is what `ObjectLife` assumes of a bound object, and
`UnboundIsUnreferenced` of `GdCell` is what makes its `IsBound` the truth. `SignalFuture` wakes through the deferred call of
`AsyncRuntime`. `Library` composes levels, registry, binding and connections in one module, since each of their
callbacks runs through all of them.

### Hard behaviours

Re-entrance (a callback inside a call, a poll inside a poll, a destructor inside a release); drops in unusual orders and after
caught panics; handles that outlive what they name (wakers, task handles, `mut_thread`, stored errors); two threads on one
object, and on one signal; condition variables; destructors called by the engine, where a panic
cannot unwind; user code that panics between two steps of construction or registration; statics that survive
an unload. `PROJECT.json` `"hazards"` has each at its line, with the properties on it or why none is.

### Not modelled

| What | Why |
|---|---|
| `OnReady`, `OnEditor`, `DynGd`, script instances | one-way flags and wrappers over the cells and `Gd`s that are modelled |
| Built-in types, collections, math | float arithmetic and engine-owned containers; no control to check |
| Conversions, class ids | pure functions, and a cache of names |
| Code generation, macros, bindings | text generation at compile time; most of the repository's lines |
| Integration tests, examples | read for the contracts they state |
| Which async tasks, tools and caches `gdext_on_level_deinit` cleans up at Core (`init/mod.rs:268-275`) | their state is not part of `Library`; `AsyncRuntime` has the cleanup of tasks |
| What follows a second destruction of one object | undefined; `ObjectLife` ends the process there |
| A bind on another thread while its object is destroyed (`blocking_cell.rs:142`, `instance_storage.rs:294`) | the gap between check and free is open in the code; closing it is left to the user |
| Destructors of futures run under the runtime's `RefCell` borrow (`async_runtime.rs:198`) | `AsyncRuntime` drops futures silently |
| `to_init_gd` from Godot 4.7 on, recreation at hot reload | other branches of the same functions |
| Dyn-trait relations, editor plugins, class-info plugins | data carried along by registration |
| `DynamicSend` values dropped on the wrong thread | only the outcome of `extract_if_safe` is modelled |

These keep the share of modelled lines small: the control lies in few files, and those are covered.

## Modules

| Module | Models | Notes |
|---|---|---|
| `BorrowState` | each method of `BorrowState` | operators on a record: `XOk(b)` is "returns `Ok`", `X(b)` is the state it leaves |
| `BorrowStateCalls` | arbitrary calls on one `BorrowState` | the specification the unit tests of the file sample |
| `GdCell` | `GdCellInner` and the three guards | extends `BorrowState`; one action per constructor, drop and `try_drop` |
| `ReborrowStack` | what a cell promises: a stack of whole references | abstract; `GdCell` implements it |
| `GdCellBlocking` | the threaded cell | extends `BorrowState`; one step per critical section |
| `OwnedLock` | what a threaded cell promises: a reader-writer lock owned by threads | abstract; `GdCellBlocking` implements it |
| `ObjectLife` | construction, references, calls, destruction | nested calls on the main thread |
| `AsyncRuntime` | executor, handles, wakers, engine queue | |
| `TaskPool` | what the executor promises: a pool of named tasks without slots | abstract; `AsyncRuntime` implements it |
| `SignalFuture` | future, resolvers, emission, deletion | the engine's side is marked external in the map |
| `Global` | `lock`, `try_lock`, guards, panics | |
| `CallErrors` | nested calls over the thread-locals | |
| `Library` | levels, binding, classes, connections | one action per callback, or per part of one that user code interrupts |
| `MCGdCell`, `MCObjectLife`, `MCLibrary` | | instances for TLC |
| `GdCellProofs` (with `BorrowStateCalls`), `GdCellBlockingProofs`, `ObjectLifeProofs`, `AsyncRuntimeProofs`, `SignalFutureProofs`, `GlobalProofs`, `CallErrorsProofs`, `LibraryProofs` | | theorems and proofs, one module per specification |

How state and actions correspond to the code:

* `GdCell`. Every pointer in the code is the same address; what matters is its provenance, so a pointer is the
  mutable guard it was reborrowed from, or `Root`. A guard is a record with the fields of the Rust struct.
  `Asleep(m)` says what the borrow checker knows: while an inaccessible guard made from `m` lives, `m` can be
  neither used nor dropped. A drop that fails its assertion sets `panicked`, consumes the guard, and leaves the
  state as the code does at that point, poisoned or not; what aliases afterwards is `DropCausesNoUB`'s question. An attempt to borrow that returns `Err` changes
  nothing and is not a step.
* `GdCellBlocking`. `pc` is where a thread is: running, asleep on one of the two condition variables
  (`waitImmut`, `waitMut`), notified but without the mutex yet (`wokenImmut`, `wokenMut`), or between the two
  halves of `try_drop`. `CanDrop` is the *or* of `can_drop`, so that the newest inaccessible guard always passes and its drop may then panic.
  `newestLost` notes that such a panic consumed the newest one, whose depth no other guard has. Guards are counted per thread; the identity of guards is `GdCell`'s subject. Spurious
  wakeups are steps. A drop that panics while it holds the mutex poisons it, and every later lock panics.
* `ObjectLife`. `stack` is the native stack of the main thread: a constructor, a notification, a method, a
  destructor, or the release of a surplus reference, each with its object and who called it. `life` has the two
  parts of an object, the engine's and the storage. `gds` are the strong `Gd`s in user code, of which `Pins` are kept by
  calls in progress. `unclaimed` is Godot's rule that the first `init_ref` takes over the initial count. `Destroy` is
  `object_destroy` with the free callback; `crash` is the end of the process, which is deliberate for a
  bound object and not so where a callback cannot unwind. The model is of Godot before 4.7 and of the balanced and
  strict safeguard levels; what the engine does on its own (take a reference, delete) is limited to what it
  may do by its contract. In an object's destructor the engine may or may not say that it is valid; a `free` there panics, or destroys
  it again (`FreeDying`), as a constructor's panic does after the base was freed.
* `AsyncRuntime`. A slot is the `FutureSlot` with its state and id; `future` says whose future is stored, so that a
  mix-up is visible. `polling` is the native stack of `poll_future` calls. What a future does while polled is
  any sequence of spawns, wakes, cancels of tasks; then it returns `Pending`, `Ready` or panics. Ids of tasks are
  not reused (a 64-bit counter).
* `SignalFuture`. `emission` follows the engine: take the one-shot connection out, call the callable, then
  destroy it. `dropping` follows `FallibleSignalFuture::drop` step by step, since another thread may act between
  any two of them. `crashed` is a panic in a frame that cannot unwind.
* `Global`. `Owning` threads are inside the mutex; `initLock` and `initTry` are a thread inside `init_fn`.
* `CallErrors`. `stack` has the frames of one thread, `contexts` the frames whose closures are on the context stack. A stored error is abstracted to
  the out-calls in progress when it was raised and whether it was printed. The error print level is 2, the default; argument conversion may panic but calls nobody.
* `Library`. `up` and `falling` are how far the engine has come, `phase`, `todo` and `pending` where a callback is when user code runs or panics.
  `Close` either keeps the statics (the library stays mapped) or resets them. User code connects while the library is idle and in `on_stage_init` and
  `on_stage_deinit`. A double initialization of method tables is noted at every safeguard level, though only the strict one asserts it. `mishaps` and `twice` record what went wrong, for the properties only.

Definitions named `X_y`, next to `X`, are faulty variants of `X`. Each property is tested by running
TLC with such a variant in the place of `X`: it must then be violated. No specification uses one.

## Runs

| Run | Bounds | Checks |
|---|---|---|
| `borrow_state_calls` | `usize::MAX` = 8 | `Exclusive`, `NeverPoisonsItself` under every call sequence |
| `cell` | 6 guards (symmetric), `usize::MAX` = 3 | until a drop panics: no aliasing, `deref` never panics, provenance, refinement of `ReborrowStack`; also after: unbound means unreferenced, poison is final |
| `cell_panicking_drop` | 3 guards | **violated**: a drop that panics causes no aliasing |
| `blocking_cell` | 3 threads, 4 acquiring calls each, `usize::MAX` = 3, also wrong drop orders | one thread mutates, whatever panics, and until a drop panics through the only usable reference (`MutatorIsAlone`); no spurious error but one; no other thread changes what `try_drop` has seen; refinement of `OwnedLock`; every blocked thread returns |
| `object_life` | 2 objects (both counted, or one manual), 3 nested frames, 1 `Gd` to spare, 2 deferred calls | counts match references, what is referenced lives, a bound object keeps its storage, what nobody references is destroyed |
| `async_runtime` | 3 tasks, queue of 2 | slots are reused safely (`SlotsAreSafe`: own future polled, slot reserved, futures conserved, no panic by waking), `is_pending` is true; refinement of `TaskPool`; a woken task is polled or ends |
| `signal_future` | 1 future, 2 threads, queue of 3 | resolves to what happened, disconnected when dropped, two causes of a crash; resolves |
| `global` | 3 threads, 3 panics | guards are exclusive and initialized; one initialization |
| `call_errors` | 7 nested calls | thread-locals match the stack, silenced errors have a taker |
| `call_errors_stale_source` | 5 nested calls | **violated**: the source of an error is the call's own |
| `library` | 3 classes (1 of Core, 2 of Scene with a singleton), 2 connections (symmetric), opened twice | levels in order unless one loaded by hand panicked, what is registered is loaded, an unload without panics and late connections leaves nothing |
| `library_stage_panic_aborts` | the same | **violated**: a panic of `on_stage_init` or `on_stage_deinit` aborts neither loading nor unloading |

Why the bounds are enough. Six guards give three sleeping or awake mutable guards with their inaccessible guards,
which is a stack with a guard dropped out of order at each level; the proofs then cover any number. `usize::MAX` = 3
makes the overflow checks bite. Three threads are a mutator and two waiters, of the same kind or of
different ones: with one `notify_one` for two waiters a wrong choice shows. Four calls let a thread bind,
sleep, rebind and bind after release. Two objects are one under construction and one that is called or destroyed
meanwhile; three frames are a call, the constructor inside it, and a destructor inside that; two deferred calls
are the case of `to_init_gd` called twice. Three tasks are two that compete for one slot and one that polls around them. One signal future
suffices, for futures share nothing with each other; its three deferred wakes are one more than ever wait at a time.
Three panics poison a global by both ways and again afterwards. Seven nested calls are two out-calls inside each
other, each with an inbound call that fails or panics, between boundaries that catch. Two openings are a load and a reload, and a
class of Core beside those of Scene is what the reload from Scene has to load by hand. The largest state spaces are those of `library` (2.4
million states) and `object_life` (0.7 million).

Where a cfg switches deadlock checking off, the program may stop for good: all calls within the bound made,
all guards kept, the future gone, the library closed, the process ended.

### Fairness, and why the code justifies it

* `GdCellBlocking`: `WF(Recheck(t))`: a notified thread gets the mutex in the end, since critical sections are short
  and never wait inside. `WF(Drop(t))`: a running thread drops its guards in the end, as each belongs to one
  call of user code. No fairness on new calls or on spurious wakeups, and none that would prefer a mutator to
  readers: the code promises nothing against starvation, which the bound on calls excludes. `BlockedReturns` excludes
  drops that panic: after one, threads asleep stay asleep, since nobody notifies them.
* `ObjectLife`: `SF(RunDeferred(o))`: whenever the engine is idle often enough, it runs the calls deferred to it. `Reclaimed` states
  "often enough" as its premise, since nothing obliges user code to return.
* `AsyncRuntime`: `WF(RunDeferred)`: the engine empties its queue each frame. `WF(PollEnds)`: `poll` returns.
* `SignalFuture`: the engine finishes an emission it began, empties its queue, a spawned task is polled once
  (`spawn` does so itself), and a destructor that began ends. Nothing says that a signal is emitted.

## Proofs

TLAPS checks these for every value of the constants. The only assumptions are the named `ASSUME`s of the modules:
`Guards` is finite and lacks `Root`, `usize::MAX` is a positive number, the set of threads is not empty and finite,
each class has an initialization level and singletons are classes, the three flags of a signal are Booleans,
and bounds on calls, panics, depths, tasks, queues and openings are numbers. TLC evaluates each on the runs of its module.

Every safety invariant and action property of the passing runs is a theorem, and so are the three refinements. Each proof has the same
shape: an inductive invariant `IInv` (`CallsInv` for the counters), one lemma per action that keeps it, and the
properties as its consequences. TLC was used to check each `IInv` on the bounds of its run before it was proved.

* `GdCellProofs`, the counters: it first states what each method of `BorrowState` returns, keeps and bounds. Any sequence of
  calls (`CallsSpec`) keeps the counters typed, lets no accessible mutable reference coexist with a shared one, and never
  poisons the state by itself. The conjunction of the three is inductive.
* `GdCellProofs`, the cell: no aliasing, `deref` that never panics, a cell that is not bound and has no reference to it, each guard's
  pointer derived from the current one, and poisoning that is final, for any number of guards. None is inductive alone. `IInv`
  adds three parts. *Covered*, which outlives panics: each counter is at least the number of guards it counts, so a
  free cell has no guards. *Stacked*, until a panic: the counters equal these numbers, mutable guards are numbered
  `1 .. mut_count`, and the inaccessible guard of depth *k* covers the mutable guard with count *k*; this is why the mutable guard
  on top is the only accessible one. *Chained*: each guard's pointer is that of the guard asleep below it.
  From the same invariant the cell implements `ReborrowStack`: under *Stacked* the sequence of sleeping references, which the code
  keeps only as numbers, is determined by the guards' counts (`StackView`), and each of the seven kinds of step
  is a step of the stack or, after a panic, a stutter.
* `GdCellBlockingProofs`: for any number of threads, a thread with a mutable guard is alone in the cell, whatever panicked;
  until a drop panics, it has no shared guard itself while it can write; a thread without guards is served or blocks (unless it is the stale
  owner described below); no other thread changes the counters that `try_drop` has seen, which does not mean that its drop succeeds; and the cell
  implements `OwnedLock`: initial states map to initial states, and every step to a step or a stutter. *Alone* outlives
  every panic. While the mutex is whole, *Owned* ties the tracker to the guards, and *RefsCounted* says that the shared
  counter is the size of the set of shared guards, each numbered within its thread, which spares a sum over threads.
* `ObjectLifeProofs`: for any objects, any nesting of calls and any number of references, counts equal references, a counted
  object lives through its initialization and as long as a strong `Gd` to it (unless its constructor panicked after it handed that `Gd` out), and no method loses its storage. `IInv` adds what each frame on the native stack knows of its object
  (*FramesHold*: under construction, whole, or being destroyed, and which reference keeps it while nobody else may have one: the
  unclaimed one or the surplus one of `to_init_gd`; and that a method runs only on an object whose initial count was claimed), that an object is constructed and
  destroyed by one frame each (*OnceEach*), that a live object was not destroyed before and has a count of at least one (*Referenced*),
  and that a call through a `Gd` keeps that `Gd` (*Pinned*). Without *FramesHold* a nested drop could take
  the last reference while the constructor below still runs.
* `AsyncRuntimeProofs`: for any number of tasks, slots are reused safely and `is_pending` is true. *SlotsOwn*: no two slots in
  progress have one id, and a parked future is its slot's. *PollsReserve*: polls in progress and slots marked
  `Polling` are one to one, so the slot is still there when the poll ends; that their numbers agree, which the run checks, follows by
  an injection. *StatusTells* and *RefsKnown* link tasks, slots, handles and wakers; a stale reference names a slot that
  holds another id. *CleanedUp*: nothing is left after shutdown.
  The runtime implements `TaskPool`, where wakes, polls and cancels name tasks and there are no slots: each step of the runtime is one
  step of the pool. A task waits when its future is parked in some slot; the sequences of polls and calls correspond item by
  item. It needs *OneRefEach*: the handle, the waker, the poll and the waiting calls of a task share one index, so that
  giving up a handle gives up the only one of its task.
* `SignalFutureProofs`: whichever flags are set and however many wakes wait, the future resolves to what happened, is disconnected once
  dropped, and ends the process for two reasons only. *UsedUpOnce*: emission, object and drop consume one connection between them.
  *StateTells*: while the future may still be polled, `Dead` means a value was taken, or the object ended before
  an emission reached the resolver. *DropKnows*: what each stage of the drop may assume although another thread acts between any two.
* `CallErrorsProofs`: for calls nested to any depth, with errors and panics at any place, the guard counter and the stack of
  contexts match the call stack, and an error that was not printed has a caller that will see it. The
  strengthening says that only the innermost frame converts arguments, and that an error raised before a call is not under it.
* `GlobalProofs`: any number of threads and of panics; a guard is alone and points to an initialized value, and a global is
  initialized once. The strengthening is that the mutex has one owner and that `init_fn` runs only while there is no value.
* `LibraryProofs`: for any classes on any levels, any singletons and connections and any number of openings, levels load in
  order unless a panic cut the loading by hand short, the engine knows no class without an entry, and an unload leaves nothing behind unless `on_stage_deinit`
  or the registry panicked or a connection came after the editor level fell. *Shape* says where a library may be in its
  life, and which levels are still to load. *LoadsLeft* bounds a class's entries by the number of openings: a
  level is loaded once in each. *TablesBelow* and *LoadedBelow* place method tables and entries below the level reached, *KnownIsLoaded* and
  *PendingIsLoaded* tie the engine's classes to the entries, *BindingIsDown* and *ConnectionsStored* say what an unload has done on its way down. Each is
  conditional on the mishaps that break it, so that the theorem says which user panics leave what behind. *TidyLife*: a lock is poisoned, or something
  initialized twice, only after a panic of registration code or of `on_stage_deinit`; it needs that a class has one entry and that
  its singleton is still there when it is unregistered.

Model-checked only: the liveness properties `BlockedReturns`, `Reclaimed`, `WokenIsPolled` and `Resolves` (fairness and `ENABLED` are out of the
prover's reach), and the violations of the findings, which are counterexamples.

## Findings

Each is a run that must end in a violation.

* `cell_panicking_drop`: an inaccessible guard dropped while a shared reference lives panics without poisoning the cell (`guards.rs:252`),
  and the mutable guard below it is then usable beside that reference; lines 269-270 say that there is no UB either way.
* `call_errors_stale_source`: the error slot is emptied when an out-call ends, not when it begins (`call_error.rs:150`), so an error
  of an earlier call the engine made becomes the source of an unrelated failure. `private.rs:594-597` says that it must not.
* `library_stage_panic_aborts`: when the engine reloads from Scene, a panic of `on_stage_init` for Core or Servers skips the levels above
  (`init/mod.rs:170`), although line 428 says that loading is not aborted. That is the run's trace; the other half of the property, that
  a panic of `on_stage_deinit` aborts no unloading (line 440), is violated too: it skips the rest of its level (`init/mod.rs:197`).

Within the models, but without a run of their own:

* `mut_thread` keeps naming a thread whose guards are gone (`blocking_cell.rs:94`). That thread does not block while others
  read, and its `borrow_mut` fails; lines 89-90 say that it blocks. `FreshBorrowsRarelyFail` states this exception.
* `can_drop` joins with *or* two conditions which the drop needs both (`guards.rs:264`): `try_drop` then panics, without any panic
  before, although lines 256-260 list both. `CanDrop` has the *or*; `TryDropNotStale` says only that no other thread interferes.
* `cancel` of a task that has ended panics if its slot is being polled for another task (`async_runtime.rs:191`), although line 176
  says that it does nothing then. `CancelOutcome` has this panic.
* A constructor of a manual object may have freed the object through an upcast `Gd` before it panics, and `create_custom` destroys it
  once more (`callbacks.rs:126`), being sure that it "was just created above". `Unwind` has this second destruction.
* Connections made after the editor level fell are not pruned (`init/mod.rs:258`), although
  `signal_connections_registry.rs:10-11` says that all signals are disconnected before a reload. `CleanUnload` leaves such unloads out.

Read off the code:

* `cancel` panics after deinitialization, although `async_runtime.rs:180-181` means to ignore it.
* A signal whose arguments do not match panics while the future's mutex is locked (`futures.rs:122`); the drop of the resolver
  then unwraps the poisoned mutex (`futures.rs:146`), which ends the process. The doc at lines 190-192 does not name this case.
* `Global::lock` runs `init_fn` again after it panicked; the doc at `global.rs:60` promises a panic. `try_lock` then
  returns `Poisoned`, which the doc of that variant excludes.
* `to_init_gd` called twice defers two releases of one reference; the second meets the assertion at `base_weak_initialization.rs:80`.
* A singleton whose construction panicked makes the unregistration of its class panic under the locks (`class.rs:656`), which poisons them.
* The relations of dyn traits stay registered after their classes are not (`class.rs:307`).

## Plan

What is left, in order:

1. Abstract specifications for the components that have none: a signal future as a promise settled once, the
   class registry as a set that an unload empties; each with its refinement, checked and proved.
2. `ObjectLife` over `GdCellBlocking` in place of `GdCell`: objects bound from several threads while one destroys them.
3. `AsyncRuntime` with `SignalFuture` as its tasks, so that the destructors of futures run under the runtime's borrow.
4. Hot reload: recreated instances, the reload workaround for thread-locals, the relations of dyn traits; `OnReady`.
