----------------------------- MODULE SignalFuture -----------------------------
(* A future that waits for one emission of a signal, godot-core/src/task/      *)
(* futures.rs.  Its data is shared with two resolvers: one owned by the       *)
(* engine's one-shot connection, one by the future; and with a third that the *)
(* future's drop makes to disconnect.  The main thread polls and drops the    *)
(* future; the signal may be emitted, and its object freed, on the main       *)
(* thread or on another.  A step holds the data's mutex at most once.          *)
EXTENDS Naturals

CONSTANTS Confined,       \* the signal's arguments may not change threads
          FreeElsewhere,  \* another thread may free the signal's object
          Mismatch,       \* an emission may carry arguments of other types
          MaxDeferred     \* bound: wakes waiting in the engine's queue

ASSUME SignalFutureAssumption ==
  /\ {Confined, FreeElsewhere, Mismatch} \subseteq BOOLEAN
  /\ MaxDeferred \in Nat

VARIABLES state,      \* SignalFutureData::state
          waker,      \* SignalFutureData::waker is Some
          poisoned,   \* the data's mutex is poisoned
          object,     \* the signal's object
          connected,  \* the one-shot connection exists
          emission,   \* the emission under way, which holds the callable
          emitter,    \* the thread of the last emission
          future,     \* the result of the last poll
          dropping,   \* progress of FallibleSignalFuture::drop
          deferred,   \* wakes waiting in the engine's queue
          crashed,    \* a panic that cannot unwind ended the process
          resolved,   \* history: an emission was delivered
          raced       \* history: the object was freed while the future dropped

vars == <<state, waker, poisoned, object, connected, emission, emitter,
          future, dropping, deferred, crashed, resolved, raced>>

MainThread == "main"
Threads == {MainThread, "other"}

Init ==
  /\ state = "Pending" /\ waker = FALSE /\ poisoned = FALSE
  /\ object = "alive" /\ connected = TRUE
  /\ emission = "none" /\ emitter = MainThread
  /\ future = "unpolled" /\ dropping = "no" /\ deferred = 0
  /\ crashed = FALSE /\ resolved = FALSE /\ raced = FALSE

Live == future \in {"unpolled", "waiting"} /\ dropping = "no"
InDrop == dropping \notin {"no", "done"}

(* The main thread does one thing at a time, except that the other callables  *)
(* of its own emission, before or after the resolver's, may drop the future.  *)
OnMain == emission # "none" /\ emitter = MainThread
MainIdle == ~crashed /\ ~InDrop /\ ~OnMain
MayStartDrop == ~crashed /\ ~InDrop /\ ~(OnMain /\ emission = "wake")
EmissionRuns == ~crashed /\ ~(OnMain /\ InDrop)

(* SignalFutureState::take *)
Taken(s) == IF s \in {"Ready", "Dead"} THEN "Dead" ELSE s

(* DynamicSend::extract_if_safe *)
ExtractIfSafe == ~Confined \/ emitter = MainThread

(* FallibleSignalFuture::poll, and the panic of SignalFuture::poll for Dead.  *)
PollFuture ==
  IF poisoned THEN future' = "panicked" /\ UNCHANGED <<state, waker>>
  ELSE /\ waker' = TRUE
       /\ state' = Taken(state)
       /\ future' = CASE state = "Pending" -> "waiting"
                      [] state = "Dead" -> "error"
                      [] state = "Dropped" -> "unreachable"
                      [] state = "Ready" -> IF ExtractIfSafe THEN "ready" ELSE "panicked"

Untouched == UNCHANGED <<object, connected, emission, emitter, poisoned>>

(* The first poll, and polls on behalf of another future of the same task.    *)
Poll ==
  /\ MainIdle /\ Live
  /\ PollFuture
  /\ Untouched /\ UNCHANGED <<dropping, deferred, crashed, resolved, raced>>

(* A deferred call polls the task, if it still waits for this future.         *)
RunDeferred ==
  /\ MainIdle /\ deferred > 0
  /\ deferred' = deferred - 1
  /\ IF Live THEN PollFuture ELSE UNCHANGED <<future, state, waker>>
  /\ Untouched /\ UNCHANGED <<dropping, crashed, resolved, raced>>

CanWake == deferred < MaxDeferred
WakeIf(condition) == deferred' = IF condition THEN deferred + 1 ELSE deferred

(* SignalFutureResolver::drop.  The engine's callables are destroyed in a     *)
(* function that cannot unwind.                                                *)
DropResolver_alwaysDead ==
  CanWake /\ crashed' = poisoned /\ state' = "Dead" /\ WakeIf(waker)

DropResolver_marksDropped ==
  /\ CanWake
  /\ crashed' = poisoned
  /\ state' = IF state = "Pending" /\ ~poisoned THEN "Dropped" ELSE state
  /\ WakeIf(state = "Pending" /\ ~poisoned /\ waker)

DropResolver_noWake ==
  /\ CanWake /\ WakeIf(FALSE)
  /\ crashed' = poisoned
  /\ state' = IF state = "Pending" THEN "Dead" ELSE state

DropResolver ==
  /\ CanWake
  /\ crashed' = poisoned
  /\ state' = IF state = "Pending" /\ ~poisoned THEN "Dead" ELSE state
  /\ WakeIf(state = "Pending" /\ ~poisoned /\ waker)

(* The engine takes the one-shot connection out and keeps its callable for    *)
(* the duration of the emission.                                               *)
Emit(t) ==
  /\ ~crashed /\ (t = MainThread => MainIdle)
  /\ object = "alive" /\ connected /\ emission = "none"
  /\ connected' = FALSE /\ emission' = "invoke" /\ emitter' = t
  /\ UNCHANGED <<state, waker, poisoned, object, future, dropping, deferred,
                 crashed, resolved, raced>>

(* SignalFutureResolver::invoke, up to giving up the mutex.  A conversion     *)
(* that panics does so under the mutex, and is caught by the caller.          *)
Invoke ==
  /\ EmissionRuns /\ emission = "invoke"
  /\ \/ /\ ~poisoned
        /\ state' = "Ready" /\ waker' = FALSE /\ resolved' = TRUE
        /\ emission' = IF waker THEN "wake" ELSE "release"
        /\ UNCHANGED poisoned
     \/ /\ Mismatch \/ poisoned
        /\ poisoned' = TRUE /\ emission' = "release"
        /\ UNCHANGED <<state, waker, resolved>>
  /\ UNCHANGED <<object, connected, emitter, future, dropping, deferred, crashed, raced>>

InvokeWake ==
  /\ EmissionRuns /\ emission = "wake" /\ CanWake
  /\ emission' = "release" /\ WakeIf(TRUE)
  /\ UNCHANGED <<state, waker, poisoned, object, connected, emitter, future,
                 dropping, crashed, resolved, raced>>

Release ==
  /\ EmissionRuns /\ emission = "release"
  /\ emission' = "none"
  /\ DropResolver
  /\ UNCHANGED <<waker, poisoned, object, connected, emitter, future, dropping,
                 resolved, raced>>

(* The object is freed, and its connection with it.                           *)
Free(t) ==
  /\ ~crashed /\ (IF t = MainThread THEN MainIdle ELSE FreeElsewhere)
  /\ object = "alive"
  /\ object' = "freed" /\ connected' = FALSE
  /\ IF connected THEN DropResolver ELSE UNCHANGED <<crashed, state, deferred>>
  /\ raced' = (raced \/ InDrop)
  /\ UNCHANGED <<waker, poisoned, emission, emitter, future, dropping, resolved>>

------------------------------------------------------------------------------
(* FallibleSignalFuture::drop, when the task ends or is cancelled.  Signal    *)
(* asks the engine each time whether its object is alive.                      *)
IsNull == object = "freed"

DropStep(from, to) == ~crashed /\ dropping = from /\ dropping' = to

DropCheckNull_unchecked ==
  MayStartDrop /\ DropStep("no", "disconnect") /\ UNCHANGED <<state, deferred, crashed, connected>>

DropCheckNull ==
  /\ MayStartDrop
  /\ DropStep("no", IF IsNull THEN "fields" ELSE "mark")
  /\ UNCHANGED <<state, deferred, crashed, connected>>

DropMark_only ==
  /\ DropStep("mark", "fields")
  /\ state' = "Dropped" /\ UNCHANGED <<deferred, crashed, connected>>

DropMark ==
  /\ DropStep("mark", IF poisoned THEN "unwind" ELSE "check")
  /\ state' = IF poisoned THEN state ELSE "Dropped"
  /\ UNCHANGED <<deferred, crashed, connected>>

DropCheckAgain ==
  /\ DropStep("check", IF IsNull THEN "callable" ELSE "disconnect")
  /\ UNCHANGED <<state, deferred, crashed, connected>>

(* is_connected and disconnect: they crash on an object that is gone, else    *)
(* the connection's resolver is dropped.                                       *)
DropDisconnect ==
  /\ DropStep("disconnect", "callable")
  /\ IF object = "freed" THEN crashed' = TRUE /\ UNCHANGED <<state, deferred, connected>>
     ELSE /\ connected' = FALSE
          /\ IF connected THEN DropResolver ELSE UNCHANGED <<state, deferred, crashed>>

(* The callable made for disconnecting is destroyed, in the function that     *)
(* cannot unwind, and its resolver with it.                                    *)
DropCallable ==
  /\ DropStep("callable", "fields")
  /\ DropResolver
  /\ UNCHANGED connected

(* The fields go last, among them the future's own resolver, which panics if  *)
(* the mutex is poisoned.  While another panic unwinds, of this drop or of    *)
(* the poll that failed, that ends the process.                                *)
DropFields ==
  /\ DropStep(dropping, "done") /\ dropping \in {"fields", "unwind"}
  /\ crashed' = (dropping = "unwind" \/ (poisoned /\ future = "panicked"))
  /\ CanWake
  /\ state' = IF state = "Pending" /\ ~poisoned THEN "Dead" ELSE state
  /\ WakeIf(state = "Pending" /\ ~poisoned /\ waker)
  /\ UNCHANGED connected

DropFuture ==
  /\ \/ DropCheckNull \/ DropMark \/ DropCheckAgain
     \/ DropDisconnect \/ DropCallable \/ DropFields
  /\ UNCHANGED <<waker, poisoned, object, emission, emitter, future, resolved, raced>>

Next == \/ Poll \/ RunDeferred \/ DropFuture
        \/ \E t \in Threads : Emit(t) \/ Free(t)
        \/ Invoke \/ InvokeWake \/ Release

Spec == Init /\ [][Next]_vars

(* The engine finishes emissions and empties its queue; tasks are started.    *)
FairSpec == /\ Spec
            /\ WF_vars(Invoke) /\ WF_vars(InvokeWake) /\ WF_vars(Release)
            /\ WF_vars(RunDeferred) /\ WF_vars(Poll /\ future = "unpolled")
            /\ WF_vars(DropFuture /\ InDrop)
------------------------------------------------------------------------------
TypeOK ==
  /\ state \in {"Pending", "Ready", "Dead", "Dropped"}
  /\ {waker, poisoned, connected, crashed, resolved, raced} \subseteq BOOLEAN
  /\ object \in {"alive", "freed"}
  /\ emission \in {"none", "invoke", "wake", "release"}
  /\ emitter \in Threads
  /\ future \in {"unpolled", "waiting", "ready", "error", "panicked"}
  /\ dropping \in {"no", "mark", "check", "disconnect", "callable", "fields", "unwind",
                   "done"}
  /\ deferred \in 0 .. MaxDeferred

(* The future resolves to what happened: to a value after an emission was     *)
(* delivered, and to "the signal object was freed before the awaited signal   *)
(* was emitted" (futures.rs:262) only when that is so, whatever the threads'  *)
(* interleaving.                                                               *)
ResolvesToWhatHappened ==
  /\ future = "ready" => resolved
  /\ future = "error" => object = "freed" /\ ~resolved

(* The reason for the drop implementation (futures.rs:142-143, 290-301): once *)
(* a future is gone no connection to it stays in a living object.             *)
DroppedIsDisconnected == dropping = "done" /\ ~crashed => ~connected

(* The "Panics" section (futures.rs:190-192) names one panic that cannot       *)
(* unwind: freeing the signal's object while the future is dropped.  There is *)
(* one other, a conversion that panicked under the mutex; nothing else that   *)
(* threads, emissions, wakes and drops can do ends the process.                *)
CrashHasCause == crashed => raced \/ poisoned

(* "The future will resolve the next time the signal is emitted"              *)
(* (futures.rs:309), or when its object is freed, unless it is dropped first. *)
Resolves ==
  resolved \/ object = "freed" ~>
    future \in {"ready", "error", "panicked"} \/ dropping = "done" \/ crashed
==============================================================================
