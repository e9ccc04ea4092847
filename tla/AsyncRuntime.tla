----------------------------- MODULE AsyncRuntime -----------------------------
(* The executor of async tasks, godot-core/src/task/async_runtime.rs.  The     *)
(* futures run on the main thread only: one after the other from the engine's *)
(* queue of deferred calls, and nested when a future spawns a task.  Wakers   *)
(* are called at any time, by any thread, and only enqueue a deferred call.   *)
EXTENDS Naturals, Sequences, FiniteSets

CONSTANTS MaxTasks,   \* bound: tasks spawned
          MaxQueue    \* bound: deferred calls waiting in the engine

ASSUME RuntimeAssumption == MaxTasks \in Nat /\ MaxQueue \in Nat

VARIABLES alive,       \* ASYNC_RUNTIME is Some
          tasks,       \* AsyncRuntime::tasks
          nextTaskId,  \* AsyncRuntime::next_task_id
          polling,     \* the calls of poll_future in progress, outermost first
          deferred,    \* the engine's queue of GodotWaker::wake callables
          handles,     \* the TaskHandles the program holds
          wakers,      \* the GodotWakers given to futures, kept by anyone
          status,      \* history: what became of each task
          woken        \* history: tasks woken since their last poll began

vars == <<alive, tasks, nextTaskId, polling, deferred, handles, wakers,
          status, woken>>

TaskIds == 0 .. MaxTasks - 1
NoFuture == MaxTasks    \* a slot without a future

(* A slot of the runtime; future is the task whose future it contains.        *)
(* FutureSlotState::Empty is never stored in one.                              *)
Slot == [value : {"Gone", "Pending", "Polling"}, id : TaskIds,
         future : TaskIds \cup {NoFuture}]

(* A waker or a handle: the place and the id of its task.                     *)
Ref == [index : Nat \ {0}, id : TaskIds]

Init ==
  /\ alive = TRUE
  /\ tasks = <<>> /\ nextTaskId = 0
  /\ polling = <<>> /\ deferred = <<>> /\ handles = {} /\ wakers = {}
  /\ status = [t \in TaskIds |-> "unborn"]
  /\ woken = {}

(* AsyncRuntime::add_task stores into the first free slot, else in a new one. *)
FreeSlots == {k \in DOMAIN tasks : tasks[k].value = "Gone"}
IndexForTask ==
  IF FreeSlots = {} THEN Len(tasks) + 1
  ELSE CHOOSE k \in FreeSlots : \A j \in FreeSlots : k <= j

AddTask(id) ==
  LET slot == [value |-> "Pending", id |-> id, future |-> id]
  IN  IF FreeSlots = {} THEN Append(tasks, slot)
      ELSE [tasks EXCEPT ![IndexForTask] = slot]

(* FutureSlot::take_for_polling: what it returns, and what it leaves.         *)
TakeResult_anyId(slots, r) ==
  IF r.index \notin DOMAIN slots THEN "Empty" ELSE slots[r.index].value

TakeResult(slots, r) ==
  IF r.index \notin DOMAIN slots THEN "Empty"
  ELSE IF slots[r.index].value = "Pending" /\ slots[r.index].id # r.id THEN "Gone"
  ELSE slots[r.index].value

TakeForPolling_leavesEmpty(slots, r) ==
  [slots EXCEPT ![r.index] = [@ EXCEPT !.value = "Empty", !.future = NoFuture]]

TakeForPolling(slots, r) ==
  [slots EXCEPT ![r.index] = [@ EXCEPT !.value = "Polling", !.future = NoFuture]]

(* poll_future up to the future's poll method, with the runtime as given.     *)
StartPoll(slots, r, bySpawn) ==
  IF TakeResult(slots, r) = "Pending"
  THEN /\ tasks' = TakeForPolling(slots, r)
       /\ polling' = Append(polling, [at |-> r, future |-> slots[r.index].future,
                                       bySpawn |-> bySpawn])
       /\ woken' = woken \ {slots[r.index].future}
  ELSE tasks' = slots /\ UNCHANGED <<polling, woken>>

ClearTask(k) == [tasks EXCEPT ![k] = [@ EXCEPT !.value = "Gone", !.future = NoFuture]]
ParkTask(k, f) == [tasks EXCEPT ![k] = [@ EXCEPT !.value = "Pending", !.future = f]]

(* spawn, called by the program outside of tasks or from within a task.       *)
Spawn ==
  LET r == [index |-> IndexForTask, id |-> nextTaskId]
  IN  /\ alive /\ nextTaskId < MaxTasks
      /\ nextTaskId' = nextTaskId + 1
      /\ StartPoll(AddTask(nextTaskId), r, TRUE)
      /\ wakers' = wakers \cup {r}
      /\ status' = [status EXCEPT ![nextTaskId] = "pending"]
      /\ UNCHANGED <<alive, deferred, handles>>

(* The rest of poll_future of the innermost task: its future returned         *)
(* Pending, returned Ready, or panicked.  If spawn made the call, it now      *)
(* returns the handle.                                                         *)
Innermost == polling[Len(polling)]
EndPoll ==
  /\ polling # <<>>
  /\ polling' = SubSeq(polling, 1, Len(polling) - 1)
  /\ handles' = handles \cup IF Innermost.bySpawn THEN {Innermost.at} ELSE {}

PollPending ==
  /\ EndPoll
  /\ tasks' = IF tasks[Innermost.at.index].value = "Polling"
              THEN ParkTask(Innermost.at.index, Innermost.future) ELSE tasks
  /\ UNCHANGED <<alive, nextTaskId, deferred, wakers, status, woken>>

PollDone(outcome) ==
  /\ EndPoll
  /\ tasks' = ClearTask(Innermost.at.index)
  /\ status' = [status EXCEPT ![Innermost.future] = outcome]
  /\ UNCHANGED <<alive, nextTaskId, deferred, wakers, woken>>

(* GodotWaker::wake.  A waker is handed out by the task's first poll, and may *)
(* outlive the task in whatever stored it.                                     *)
Wake_ignoredWhilePolling(w) ==
  /\ Len(deferred) < MaxQueue
  /\ deferred' = IF tasks # <<>> /\ tasks[w.index].value = "Polling"
                 THEN deferred ELSE Append(deferred, w)
  /\ woken' = woken \cup {w.id}
  /\ UNCHANGED <<alive, tasks, nextTaskId, polling, handles, wakers, status>>

Wake(w) ==
  /\ Len(deferred) < MaxQueue
  /\ deferred' = Append(deferred, w)
  /\ woken' = woken \cup {w.id}
  /\ UNCHANGED <<alive, tasks, nextTaskId, polling, handles, wakers, status>>

(* The engine runs the oldest deferred call, between frames.  In a runtime    *)
(* that is no more, and for the results Empty and Polling, it panics.         *)
RunDeferred ==
  /\ polling = <<>> /\ deferred # <<>>
  /\ deferred' = Tail(deferred)
  /\ IF alive THEN StartPoll(tasks, Head(deferred), FALSE)
     ELSE UNCHANGED <<tasks, polling, woken>>
  /\ UNCHANGED <<alive, nextTaskId, handles, wakers, status>>

(* TaskHandle::cancel, in the order of its tests.                             *)
IsSlotOf_anyId(h) == TRUE
IsSlotOf(h) == tasks[h.index].id = h.id

CancelOutcome(h) ==
  CASE ~alive -> "panic"
    [] alive /\ h.index \notin DOMAIN tasks -> "ignored"
    [] alive /\ h.index \in DOMAIN tasks ->
         CASE tasks[h.index].value = "Gone" -> "ignored"
           [] tasks[h.index].value = "Polling" -> "panic"
           [] tasks[h.index].value = "Pending" ->
                IF IsSlotOf(h) THEN "cancelled" ELSE "ignored"

Cancel(h) ==
  /\ handles' = handles \ {h}
  /\ IF CancelOutcome(h) = "cancelled"
     THEN /\ tasks' = ClearTask(h.index)
          /\ status' = [status EXCEPT ![tasks[h.index].future] = "cancelled"]
     ELSE UNCHANGED <<tasks, status>>
  /\ UNCHANGED <<alive, nextTaskId, polling, deferred, wakers, woken>>

(* TaskHandle::is_pending                                                      *)
IsPending_anyId(h) == tasks[h.index].value \in {"Pending", "Polling"}

IsPending(h) ==
  /\ tasks[h.index].id = h.id
  /\ tasks[h.index].value \in {"Pending", "Polling"}

(* cleanup, at the deinitialization of the core level.                        *)
Cleanup ==
  /\ alive /\ polling = <<>>
  /\ alive' = FALSE /\ tasks' = <<>>
  /\ status' = [t \in TaskIds |->
                  IF status[t] = "pending" THEN "cancelled" ELSE status[t]]
  /\ UNCHANGED <<nextTaskId, polling, deferred, handles, wakers, woken>>

PollEnds == PollPending \/ \E o \in {"completed", "panicked"} : PollDone(o)

Next ==
  \/ Spawn \/ PollEnds \/ RunDeferred \/ Cleanup
  \/ \E h \in handles : Cancel(h)
  \/ \E w \in wakers : Wake(w)

Spec == Init /\ [][Next]_vars

(* The engine empties its queue every frame, and a poll returns.              *)
FairSpec == Spec /\ WF_vars(RunDeferred) /\ WF_vars(PollEnds)
------------------------------------------------------------------------------
TypeOK ==
  /\ alive \in BOOLEAN
  /\ tasks \in Seq(Slot) /\ Len(tasks) <= MaxTasks
  /\ nextTaskId \in 0 .. MaxTasks
  /\ polling \in Seq([at : Ref, future : TaskIds, bySpawn : BOOLEAN])
  /\ deferred \in Seq(Ref) /\ Len(deferred) <= MaxQueue
  /\ handles \subseteq Ref /\ wakers \subseteq Ref
  /\ status \in [TaskIds -> {"unborn", "pending", "completed", "panicked", "cancelled"}]
  /\ woken \subseteq TaskIds
  /\ \A k \in DOMAIN tasks :
        tasks[k].value = "Pending" <=> tasks[k].future # NoFuture

PollingNow == {polling[k].future : k \in DOMAIN polling}
Stored(t) == {k \in DOMAIN tasks : tasks[k].future = t}

(* A waker that outlives its task never polls the task that took over its     *)
(* slot: every poll in progress runs the future of the task it was woken for. *)
PollsOwnFuture == \A k \in DOMAIN polling : polling[k].future = polling[k].at.id

(* park and clear_task, at the end of a poll, find the slot as take_for_      *)
(* polling left it, whatever the future spawned, cancelled or woke meanwhile: *)
(* no park panics and no task clears the slot of another.                      *)
PollingSlotsAreReserved ==
  /\ \A k \in DOMAIN polling : LET at == polling[k].at IN
       /\ at.index \in DOMAIN tasks
       /\ tasks[at.index].value = "Polling" /\ tasks[at.index].id = at.id
  /\ Cardinality({k \in DOMAIN tasks : tasks[k].value = "Polling"}) = Len(polling)

(* A future is never lost nor duplicated: a pending task's future is in one   *)
(* slot or in one poll, and the future of any other task has been dropped.    *)
FuturesConserved ==
  \A t \in TaskIds :
    IF status[t] = "pending"
    THEN (Cardinality(Stored(t)) = 1) # (t \in PollingNow)
    ELSE Stored(t) = {} /\ t \notin PollingNow

(* poll_future's panic "Future slot is empty when waking it" and its          *)
(* unreachable!() "called recursively" (async_runtime.rs:464, 470) are both   *)
(* out of reach of the deferred calls.                                         *)
WakingNeverPanics ==
  alive /\ polling = <<>> =>
    \A k \in DOMAIN deferred : TakeResult(tasks, deferred[k]) \in {"Pending", "Gone"}

(* Slots are reused, and told apart by id only, while polls nest and wakers   *)
(* outlive their tasks: no task is polled, parked, cleared or dropped in      *)
(* place of another, and no deferred call panics.                              *)
SlotsAreSafe ==
  /\ PollsOwnFuture /\ PollingSlotsAreReserved
  /\ FuturesConserved /\ WakingNeverPanics

(* is_pending tells the truth through every reuse of the task's slot.         *)
IsPendingIsTrue ==
  alive => \A h \in handles :
    /\ h.index \in DOMAIN tasks
    /\ IsPending(h) <=> status[h.id] = "pending"

(* The runtime behaves as if each task had a place of its own: which slot a   *)
(* task is in, and which task had that slot before, changes nothing of which  *)
(* task a wake, a cancel or a nested spawn reaches.  Whether a cancel panics  *)
(* is not part of it: one of an ended task does, if its slot is polled for    *)
(* another (async_runtime.rs:191).                                             *)
Waiting == {t \in TaskIds : \E k \in DOMAIN tasks :
              tasks[k].value = "Pending" /\ tasks[k].future = t}
Polls == [k \in DOMAIN polling |-> [task |-> polling[k].future, first |-> polling[k].bySpawn]]
Calls == [k \in DOMAIN deferred |-> deferred[k].id]

Pool == INSTANCE TaskPool WITH
          Tasks <- TaskIds, open <- alive, born <- 0 .. nextTaskId - 1,
          waiting <- Waiting, polls <- Polls, calls <- Calls,
          held <- {h.id : h \in handles}

ImplementsTaskPool == Pool!Spec

(* A task that was woken is polled, or ends.                                   *)
WokenIsPolled ==
  \A t \in TaskIds : t \in woken ~> (t \notin woken \/ status[t] # "pending")
==============================================================================
