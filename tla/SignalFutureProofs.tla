-------------------------- MODULE SignalFutureProofs --------------------------
(* Whatever the threads interleave, however many wakes wait in the engine's   *)
(* queue, and whichever of the three flags are set: a signal future resolves  *)
(* to what happened, leaves no connection behind, and ends the process for    *)
(* the two known reasons only.                                                 *)
EXTENDS SignalFuture, TLAPS

(* The connection is used up once: by an emission, by the object's end, or by *)
(* the future's drop; the resolver is invoked for the first only.             *)
UsedUpOnce ==
  /\ connected => /\ object = "alive" /\ emission = "none"
                  /\ state \in {"Pending", "Dropped"}
  /\ connected \/ emission = "invoke" => ~resolved /\ ~poisoned /\ state # "Ready"
  /\ resolved => state # "Pending"
  /\ emission \in {"wake", "release"} => resolved \/ poisoned

(* The shared state tells what happened, for as long as the future is polled: *)
(* Dead is what a value leaves behind, or the end of an object before any     *)
(* emission reached the resolver.                                              *)
EndedBefore == object = "freed" /\ ~resolved /\ emission # "invoke"

StateTells ==
  /\ state = "Ready" => resolved
  /\ state = "Dead" /\ dropping # "done" => future \in {"ready", "panicked"} \/ EndedBefore
  /\ future = "error" => EndedBefore

(* How far the drop of the future has come.                                   *)
DropKnows ==
  /\ state = "Dropped" => dropping \in {"check", "disconnect", "callable", "fields", "done"}
  /\ dropping \in {"check", "disconnect", "callable"} => state \in {"Dropped", "Ready"}
  /\ dropping \in {"callable", "fields", "unwind"} => ~connected
  /\ dropping = "unwind" => poisoned
  /\ dropping = "disconnect" /\ object = "freed" => raced

IInv ==
  /\ TypeOK /\ UsedUpOnce /\ StateTells /\ DropKnows
  /\ ResolvesToWhatHappened /\ DroppedIsDisconnected /\ CrashHasCause

(* The part of the invariant that is not arithmetic.                          *)
Places ==
  /\ state \in {"Pending", "Ready", "Dead", "Dropped"}
  /\ {waker, poisoned, connected, crashed, resolved, raced} \subseteq BOOLEAN
  /\ object \in {"alive", "freed"}
  /\ emission \in {"none", "invoke", "wake", "release"}
  /\ emitter \in Threads
  /\ future \in {"unpolled", "waiting", "ready", "error", "panicked"}
  /\ dropping \in {"no", "mark", "check", "disconnect", "callable", "fields", "unwind",
                   "done"}

Knows == /\ Places /\ UsedUpOnce /\ StateTells /\ DropKnows
         /\ ResolvesToWhatHappened /\ DroppedIsDisconnected /\ CrashHasCause

LEMMA Parts == IInv <=> Knows /\ deferred \in 0 .. MaxDeferred
BY DEF IInv, Knows, Places, TypeOK

LEMMA PartsNext == IInv' <=> Knows' /\ deferred' \in 0 .. MaxDeferred
BY DEF IInv, Knows, Places, TypeOK
-----------------------------------------------------------------------------
(* The wakes in the queue stay within its bound.                              *)
LEMMA WakeStays ==
  ASSUME deferred \in 0 .. MaxDeferred, NEW condition, WakeIf(condition),
         condition => CanWake
  PROVE  deferred' \in 0 .. MaxDeferred
BY SignalFutureAssumption DEF WakeIf, CanWake

LEMMA NextDeferred ==
  ASSUME deferred \in 0 .. MaxDeferred, [Next]_vars
  PROVE  deferred' \in 0 .. MaxDeferred
<1> USE SignalFutureAssumption
<1>1. CASE UNCHANGED deferred
  BY <1>1
<1>2. CASE RunDeferred
  BY <1>2 DEF RunDeferred
<1>3. ASSUME DropResolver PROVE deferred' \in 0 .. MaxDeferred
  BY <1>3, WakeStays DEF DropResolver
<1>4. CASE DropFuture
  <2>1. CASE DropDisconnect
    BY <1>1, <1>3, <2>1 DEF DropDisconnect
  <2>2. CASE DropFields
    BY <2>2, WakeStays DEF DropFields
  <2>3. CASE DropCallable
    BY <1>3, <2>3 DEF DropCallable
  <2>4. QED
    BY <1>1, <1>4, <2>1, <2>2, <2>3 DEF DropFuture, DropCheckNull, DropMark, DropCheckAgain
<1>5. ASSUME NEW t \in Threads, Free(t) PROVE deferred' \in 0 .. MaxDeferred
  BY <1>1, <1>3, <1>5 DEF Free
<1>6. CASE InvokeWake
  BY <1>6, WakeStays DEF InvokeWake
<1>7. CASE Release
  BY <1>3, <1>7 DEF Release
<1>8. ASSUME NEW t \in Threads, Emit(t) PROVE deferred' \in 0 .. MaxDeferred
  BY <1>1, <1>8 DEF Emit
<1>9. QED
  BY <1>1, <1>2, <1>4, <1>5, <1>6, <1>7, <1>8 DEF Next, Poll, Invoke, vars
-----------------------------------------------------------------------------
(* A poll of a live future takes a value, or tells that there will be none.   *)
LEMMA PollKnows ==
  ASSUME Knows, PollFuture, Live,
         UNCHANGED <<poisoned, object, connected, emission, emitter, dropping,
                     crashed, resolved, raced>>
  PROVE  Knows'
<1>1. state # "Dropped" /\ future \in {"unpolled", "waiting"} /\ dropping = "no"
  BY DEF Live, Knows, DropKnows
<1>2. CASE poisoned
  BY <1>1, <1>2 DEF PollFuture, Knows, Places, UsedUpOnce, StateTells, EndedBefore, DropKnows,
     ResolvesToWhatHappened, DroppedIsDisconnected, CrashHasCause
<1>3. CASE ~poisoned
  <2>1. /\ waker' = TRUE /\ state' = Taken(state)
        /\ state = "Pending" => future' = "waiting"
        /\ state = "Dead" => future' = "error"
        /\ state = "Ready" => future' \in {"ready", "panicked"}
    BY <1>3 DEF PollFuture
  <2>2. QED
    BY <1>1, <2>1 DEF Taken, Knows, Places, UsedUpOnce, StateTells, EndedBefore, DropKnows,
       ResolvesToWhatHappened, DroppedIsDisconnected, CrashHasCause
<1>4. QED
  BY <1>2, <1>3

LEMMA SameKnows ==
  ASSUME Knows,
         UNCHANGED <<state, waker, poisoned, object, connected, emission, emitter, future,
                     dropping, crashed, resolved, raced>>
  PROVE  Knows'
BY DEF Knows, Places, UsedUpOnce, StateTells, EndedBefore, DropKnows,
   ResolvesToWhatHappened, DroppedIsDisconnected, CrashHasCause

LEMMA PollStep == Knows /\ Poll => Knows'
BY PollKnows DEF Poll, Untouched

LEMMA RunDeferredStep == Knows /\ RunDeferred => Knows'
BY PollKnows, SameKnows DEF RunDeferred, Untouched

(* An emission takes the connection, and its resolver is invoked once.        *)
LEMMA EmitStep ==
  ASSUME NEW t \in Threads, Knows, Emit(t)
  PROVE  Knows'
BY DEF Emit, Knows, Places, UsedUpOnce, StateTells, EndedBefore, DropKnows,
   ResolvesToWhatHappened, DroppedIsDisconnected, CrashHasCause

LEMMA InvokeStep == Knows /\ Invoke => Knows'
<1> SUFFICES ASSUME Knows, Invoke PROVE Knows'
  OBVIOUS
<1> USE DEF Knows, Places, UsedUpOnce, StateTells, EndedBefore, DropKnows,
            ResolvesToWhatHappened, DroppedIsDisconnected, CrashHasCause
<1>1. /\ emission = "invoke"
      /\ UNCHANGED <<object, connected, emitter, future, dropping, crashed, raced>>
  BY DEF Invoke
<1>2. CASE /\ ~poisoned /\ state' = "Ready" /\ waker' = FALSE /\ resolved' = TRUE
           /\ emission' = (IF waker THEN "wake" ELSE "release") /\ UNCHANGED poisoned
  <2>1. emission' \in {"wake", "release"}
    BY <1>2
  <2>2. ~connected /\ future # "error"
    BY <1>1
  <2>3. QED
    BY <1>1, <1>2, <2>1, <2>2
<1>3. CASE /\ poisoned' = TRUE /\ emission' = "release"
           /\ UNCHANGED <<state, waker, resolved>>
  BY <1>1, <1>3
<1>4. QED
  BY <1>2, <1>3 DEF Invoke

LEMMA InvokeWakeStep == Knows /\ InvokeWake => Knows'
BY DEF InvokeWake, Knows, Places, UsedUpOnce, StateTells, EndedBefore, DropKnows,
   ResolvesToWhatHappened, DroppedIsDisconnected, CrashHasCause

LEMMA ReleaseStep == Knows /\ Release => Knows'
BY DEF Release, DropResolver, Knows, Places, UsedUpOnce, StateTells, EndedBefore, DropKnows,
   ResolvesToWhatHappened, DroppedIsDisconnected, CrashHasCause

(* The end of the object drops the resolver of the connection, if any.        *)
LEMMA FreeStep ==
  ASSUME NEW t \in Threads, Knows, Free(t)
  PROVE  Knows'
BY DEF Free, DropResolver, InDrop, Knows, Places, UsedUpOnce, StateTells, EndedBefore, DropKnows,
   ResolvesToWhatHappened, DroppedIsDisconnected, CrashHasCause

(* The drop of the future.                                                    *)
LEMMA DropStepKnows == Knows /\ DropFuture => Knows'
<1> SUFFICES ASSUME Knows, DropFuture PROVE Knows'
  OBVIOUS
<1> USE DEF DropStep, IsNull, Knows, Places, UsedUpOnce, StateTells, EndedBefore, DropKnows,
            ResolvesToWhatHappened, DroppedIsDisconnected, CrashHasCause
<1>0. UNCHANGED <<waker, poisoned, object, emission, emitter, future, resolved, raced>>
  BY DEF DropFuture
<1>1. CASE DropCheckNull
  BY <1>0, <1>1 DEF DropCheckNull
<1>2. CASE DropMark
  BY <1>0, <1>2 DEF DropMark
<1>3. CASE DropCheckAgain
  BY <1>0, <1>3 DEF DropCheckAgain
<1>4. CASE DropDisconnect
  BY <1>0, <1>4 DEF DropDisconnect, DropResolver
<1>5. CASE DropFields
  BY <1>0, <1>5 DEF DropFields
<1>6. CASE DropCallable
  BY <1>0, <1>6 DEF DropCallable, DropResolver
<1>7. QED
  BY <1>1, <1>2, <1>3, <1>4, <1>5, <1>6 DEF DropFuture
-----------------------------------------------------------------------------
LEMMA InitIInv == Init => IInv
<1> SUFFICES ASSUME Init PROVE IInv
  OBVIOUS
<1>1. deferred \in 0 .. MaxDeferred
  BY SignalFutureAssumption DEF Init
<1>2. Knows
  BY DEF Init, MainThread, Threads, Knows, Places, UsedUpOnce, StateTells,
     DropKnows, ResolvesToWhatHappened, DroppedIsDisconnected, CrashHasCause
<1>3. QED
  BY <1>1, <1>2, Parts

(* No step of the future, of an emission or of the object's end, on whichever *)
(* thread, leaves the inductive invariant.                                     *)
LEMMA NextIInv == IInv /\ [Next]_vars => IInv'
<1> SUFFICES ASSUME IInv, [Next]_vars PROVE IInv'
  OBVIOUS
<1>1. Knows /\ deferred' \in 0 .. MaxDeferred
  BY Parts, NextDeferred
<1>2. CASE UNCHANGED vars
  BY <1>1, <1>2, SameKnows, PartsNext DEF vars
<1>3. CASE Next
  BY <1>1, <1>3, PollStep, RunDeferredStep, EmitStep, InvokeStep, InvokeWakeStep, ReleaseStep,
     FreeStep, DropStepKnows, PartsNext DEF Next
<1>4. QED
  BY <1>2, <1>3

LEMMA SpecIInv == Spec => []IInv
BY InitIInv, NextIInv, PTL DEF Spec

(* A future that is polled was not dropped: no poll meets the state that      *)
(* futures.rs calls unreachable.                                               *)
THEOREM SpecTypeOK == Spec => []TypeOK
<1>1. IInv => TypeOK
  BY DEF IInv
<1>2. QED
  BY <1>1, SpecIInv, PTL

(* However emission, deletion, polls and drop interleave, the future resolves *)
(* to a value after an emission was delivered, and to an error only if the    *)
(* object was freed and none will be.                                          *)
THEOREM SpecResolvesToWhatHappened == Spec => []ResolvesToWhatHappened
<1>1. IInv => ResolvesToWhatHappened
  BY DEF IInv
<1>2. QED
  BY <1>1, SpecIInv, PTL

(* A future that is gone has left no connection in a living object.           *)
THEOREM SpecDroppedIsDisconnected == Spec => []DroppedIsDisconnected
<1>1. IInv => DroppedIsDisconnected
  BY DEF IInv
<1>2. QED
  BY <1>1, SpecIInv, PTL

(* The process ends only by a race of deletion and drop, or by arguments that *)
(* could not be converted.                                                     *)
THEOREM SpecCrashHasCause == Spec => []CrashHasCause
<1>1. IInv => CrashHasCause
  BY DEF IInv
<1>2. QED
  BY <1>1, SpecIInv, PTL
=============================================================================
