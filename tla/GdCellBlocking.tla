---------------------------- MODULE GdCellBlocking ----------------------------
(* The thread-safe cell (blocking_cell.rs, blocking_guards.rs): a GdCellInner  *)
(* behind the mutex thread_tracker, with two condition variables.  A step is  *)
(* one critical section of the mutex.  The guards of a thread are counted,    *)
(* not named: GdCell shows what their counts stand for.                        *)
EXTENDS BorrowState

CONSTANTS Threads,
          Main,       \* the thread that creates the cell
          MaxCalls,   \* bound: calls that acquire, per thread
          Misordered  \* may a program drop its guards in a wrong order?

ASSUME BlockingAssumption ==
  Main \in Threads /\ MaxCalls \in Nat /\ Misordered \in BOOLEAN

VARIABLES bs,            \* inner.state.borrow_state
          mutThread,     \* ThreadTracker::mut_thread
          sharedCounts,  \* ThreadTracker::shared_counts, 0 for no entry
          lockPoisoned,  \* a thread panicked while it held the mutex
          pc,            \* where each thread is
          held,          \* the guards each thread has alive
          newestLost,    \* dropping the newest inaccessible guard panicked
          calls          \* acquiring calls made so far

vars == <<bs, mutThread, sharedCounts, lockPoisoned, pc, held, newestLost, calls>>

PcValues == {"run",
             "waitImmut", "wokenImmut",   \* in block_immut
             "waitMut", "wokenMut",       \* in block_mut
             "tryDrop", "tryDropLower"}   \* after try_drop has seen can_drop

Nothing == [refs |-> 0, muts |-> 0, inacc |-> 0]

IsCurrentlyBound == bs.shared > 0 \/ bs.mut > 0
IsCurrentlyMutablyBound == bs.mut > 0
HasMutRef(t) == mutThread = t

Init ==
  /\ bs = Unborrowed
  /\ mutThread = Main
  /\ sharedCounts = [t \in Threads |-> 0]
  /\ lockPoisoned = FALSE
  /\ pc = [t \in Threads |-> "run"]
  /\ held = [t \in Threads |-> Nothing]
  /\ newestLost = FALSE
  /\ calls = [t \in Threads |-> 0]

Goto(t, where) == pc' = [pc EXCEPT ![t] = where]

(* Condvar::notify_one on mut_condition, and with it, when a mutable guard is *)
(* dropped, notify_all on immut_condition.                                     *)
MutWaiters == {u \in Threads : pc[u] = "waitMut"}
OneMutWaiter == IF MutWaiters = {} THEN {{}} ELSE {{u} : u \in MutWaiters}

NotifyOneMut_forgotten == UNCHANGED pc

NotifyOneMut ==
  \E one \in OneMutWaiter :
     pc' = [u \in Threads |-> IF u \in one THEN "wokenMut" ELSE pc[u]]


NotifyBoth ==
  \E one \in OneMutWaiter :
     pc' = [u \in Threads |-> CASE u \in one -> "wokenMut"
                                [] pc[u] = "waitImmut" -> "wokenImmut"
                                [] OTHER -> pc[u]]

(* The second half of borrow and of borrow_mut, once not blocked; an Err      *)
(* leaves everything as it was.                                                *)
TakeRef(t) ==
  IF IncrementSharedOk(bs)
  THEN /\ bs' = IncrementShared(bs)
       /\ sharedCounts' = [sharedCounts EXCEPT ![t] = @ + 1]
       /\ mutThread' = IF IsCurrentlyBound THEN mutThread ELSE t
       /\ held' = [held EXCEPT ![t].refs = @ + 1]
  ELSE UNCHANGED <<bs, sharedCounts, mutThread, held>>

TakeMut_unclaimed(t) ==
  IF IncrementMutOk(bs)
  THEN /\ bs' = IncrementMut(bs)
       /\ held' = [held EXCEPT ![t].muts = @ + 1]
       /\ UNCHANGED <<sharedCounts, mutThread>>
  ELSE UNCHANGED <<bs, sharedCounts, mutThread, held>>

TakeMut(t) ==
  IF IncrementMutOk(bs)
  THEN /\ bs' = IncrementMut(bs)
       /\ mutThread' = t
       /\ held' = [held EXCEPT ![t].muts = @ + 1]
       /\ UNCHANGED sharedCounts
  ELSE UNCHANGED <<bs, sharedCounts, mutThread, held>>

Unmoved == UNCHANGED <<bs, sharedCounts, mutThread, held>>

BorrowBlocks_ifAccessible(t) == HasAccessible(bs) /\ ~HasMutRef(t)
BorrowBlocks(t) == IsCurrentlyMutablyBound /\ ~HasMutRef(t)
BorrowMutBlocks(t) ==
  IsCurrentlyBound /\ sharedCounts[t] = 0 /\ ~HasMutRef(t)

Call(t) ==
  /\ pc[t] = "run" /\ ~lockPoisoned /\ calls[t] < MaxCalls
  /\ calls' = [calls EXCEPT ![t] = @ + 1]
  /\ UNCHANGED <<lockPoisoned, newestLost>>

Borrow(t) ==
  /\ Call(t)
  /\ \/ BorrowBlocks(t) /\ Goto(t, "waitImmut") /\ Unmoved
     \/ ~BorrowBlocks(t) /\ TakeRef(t) /\ UNCHANGED pc

BorrowMut(t) ==
  /\ Call(t)
  /\ \/ BorrowMutBlocks(t) /\ Goto(t, "waitMut") /\ Unmoved
     \/ ~BorrowMutBlocks(t) /\ TakeMut(t) /\ UNCHANGED pc

(* A woken thread has the mutex again: wait(..).unwrap() panics if it is      *)
(* poisoned, else the loop of block_immut or block_mut tests its condition.   *)
RecheckImmut(t) ==
  /\ pc[t] = "wokenImmut"
  /\ IF ~lockPoisoned /\ IsCurrentlyMutablyBound
     THEN Goto(t, "waitImmut") /\ Unmoved
     ELSE Goto(t, "run") /\ IF lockPoisoned THEN Unmoved ELSE TakeRef(t)
  /\ UNCHANGED <<lockPoisoned, newestLost, calls>>

RecheckMut(t) ==
  /\ pc[t] = "wokenMut"
  /\ IF ~lockPoisoned /\ IsCurrentlyBound
     THEN Goto(t, "waitMut") /\ Unmoved
     ELSE Goto(t, "run") /\ IF lockPoisoned THEN Unmoved ELSE TakeMut(t)
  /\ UNCHANGED <<lockPoisoned, newestLost, calls>>

(* Condition variables may wake a thread that nobody notified.                *)
SpuriousWake(t) ==
  /\ \/ pc[t] = "waitMut" /\ Goto(t, "wokenMut")
     \/ pc[t] = "waitImmut" /\ Goto(t, "wokenImmut")
  /\ UNCHANGED <<bs, mutThread, sharedCounts, lockPoisoned, held, newestLost, calls>>

(* The mutable guard on top of a thread's guards is the one it can use.       *)
HasAwakeMut(t) == held[t].muts > held[t].inacc

MakeInaccessible(t) ==
  /\ Call(t) /\ HasAwakeMut(t) /\ SetInaccessibleOk(bs)
  /\ bs' = SetInaccessible(bs)
  /\ held' = [held EXCEPT ![t].inacc = @ + 1]
  /\ UNCHANGED <<mutThread, sharedCounts, pc>>

(* RefGuardBlocking::drop.  Each drop panics on a poisoned mutex, and when    *)
(* it panics holding the mutex, it poisons it.                                 *)
DropRef(t) ==
  /\ pc[t] = "run" /\ held[t].refs > 0
  /\ held' = [held EXCEPT ![t].refs = @ - 1]
  /\ \/ /\ ~lockPoisoned /\ sharedCounts[t] > 0
        /\ sharedCounts' = [sharedCounts EXCEPT ![t] = @ - 1]
        /\ bs' = DecrementShared(bs)
        /\ lockPoisoned' = ~DecrementSharedOk(bs)
        /\ IF DecrementSharedOk(bs) THEN NotifyOneMut ELSE UNCHANGED pc
     \/ /\ lockPoisoned \/ sharedCounts[t] = 0
        /\ lockPoisoned' = TRUE
        /\ UNCHANGED <<bs, sharedCounts, pc>>
  /\ UNCHANGED <<mutThread, newestLost, calls>>

(* MutGuardBlocking::drop.                                                     *)
DropMut(t) ==
  /\ pc[t] = "run" /\ HasAwakeMut(t)
  /\ held' = [held EXCEPT ![t].muts = @ - 1]
  /\ \/ /\ ~lockPoisoned
        /\ bs' = DecrementMut(bs)
        /\ lockPoisoned' = ~DecrementMutOk(bs)
        /\ IF DecrementMutOk(bs) THEN NotifyBoth ELSE UNCHANGED pc
     \/ lockPoisoned /\ UNCHANGED <<bs, lockPoisoned, pc>>
  /\ UNCHANGED <<mutThread, sharedCounts, newestLost, calls>>

(* The inaccessible guards of a thread form a stack.  The newest has the      *)
(* stack depth of the cell, and its drop panics while newer guards that are   *)
(* not inaccessible live; the drop of a lower one always poisons.              *)
NewestAlive(t) == held[t].inacc > 0 /\ ~newestLost
LowerAlive(t) == held[t].inacc > (IF newestLost THEN 0 ELSE 1)

DropNewest(t) ==
  /\ NewestAlive(t)
  /\ \/ /\ ~lockPoisoned /\ MayUnsetInaccessible(bs)
        /\ bs' = UnsetInaccessible(bs)
        /\ UNCHANGED <<lockPoisoned, newestLost>>
     \/ /\ lockPoisoned \/ ~MayUnsetInaccessible(bs)
        /\ lockPoisoned' = TRUE /\ newestLost' = TRUE
        /\ UNCHANGED bs

DropLower(t) ==
  /\ LowerAlive(t)
  /\ bs' = IF lockPoisoned THEN bs ELSE Poison(bs)
  /\ lockPoisoned' = TRUE
  /\ UNCHANGED newestLost

(* InaccessibleGuard::can_drop: either condition will do, so that the newest  *)
(* guard always passes.  InaccessibleGuardBlocking::try_drop checks it, also  *)
(* under a poisoned mutex, and gives up the mutex before it drops.  When the  *)
(* check fails the guard is handed back.                                       *)
CanDrop(inOrder) == MayUnsetInaccessible(bs) \/ inOrder

TryDrop(t) ==
  /\ pc[t] = "run"
  /\ \/ NewestAlive(t) /\ CanDrop(TRUE) /\ Goto(t, "tryDrop")
     \/ LowerAlive(t) /\ CanDrop(FALSE) /\ Goto(t, "tryDropLower")
  /\ UNCHANGED <<bs, mutThread, sharedCounts, lockPoisoned, held, newestLost, calls>>

AtTryDrop(t) == pc[t] \in {"tryDrop", "tryDropLower"}

(* InaccessibleGuardBlocking::drop, at the end of try_drop or in right order. *)
DropInaccessible(t) ==
  /\ \/ pc[t] = "tryDrop" /\ DropNewest(t)
     \/ pc[t] = "tryDropLower" /\ DropLower(t)
     \/ pc[t] = "run" /\ MayUnsetInaccessible(bs) /\ DropNewest(t)
  /\ held' = [held EXCEPT ![t].inacc = @ - 1]
  /\ Goto(t, "run")
  /\ UNCHANGED <<mutThread, sharedCounts, calls>>

(* The same drop with newer guards alive: it panics holding the mutex.        *)
DropInaccessibleMisordered(t) ==
  /\ Misordered
  /\ pc[t] = "run"
  /\ \/ ~MayUnsetInaccessible(bs) /\ DropNewest(t)
     \/ DropLower(t)
  /\ held' = [held EXCEPT ![t].inacc = @ - 1]
  /\ UNCHANGED <<mutThread, sharedCounts, pc, calls>>

Drop(t) == DropRef(t) \/ DropMut(t) \/ DropInaccessible(t)
Recheck(t) == RecheckImmut(t) \/ RecheckMut(t)

Next ==
  \E t \in Threads :
     \/ Borrow(t) \/ BorrowMut(t) \/ MakeInaccessible(t)
     \/ Recheck(t) \/ SpuriousWake(t)
     \/ Drop(t) \/ TryDrop(t) \/ DropInaccessibleMisordered(t)

Spec == Init /\ [][Next]_vars

(* Mutex waiters get the mutex in the end, and no program keeps a guard for   *)
(* ever: the storage guards live for one call.                                 *)
Fairness == \A t \in Threads : WF_vars(Recheck(t)) /\ WF_vars(Drop(t))
FairSpec == Spec /\ Fairness
------------------------------------------------------------------------------
TypeOK ==
  /\ bs \in BorrowStates
  /\ mutThread \in Threads
  /\ sharedCounts \in [Threads -> Nat]
  /\ lockPoisoned \in BOOLEAN
  /\ pc \in [Threads -> PcValues]
  /\ held \in [Threads -> [refs : Nat, muts : Nat, inacc : Nat]]
  /\ newestLost \in BOOLEAN
  /\ calls \in [Threads -> 0 .. MaxCalls]

(* The reason the cell is Sync (blocking_cell.rs:171-175): while a thread has *)
(* mutable guards alive, awake or not, no other thread has any guard, and     *)
(* mut_thread names that thread.                                              *)
OneThreadMutates ==
  \A t \in Threads : held[t].muts > 0 =>
     /\ ~lockPoisoned => mutThread = t
     /\ \A u \in Threads \ {t} : held[u] = Nothing

(* A thread that owns the awake mutable guard owns no shared guard, as long   *)
(* as no drop has panicked.                                                    *)
AwakeMutIsExclusive ==
  \A t \in Threads : HasAwakeMut(t) /\ ~lockPoisoned => held[t].refs = 0

(* Both together: no interleaving, and no panic, lets a second thread in      *)
(* beside one that can write, and until a drop panics the reference it writes *)
(* through is the only usable one.  What a caught panic does to the second    *)
(* half is DropCausesNoUB of GdCell.                                           *)
MutatorIsAlone == OneThreadMutates /\ AwakeMutIsExclusive

(* borrow fails only "if an accessible mutable reference exists on the        *)
(* current thread" (blocking_cell.rs:44): a thread with no guard blocks or    *)
(* succeeds.  borrow_mut does so too, as blocking_cell.rs:89-90 promises, but *)
(* for one case: others read, and mut_thread still names the thread, which    *)
(* was the last to claim it.                                                   *)
FreshBorrowsRarelyFail ==
  \A t \in Threads : ~lockPoisoned /\ held[t] = Nothing =>
    /\ BorrowBlocks(t) \/ EnsureCanRef(bs)
    /\ BorrowMutBlocks(t) \/ EnsureCanMutRef(bs) \/ mutThread = t

(* try_drop decides under the mutex and drops after giving it up: between the *)
(* two, no step of another thread changes what the decision was made on.      *)
TryDropNotStale ==
  [][\A t \in Threads :
       AtTryDrop(t) /\ pc'[t] = pc[t] /\ ~lockPoisoned => bs' = bs]_vars

(* tests/mock/blocking.rs:44 and 153-158: calls from many threads do not      *)
(* deadlock, and a thread that holds guards is not blocked by them: a thread  *)
(* that blocks returns, as long as no drop panics.                            *)
BlockedReturns ==
  \A t \in Threads : pc[t] # "run" ~> (pc[t] = "run" \/ lockPoisoned)
------------------------------------------------------------------------------
(* The cell is a lock owned by threads, as long as no drop panics.            *)
Lock == INSTANCE OwnedLock WITH
          writers <- {t \in Threads : ~lockPoisoned /\ held[t].muts > 0},
          readers <- {t \in Threads : ~lockPoisoned /\ held[t].refs > 0},
          broken <- lockPoisoned

ImplementsOwnedLock == Lock!Spec
==============================================================================
