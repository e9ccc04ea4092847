------------------------- MODULE GdCellBlockingProofs -------------------------
(* For any set of threads and every usize::MAX: the blocking cell lets one    *)
(* thread mutate at a time, awake or not, whatever panics; until a drop       *)
(* panics, what it writes through is the only usable reference; no            *)
(* interleaving makes try_drop stale; and a thread without guards is served   *)
(* or blocks.                                                                  *)
EXTENDS GdCellBlocking, FiniteSetTheorems, TLAPS

(* The shared guards of all threads, each numbered within its thread, so that *)
(* the counter of the cell is the size of a set.                               *)
RefSlots == {p \in Threads \X (Nat \ {0}) : p[2] <= held[p[1]].refs}

RefsCounted == IsFiniteSet(RefSlots) /\ Cardinality(RefSlots) = bs.shared

(* What the cell and its tracker say of the threads while no drop panicked:   *)
(* mut_thread has all the mutable and inaccessible guards that are counted,   *)
(* each thread has the shared guards recorded for it, and no thread shares    *)
(* with another that mutates.                                                  *)
Owned ==
  /\ ~bs.poisoned /\ bs.mut \in {bs.inacc, bs.inacc + 1}
  /\ HasAccessible(bs) => bs.shared = 0
  /\ held[mutThread].muts = bs.mut /\ held[mutThread].inacc = bs.inacc
  /\ \A t \in Threads : held[t].refs = sharedCounts[t]
  /\ \A t \in Threads \ {mutThread} : held[t].muts = 0 /\ held[t].inacc = 0
  /\ bs.mut > 0 => \A t \in Threads \ {mutThread} : held[t].refs = 0

(* What stays true of the guards when a panic has poisoned the mutex.         *)
Alone == \A t \in Threads : held[t].muts > 0 =>
           \A u \in Threads \ {t} : held[u] = Nothing

(* A thread between the halves of try_drop still has the guard to drop.       *)
TryDropHasGuard == \A t \in Threads : AtTryDrop(t) => held[t].inacc > 0

IInv == /\ TypeOK /\ Alone /\ TryDropHasGuard
        /\ ~lockPoisoned => Owned /\ RefsCounted

HeldType == [Threads -> [refs : Nat, muts : Nat, inacc : Nat]]
------------------------------------------------------------------------------
(* A guard more or less of thread t changes one number of one thread.         *)
LEMMA HeldRefs ==
  ASSUME held \in HeldType, NEW t \in Threads, NEW n \in Nat,
         held' = [held EXCEPT ![t].refs = n]
  PROVE  /\ held' \in HeldType /\ held'[t].refs = n
         /\ \A u \in Threads : held'[u].muts = held[u].muts /\ held'[u].inacc = held[u].inacc
         /\ \A u \in Threads \ {t} : held'[u] = held[u]
BY DEF HeldType

LEMMA HeldMuts ==
  ASSUME held \in HeldType, NEW t \in Threads, NEW n \in Nat,
         held' = [held EXCEPT ![t].muts = n]
  PROVE  /\ held' \in HeldType /\ held'[t].muts = n
         /\ \A u \in Threads : held'[u].refs = held[u].refs /\ held'[u].inacc = held[u].inacc
         /\ \A u \in Threads \ {t} : held'[u] = held[u]
BY DEF HeldType

LEMMA HeldInacc ==
  ASSUME held \in HeldType, NEW t \in Threads, NEW n \in Nat,
         held' = [held EXCEPT ![t].inacc = n]
  PROVE  /\ held' \in HeldType /\ held'[t].inacc = n
         /\ \A u \in Threads : held'[u].refs = held[u].refs /\ held'[u].muts = held[u].muts
         /\ \A u \in Threads \ {t} : held'[u] = held[u]
BY DEF HeldType

(* The set of shared guards follows: one more, one fewer, the same.           *)
LEMMA SlotAdded ==
  ASSUME held \in HeldType, RefsCounted, bs.shared \in Nat, NEW t \in Threads,
         held' = [held EXCEPT ![t].refs = held[t].refs + 1],
         bs'.shared = bs.shared + 1
  PROVE  RefsCounted'
<1>1. /\ held[t].refs \in Nat /\ held'[t].refs = held[t].refs + 1
      /\ \A u \in Threads \ {t} : held'[u] = held[u]
  BY HeldRefs DEF HeldType
<1>2. \A u \in Threads : held[u].refs \in Nat
  BY DEF HeldType
<1>3. RefSlots' = RefSlots \cup {<<t, held[t].refs + 1>>}
  BY <1>1, <1>2 DEF RefSlots
<1>4. <<t, held[t].refs + 1>> \notin RefSlots
  BY <1>1 DEF RefSlots
<1>5. /\ IsFiniteSet(RefSlots \cup {<<t, held[t].refs + 1>>})
      /\ Cardinality(RefSlots \cup {<<t, held[t].refs + 1>>}) = Cardinality(RefSlots) + 1
  BY <1>4, FS_AddElement DEF RefsCounted
<1>6. QED
  BY <1>3, <1>5 DEF RefsCounted

LEMMA SlotRemoved ==
  ASSUME held \in HeldType, RefsCounted, bs.shared \in Nat, NEW t \in Threads,
         held[t].refs > 0,
         held' = [held EXCEPT ![t].refs = held[t].refs - 1],
         bs'.shared = bs.shared - 1
  PROVE  RefsCounted'
<1>1. held[t].refs \in Nat \ {0} /\ held[t].refs - 1 \in Nat
  BY DEF HeldType
<1>2. /\ held'[t].refs = held[t].refs - 1
      /\ \A u \in Threads \ {t} : held'[u] = held[u]
  BY <1>1, HeldRefs
<1>3. \A u \in Threads : held[u].refs \in Nat
  BY DEF HeldType
<1>4. RefSlots' = RefSlots \ {<<t, held[t].refs>>} /\ <<t, held[t].refs>> \in RefSlots
  BY <1>1, <1>2, <1>3 DEF RefSlots
<1>5. /\ IsFiniteSet(RefSlots \ {<<t, held[t].refs>>})
      /\ Cardinality(RefSlots \ {<<t, held[t].refs>>}) = Cardinality(RefSlots) - 1
  BY <1>4, FS_RemoveElement DEF RefsCounted
<1>6. QED
  BY <1>4, <1>5 DEF RefsCounted

LEMMA SlotsSame ==
  ASSUME RefsCounted, \A u \in Threads : held'[u].refs = held[u].refs,
         bs'.shared = bs.shared
  PROVE  RefsCounted'
<1>1. RefSlots' = RefSlots
  BY DEF RefSlots
<1>2. QED
  BY <1>1 DEF RefsCounted

LEMMA NoRefs ==
  ASSUME held \in HeldType, RefsCounted, bs.shared = 0
  PROVE  \A t \in Threads : held[t].refs = 0
<1> SUFFICES ASSUME NEW t \in Threads, held[t].refs # 0 PROVE FALSE
  OBVIOUS
<1>1. <<t, 1>> \in RefSlots
  BY DEF RefSlots, HeldType
<1>2. RefSlots = {}
  BY FS_EmptySet DEF RefsCounted
<1>3. QED
  BY <1>1, <1>2
------------------------------------------------------------------------------
(* One thread that mutates leaves nothing to the others.                      *)
LEMMA OwnedIsAlone ==
  ASSUME TypeOK, Owned
  PROVE  Alone
<1> SUFFICES ASSUME NEW t \in Threads, held[t].muts > 0, NEW u \in Threads \ {t}
             PROVE  held[u] = Nothing
  BY DEF Alone
<1>1. t = mutThread /\ bs.mut > 0
  BY DEF Owned
<1>2. held[u].refs = 0 /\ held[u].muts = 0 /\ held[u].inacc = 0
  BY <1>1 DEF Owned
<1>3. held[u] \in [refs : Nat, muts : Nat, inacc : Nat]
  BY DEF TypeOK
<1>4. QED
  BY <1>2, <1>3 DEF Nothing

LEMMA DropIsAlone ==
  ASSUME TypeOK, Alone, NEW t \in Threads, held[t] # Nothing,
         \A u \in Threads \ {t} : held'[u] = held[u],
         held'[t].muts > 0 => held[t].muts > 0
  PROVE  Alone'
BY DEF Alone

(* A reference that borrow gives to a thread that does not have to block.     *)
LEMMA TakeRefOwned ==
  ASSUME TypeOK, Owned, RefsCounted, NEW t \in Threads, TakeRef(t),
         IsCurrentlyMutablyBound => HasMutRef(t)
  PROVE  Owned' /\ RefsCounted'
<1>0. bs \in BorrowStates /\ held \in HeldType /\ bs.shared \in Nat
      /\ held[t].refs + 1 \in Nat /\ mutThread \in Threads
      /\ bs.mut \in Nat /\ bs.inacc \in Nat /\ sharedCounts \in [Threads -> Nat]
  BY UsizeMaxAssumption DEF TypeOK, HeldType, BorrowStates
<1>1. CASE ~IncrementSharedOk(bs)
  BY <1>1 DEF TakeRef, Owned, RefsCounted, RefSlots
<1>2. CASE IncrementSharedOk(bs)
  <2>1. /\ bs' = IncrementShared(bs)
        /\ sharedCounts' = [sharedCounts EXCEPT ![t] = sharedCounts[t] + 1]
        /\ mutThread' = IF IsCurrentlyBound THEN mutThread ELSE t
        /\ held' = [held EXCEPT ![t].refs = held[t].refs + 1]
    BY <1>2 DEF TakeRef
  <2>2. /\ bs'.shared = bs.shared + 1 /\ bs'.mut = bs.mut /\ bs'.inacc = bs.inacc
        /\ ~bs'.poisoned /\ ~HasAccessible(bs)
    BY <1>0, <1>2, <2>1, UsizeMaxAssumption
    DEF HasAccessible, BorrowStates, IncrementShared, IncrementSharedOk, EnsureCanRef
  <2>3. /\ held'[t].refs = held[t].refs + 1
        /\ \A u \in Threads : held'[u].muts = held[u].muts /\ held'[u].inacc = held[u].inacc
        /\ \A u \in Threads \ {t} : held'[u] = held[u]
    BY <1>0, <2>1, HeldRefs
  <2>4. RefsCounted'
    BY <1>0, <2>1, <2>2, SlotAdded
  <2>5. \A u \in Threads : held'[u].refs = sharedCounts'[u]
    BY <1>0, <2>1, <2>3 DEF Owned
  <2>6. bs.mut > 0 => mutThread' = mutThread /\ mutThread = t
    BY <2>1 DEF IsCurrentlyBound, IsCurrentlyMutablyBound, HasMutRef
  <2>7. bs.mut = 0 => bs.inacc = 0 /\ \A u \in Threads : held[u].muts = 0 /\ held[u].inacc = 0
    BY <1>0 DEF Owned
  <2>8. mutThread' \in Threads
    BY <1>0, <2>1
  <2>9. /\ held'[mutThread'].muts = bs'.mut /\ held'[mutThread'].inacc = bs'.inacc
        /\ \A u \in Threads \ {mutThread'} : held'[u].muts = 0 /\ held'[u].inacc = 0
        /\ bs'.mut > 0 => \A u \in Threads \ {mutThread'} : held'[u].refs = 0
    <3>1. CASE bs.mut > 0
      BY <1>0, <2>2, <2>3, <2>6, <2>8, <3>1 DEF Owned
    <3>2. CASE bs.mut = 0
      BY <1>0, <2>2, <2>3, <2>7, <2>8, <3>2
    <3>3. QED
      BY <1>0, <3>1, <3>2
  <2>10. QED
    BY <1>0, <2>2, <2>4, <2>5, <2>9 DEF Owned, HasAccessible
<1>3. QED
  BY <1>1, <1>2

(* And the mutable one that borrow_mut gives.                                 *)
LEMMA TakeMutOwned ==
  ASSUME TypeOK, Owned, RefsCounted, NEW t \in Threads, TakeMut(t),
         IsCurrentlyBound /\ sharedCounts[t] = 0 => HasMutRef(t)
  PROVE  Owned' /\ RefsCounted'
<1>0. bs \in BorrowStates /\ held \in HeldType /\ bs.shared \in Nat
      /\ held[t].muts + 1 \in Nat /\ mutThread \in Threads
      /\ bs.mut \in Nat /\ bs.inacc \in Nat /\ sharedCounts \in [Threads -> Nat]
  BY UsizeMaxAssumption DEF TypeOK, HeldType, BorrowStates
<1>1. CASE ~IncrementMutOk(bs)
  BY <1>1 DEF TakeMut, Owned, RefsCounted, RefSlots
<1>2. CASE IncrementMutOk(bs)
  <2>1. /\ bs' = IncrementMut(bs) /\ mutThread' = t /\ UNCHANGED sharedCounts
        /\ held' = [held EXCEPT ![t].muts = held[t].muts + 1]
    BY <1>2 DEF TakeMut
  <2>2. /\ bs'.shared = 0 /\ bs.shared = 0 /\ bs'.mut = bs.mut + 1 /\ bs'.inacc = bs.inacc
        /\ ~bs'.poisoned /\ bs.mut = bs.inacc
    BY <1>0, <1>2, <2>1, UsizeMaxAssumption
    DEF Owned, BorrowStates, IncrementMut, IncrementMutOk, EnsureCanMutRef,
        EnsureCanRef, HasAccessible
  <2>3. /\ held'[t].muts = held[t].muts + 1
        /\ \A u \in Threads : held'[u].refs = held[u].refs /\ held'[u].inacc = held[u].inacc
        /\ \A u \in Threads \ {t} : held'[u] = held[u]
    BY <1>0, <2>1, HeldMuts
  <2>4. \A u \in Threads : held[u].refs = 0
    BY <1>0, <2>2, NoRefs
  <2>5. RefsCounted'
    BY <2>2, <2>3, SlotsSame
  <2>6. bs.mut > 0 => mutThread = t
    BY <2>4 DEF Owned, IsCurrentlyBound, HasMutRef
  <2>7. bs.mut = 0 => \A u \in Threads : held[u].muts = 0 /\ held[u].inacc = 0
    BY <1>0, <2>2 DEF Owned
  <2>8. /\ held[t].muts = bs.mut /\ held[t].inacc = bs.inacc
        /\ \A u \in Threads \ {t} : held[u].muts = 0 /\ held[u].inacc = 0
    <3>1. CASE bs.mut > 0
      BY <2>6, <3>1 DEF Owned
    <3>2. CASE bs.mut = 0
      BY <2>2, <2>7, <3>2
    <3>3. QED
      BY <1>0, <3>1, <3>2
  <2>9. \A u \in Threads : held'[u].refs = sharedCounts'[u]
    BY <2>1, <2>3 DEF Owned
  <2>10. QED
    BY <1>0, <2>1, <2>2, <2>3, <2>4, <2>5, <2>8, <2>9 DEF Owned, HasAccessible
<1>3. QED
  BY <1>1, <1>2
------------------------------------------------------------------------------
(* A mutable guard put to sleep stays counted for its thread.                 *)
LEMMA MakeInaccessibleOwned ==
  ASSUME TypeOK, Owned, RefsCounted, NEW t \in Threads, MakeInaccessible(t)
  PROVE  Owned' /\ RefsCounted'
<1>0. bs \in BorrowStates /\ held \in HeldType /\ bs.shared \in Nat
      /\ held[t].inacc + 1 \in Nat /\ held[t].muts \in Nat /\ mutThread \in Threads
      /\ bs.mut \in Nat /\ bs.inacc \in Nat /\ sharedCounts \in [Threads -> Nat]
  BY UsizeMaxAssumption DEF TypeOK, HeldType, BorrowStates
<1>1. /\ bs' = SetInaccessible(bs) /\ UNCHANGED <<mutThread, sharedCounts>>
      /\ held' = [held EXCEPT ![t].inacc = held[t].inacc + 1]
      /\ SetInaccessibleOk(bs) /\ held[t].muts > held[t].inacc
  BY DEF MakeInaccessible, HasAwakeMut
<1>2. /\ bs'.shared = bs.shared /\ bs'.mut = bs.mut /\ bs'.inacc = bs.inacc + 1
      /\ bs'.poisoned = bs.poisoned /\ bs.mut = bs.inacc + 1
  BY <1>0, <1>1, UsizeMaxAssumption
  DEF BorrowStates, SetInaccessible, SetInaccessibleOk, HasAccessible
<1>3. /\ held'[t].inacc = held[t].inacc + 1
      /\ \A u \in Threads : held'[u].refs = held[u].refs /\ held'[u].muts = held[u].muts
      /\ \A u \in Threads \ {t} : held'[u] = held[u]
  BY <1>0, <1>1, HeldInacc
<1>4. t = mutThread
  <2>1. held[t].muts # 0
    BY <1>0, <1>1 DEF HeldType
  <2>2. QED
    BY <2>1 DEF Owned
<1>5. RefsCounted'
  BY <1>2, <1>3, SlotsSame
<1>6. QED
  BY <1>0, <1>1, <1>2, <1>3, <1>4, <1>5 DEF Owned, HasAccessible

(* A drop that does not poison the mutex.                                     *)
LEMMA DropRefOwned ==
  ASSUME TypeOK, Owned, RefsCounted, NEW t \in Threads, DropRef(t), ~lockPoisoned'
  PROVE  Owned' /\ RefsCounted'
<1>0. bs \in BorrowStates /\ held \in HeldType /\ bs.shared \in Nat
      /\ held[t].refs - 1 \in Nat /\ held[t].refs > 0 /\ mutThread \in Threads
      /\ bs.mut \in Nat /\ bs.inacc \in Nat /\ sharedCounts \in [Threads -> Nat]
      /\ ~lockPoisoned
  BY UsizeMaxAssumption DEF TypeOK, HeldType, BorrowStates, DropRef
<1>1. /\ DecrementSharedOk(bs) /\ bs' = DecrementShared(bs) /\ UNCHANGED mutThread
      /\ sharedCounts' = [sharedCounts EXCEPT ![t] = sharedCounts[t] - 1]
      /\ held' = [held EXCEPT ![t].refs = held[t].refs - 1]
  BY DEF DropRef
<1>2. /\ bs'.shared = bs.shared - 1 /\ bs'.mut = bs.mut /\ bs'.inacc = bs.inacc
      /\ bs'.poisoned = bs.poisoned /\ ~HasAccessible(bs)
  BY <1>0, <1>1, UsizeMaxAssumption
  DEF DecrementSharedOk, BorrowStates, DecrementShared, Poison, HasAccessible
<1>3. /\ held'[t].refs = held[t].refs - 1
      /\ \A u \in Threads : held'[u].muts = held[u].muts /\ held'[u].inacc = held[u].inacc
      /\ \A u \in Threads \ {t} : held'[u] = held[u]
  BY <1>0, <1>1, HeldRefs
<1>4. RefsCounted'
  BY <1>0, <1>1, <1>2, SlotRemoved
<1>5. \A u \in Threads : held'[u].refs = sharedCounts'[u]
  BY <1>0, <1>1, <1>3 DEF Owned
<1>6. bs'.mut > 0 => \A u \in Threads \ {mutThread} : held'[u].refs = 0
  <2>1. bs.mut > 0 => t = mutThread
    BY <1>0 DEF Owned
  <2>2. QED
    BY <1>2, <1>3, <2>1 DEF Owned
<1>7. QED
  BY <1>0, <1>1, <1>2, <1>3, <1>4, <1>5, <1>6 DEF Owned, HasAccessible

LEMMA DropMutOwned ==
  ASSUME TypeOK, Owned, RefsCounted, NEW t \in Threads, DropMut(t), ~lockPoisoned'
  PROVE  Owned' /\ RefsCounted'
<1>0. bs \in BorrowStates /\ held \in HeldType /\ bs.shared \in Nat
      /\ held[t].muts - 1 \in Nat /\ held[t].muts > 0 /\ mutThread \in Threads
      /\ bs.mut \in Nat /\ bs.inacc \in Nat /\ sharedCounts \in [Threads -> Nat]
  BY UsizeMaxAssumption DEF TypeOK, HeldType, BorrowStates, DropMut, HasAwakeMut
<1>1. /\ DecrementMutOk(bs) /\ bs' = DecrementMut(bs) /\ UNCHANGED <<mutThread, sharedCounts>>
      /\ held' = [held EXCEPT ![t].muts = held[t].muts - 1]
  <2>1. ~lockPoisoned
    BY DEF DropMut
  <2>2. bs' = DecrementMut(bs) /\ lockPoisoned' = ~DecrementMutOk(bs)
    BY <2>1 DEF DropMut
  <2>3. DecrementMutOk(bs)
    BY <2>2
  <2>4. QED
    BY <2>2, <2>3 DEF DropMut
<1>2. /\ bs'.shared = bs.shared /\ bs'.mut = bs.mut - 1 /\ bs'.inacc = bs.inacc
      /\ bs'.poisoned = bs.poisoned /\ bs.mut = bs.inacc + 1
  BY <1>0, <1>1, UsizeMaxAssumption
  DEF DecrementMutOk, BorrowStates, DecrementMut, Poison
<1>3. /\ held'[t].muts = held[t].muts - 1
      /\ \A u \in Threads : held'[u].refs = held[u].refs /\ held'[u].inacc = held[u].inacc
      /\ \A u \in Threads \ {t} : held'[u] = held[u]
  BY <1>0, <1>1, HeldMuts
<1>4. t = mutThread
  BY <1>0 DEF Owned
<1>5. RefsCounted'
  BY <1>2, <1>3, SlotsSame
<1>6. QED
  BY <1>0, <1>1, <1>2, <1>3, <1>4, <1>5 DEF Owned, HasAccessible

LEMMA DropInaccessibleOwned ==
  ASSUME TypeOK, Owned, RefsCounted, NEW t \in Threads, DropInaccessible(t), ~lockPoisoned'
  PROVE  Owned' /\ RefsCounted'
<1>0. bs \in BorrowStates /\ held \in HeldType /\ bs.shared \in Nat
      /\ held[t].inacc - 1 \in Nat /\ held[t].inacc > 0 /\ mutThread \in Threads
      /\ bs.mut \in Nat /\ bs.inacc \in Nat /\ sharedCounts \in [Threads -> Nat]
  BY UsizeMaxAssumption
  DEF TypeOK, HeldType, BorrowStates, DropInaccessible, DropNewest, NewestAlive, DropLower
<1>1. /\ MayUnsetInaccessible(bs) /\ bs' = UnsetInaccessible(bs)
      /\ UNCHANGED <<mutThread, sharedCounts>>
      /\ held' = [held EXCEPT ![t].inacc = held[t].inacc - 1]
  BY DEF DropInaccessible, DropNewest, DropLower
<1>2. /\ bs'.shared = 0 /\ bs.shared = 0 /\ bs'.mut = bs.mut /\ bs'.inacc = bs.inacc - 1
      /\ bs'.poisoned = bs.poisoned /\ bs.mut = bs.inacc /\ bs.inacc > 0
  BY <1>0, <1>1, UsizeMaxAssumption
  DEF Owned, BorrowStates, UnsetInaccessible, MayUnsetInaccessible, HasAccessible
<1>3. /\ held'[t].inacc = held[t].inacc - 1
      /\ \A u \in Threads : held'[u].refs = held[u].refs /\ held'[u].muts = held[u].muts
      /\ \A u \in Threads \ {t} : held'[u] = held[u]
  BY <1>0, <1>1, HeldInacc
<1>4. t = mutThread
  BY <1>0 DEF Owned
<1>5. RefsCounted'
  BY <1>2, <1>3, SlotsSame
<1>6. QED
  BY <1>0, <1>1, <1>2, <1>3, <1>4, <1>5 DEF Owned, HasAccessible

(* Every step that leaves the mutex whole.                                    *)
LEMMA NextOwned ==
  ASSUME TypeOK, Owned, RefsCounted, ~lockPoisoned, Next, ~lockPoisoned'
  PROVE  Owned' /\ RefsCounted'
<1>1. PICK t \in Threads :
         \/ Borrow(t) \/ BorrowMut(t) \/ MakeInaccessible(t)
         \/ Recheck(t) \/ SpuriousWake(t)
         \/ Drop(t) \/ TryDrop(t) \/ DropInaccessibleMisordered(t)
  BY DEF Next
<1>2. ASSUME Unmoved PROVE Owned' /\ RefsCounted'
  BY <1>2 DEF Unmoved, Owned, RefsCounted, RefSlots
<1>3. CASE Borrow(t)
  <2>1. Unmoved \/ (TakeRef(t) /\ ~BorrowBlocks(t))
    BY <1>3 DEF Borrow
  <2>2. QED
    BY <1>2, <2>1, TakeRefOwned DEF BorrowBlocks
<1>4. CASE BorrowMut(t)
  <2>1. Unmoved \/ (TakeMut(t) /\ ~BorrowMutBlocks(t))
    BY <1>4 DEF BorrowMut
  <2>2. QED
    BY <1>2, <2>1, TakeMutOwned DEF BorrowMutBlocks
<1>5. CASE RecheckImmut(t)
  <2>1. Unmoved \/ (TakeRef(t) /\ ~IsCurrentlyMutablyBound)
    BY <1>5 DEF RecheckImmut
  <2>2. QED
    BY <1>2, <2>1, TakeRefOwned
<1>6. CASE RecheckMut(t)
  <2>1. Unmoved \/ (TakeMut(t) /\ ~IsCurrentlyBound)
    BY <1>6 DEF RecheckMut
  <2>2. QED
    BY <1>2, <2>1, TakeMutOwned
<1>7. CASE SpuriousWake(t) \/ TryDrop(t)
  BY <1>2, <1>7 DEF SpuriousWake, TryDrop, Unmoved
<1>8. CASE MakeInaccessible(t)
  BY <1>8, MakeInaccessibleOwned
<1>9. CASE Drop(t)
  BY <1>9, DropRefOwned, DropMutOwned, DropInaccessibleOwned DEF Drop
<1>10. CASE DropInaccessibleMisordered(t)
  BY <1>10 DEF DropInaccessibleMisordered, DropNewest, DropLower
<1>11. QED
  BY <1>1, <1>3, <1>4, <1>5, <1>6, <1>7, <1>8, <1>9, <1>10 DEF Recheck

(* A guard is dropped only by a thread that has one.                          *)
LEMMA GuardToDrop ==
  ASSUME NEW t \in Threads, held[t].inacc \in Nat, DropNewest(t) \/ DropLower(t)
  PROVE  held[t].inacc > 0
BY DEF DropNewest, DropLower, NewestAlive, LowerAlive

(* And every step after a panic in the mutex or that is one: guards are only  *)
(* dropped.                                                                    *)
LEMMA NextAlone ==
  ASSUME TypeOK, Alone, Next, lockPoisoned'
  PROVE  Alone'
<1>1. PICK t \in Threads :
         \/ Borrow(t) \/ BorrowMut(t) \/ MakeInaccessible(t)
         \/ Recheck(t) \/ SpuriousWake(t)
         \/ Drop(t) \/ TryDrop(t) \/ DropInaccessibleMisordered(t)
  BY DEF Next
<1>2. held \in HeldType /\ held[t] \in [refs : Nat, muts : Nat, inacc : Nat]
  BY DEF TypeOK, HeldType
<1>3. ASSUME UNCHANGED held PROVE Alone'
  BY <1>3 DEF Alone
<1>4. CASE Borrow(t) \/ BorrowMut(t) \/ MakeInaccessible(t)
  BY <1>4 DEF Borrow, BorrowMut, MakeInaccessible, Call
<1>5. CASE Recheck(t) \/ SpuriousWake(t) \/ TryDrop(t)
  BY <1>3, <1>5 DEF Recheck, RecheckImmut, RecheckMut, SpuriousWake, TryDrop, Unmoved
<1>6. CASE DropRef(t)
  <2>1. /\ held' = [held EXCEPT ![t].refs = held[t].refs - 1]
        /\ held[t].refs > 0 /\ held[t].refs - 1 \in Nat
    BY <1>2, <1>6 DEF DropRef
  <2>2. held[t] # Nothing
    BY <2>1 DEF Nothing
  <2>3. QED
    BY <1>2, <2>1, <2>2, HeldRefs, DropIsAlone
<1>7. CASE DropMut(t)
  <2>1. /\ held' = [held EXCEPT ![t].muts = held[t].muts - 1]
        /\ held[t].muts > 0 /\ held[t].muts - 1 \in Nat
    BY <1>2, <1>7 DEF DropMut, HasAwakeMut
  <2>2. held[t] # Nothing
    BY <2>1 DEF Nothing
  <2>3. QED
    BY <1>2, <2>1, <2>2, HeldMuts, DropIsAlone
<1>8. CASE DropInaccessible(t) \/ DropInaccessibleMisordered(t)
  <2>1. /\ held' = [held EXCEPT ![t].inacc = held[t].inacc - 1]
        /\ held[t].inacc > 0 /\ held[t].inacc - 1 \in Nat
    <3>1. CASE DropInaccessible(t)
      BY <1>2, <3>1, GuardToDrop DEF DropInaccessible
    <3>2. CASE DropInaccessibleMisordered(t)
      BY <1>2, <3>2, GuardToDrop DEF DropInaccessibleMisordered
    <3>3. QED
      BY <1>8, <3>1, <3>2
  <2>2. held[t] # Nothing
    BY <2>1 DEF Nothing
  <2>3. QED
    BY <1>2, <2>1, <2>2, HeldInacc, DropIsAlone
<1>9. QED
  BY <1>1, <1>4, <1>5, <1>6, <1>7, <1>8 DEF Drop
------------------------------------------------------------------------------
(* Types: what the two ways to take a guard, and a notification, preserve.    *)
LEMMA TakeTypes ==
  ASSUME TypeOK, NEW t \in Threads, TakeRef(t) \/ TakeMut(t) \/ Unmoved
  PROVE  /\ bs' \in BorrowStates /\ mutThread' \in Threads
         /\ sharedCounts' \in [Threads -> Nat] /\ held' \in HeldType
<1>0. /\ bs \in BorrowStates /\ held \in HeldType /\ mutThread \in Threads
      /\ sharedCounts \in [Threads -> Nat]
      /\ held[t].refs + 1 \in Nat /\ held[t].muts + 1 \in Nat
  BY DEF TypeOK, HeldType
<1>1. CASE TakeRef(t)
  <2>1. CASE IncrementSharedOk(bs)
    BY <1>0, <1>1, <2>1, UsizeMaxAssumption, HeldRefs
    DEF TakeRef, BorrowStates, IncrementShared, IncrementSharedOk, EnsureCanRef,
        HasAccessible
  <2>2. CASE ~IncrementSharedOk(bs)
    BY <1>0, <1>1, <2>2 DEF TakeRef
  <2>3. QED
    BY <2>1, <2>2
<1>2. CASE TakeMut(t)
  <2>1. CASE IncrementMutOk(bs)
    BY <1>0, <1>2, <2>1, UsizeMaxAssumption, HeldMuts
    DEF TakeMut, BorrowStates, IncrementMut, IncrementMutOk, EnsureCanMutRef,
        EnsureCanRef, HasAccessible
  <2>2. CASE ~IncrementMutOk(bs)
    BY <1>0, <1>2, <2>2 DEF TakeMut
  <2>3. QED
    BY <2>1, <2>2
<1>3. CASE Unmoved
  BY <1>0, <1>3 DEF Unmoved
<1>4. QED
  BY <1>1, <1>2, <1>3

LEMMA NotifyTypes ==
  ASSUME TypeOK, NotifyOneMut \/ NotifyBoth \/ UNCHANGED pc
  PROVE  /\ pc' \in [Threads -> PcValues]
         /\ \A u \in Threads : pc'[u] = pc[u] \/ pc[u] \in {"waitMut", "waitImmut"}
         /\ \A u \in Threads : pc'[u] = pc[u] \/ pc'[u] \in {"wokenMut", "wokenImmut"}
<1>0. pc \in [Threads -> PcValues]
  BY DEF TypeOK
<1>1. CASE UNCHANGED pc
  BY <1>0, <1>1
<1>2. \A one \in OneMutWaiter : \A u \in one : u \in Threads /\ pc[u] = "waitMut"
  BY DEF OneMutWaiter, MutWaiters
<1>3. CASE NotifyOneMut
  <2>1. PICK one \in OneMutWaiter :
          pc' = [u \in Threads |-> IF u \in one THEN "wokenMut" ELSE pc[u]]
    BY <1>3 DEF NotifyOneMut
  <2>2. QED
    BY <1>0, <1>2, <2>1 DEF PcValues
<1>4. CASE NotifyBoth
  <2>1. PICK one \in OneMutWaiter :
          pc' = [u \in Threads |-> CASE u \in one -> "wokenMut"
                                     [] pc[u] = "waitImmut" -> "wokenImmut"
                                     [] OTHER -> pc[u]]
    BY <1>4 DEF NotifyBoth
  <2>2. ASSUME NEW u \in Threads
        PROVE  pc'[u] = IF u \in one THEN "wokenMut"
                        ELSE IF pc[u] = "waitImmut" THEN "wokenImmut" ELSE pc[u]
    <3>1. u \in one => pc[u] # "waitImmut"
      BY <1>2
    <3>2. pc'[u] = CASE u \in one -> "wokenMut"
                     [] pc[u] = "waitImmut" -> "wokenImmut"
                     [] OTHER -> pc[u]
      BY <2>1
    <3>3. QED
      BY <3>1, <3>2
  <2>3. DOMAIN pc' = Threads /\ pc' = [u \in Threads |-> pc'[u]]
    BY <2>1
  <2>4. QED
    BY <1>0, <1>2, <2>2, <2>3 DEF PcValues
<1>5. QED
  BY <1>1, <1>3, <1>4

(* Every action keeps the types.                                              *)
LEMMA NextTypeOK ==
  ASSUME TypeOK, Next
  PROVE  TypeOK'
<1>1. PICK t \in Threads :
         \/ Borrow(t) \/ BorrowMut(t) \/ MakeInaccessible(t)
         \/ Recheck(t) \/ SpuriousWake(t)
         \/ Drop(t) \/ TryDrop(t) \/ DropInaccessibleMisordered(t)
  BY DEF Next
<1>2. /\ bs \in BorrowStates /\ held \in HeldType /\ mutThread \in Threads
      /\ sharedCounts \in [Threads -> Nat] /\ lockPoisoned \in BOOLEAN
      /\ pc \in [Threads -> PcValues] /\ calls \in [Threads -> 0 .. MaxCalls]
      /\ newestLost \in BOOLEAN
      /\ held[t] \in [refs : Nat, muts : Nat, inacc : Nat]
  BY DEF TypeOK, HeldType
<1>3. ASSUME NEW where \in PcValues, Goto(t, where) PROVE pc' \in [Threads -> PcValues]
  BY <1>2, <1>3 DEF Goto
<1>4. ASSUME Call(t)
      PROVE  /\ calls' \in [Threads -> 0 .. MaxCalls]
             /\ lockPoisoned' \in BOOLEAN /\ newestLost' \in BOOLEAN
  <2>1. calls[t] \in 0 .. MaxCalls /\ calls[t] < MaxCalls /\ MaxCalls \in Nat
    BY <1>2, <1>4, BlockingAssumption DEF Call
  <2>2. calls[t] + 1 \in 0 .. MaxCalls
    BY <2>1
  <2>3. QED
    BY <1>2, <1>4, <2>2 DEF Call
<1>5. CASE Borrow(t)
  <2>1. Call(t) /\ (TakeRef(t) \/ Unmoved)
    BY <1>5 DEF Borrow
  <2>2. pc' \in [Threads -> PcValues]
    BY <1>2, <1>3, <1>5 DEF Borrow, PcValues
  <2>3. QED
    BY <1>4, <2>1, <2>2, TakeTypes DEF TypeOK, HeldType
<1>6. CASE BorrowMut(t)
  <2>1. Call(t) /\ (TakeMut(t) \/ Unmoved)
    BY <1>6 DEF BorrowMut
  <2>2. pc' \in [Threads -> PcValues]
    BY <1>2, <1>3, <1>6 DEF BorrowMut, PcValues
  <2>3. QED
    BY <1>4, <2>1, <2>2, TakeTypes DEF TypeOK, HeldType
<1>7. CASE Recheck(t)
  <2>1. /\ TakeRef(t) \/ TakeMut(t) \/ Unmoved
        /\ UNCHANGED <<lockPoisoned, newestLost, calls>>
    BY <1>7 DEF Recheck, RecheckImmut, RecheckMut
  <2>2. pc' \in [Threads -> PcValues]
    BY <1>3, <1>7 DEF Recheck, RecheckImmut, RecheckMut, PcValues
  <2>3. QED
    BY <1>2, <2>1, <2>2, TakeTypes DEF TypeOK, HeldType
<1>8. CASE SpuriousWake(t) \/ TryDrop(t)
  <2>1. pc' \in [Threads -> PcValues]
    BY <1>3, <1>8 DEF SpuriousWake, TryDrop, PcValues
  <2>2. QED
    BY <1>2, <1>8, <2>1 DEF SpuriousWake, TryDrop, TypeOK, HeldType
<1>9. CASE MakeInaccessible(t)
  <2>1. /\ Call(t) /\ bs' = SetInaccessible(bs) /\ SetInaccessibleOk(bs)
        /\ held' = [held EXCEPT ![t].inacc = held[t].inacc + 1]
        /\ UNCHANGED <<mutThread, sharedCounts, pc>>
    BY <1>9 DEF MakeInaccessible
  <2>2. bs' \in BorrowStates
    BY <1>2, <2>1, UsizeMaxAssumption
    DEF BorrowStates, SetInaccessible, SetInaccessibleOk, HasAccessible
  <2>3. held' \in HeldType
    <3>1. held[t].inacc + 1 \in Nat
      BY <1>2
    <3>2. QED
      BY <1>2, <2>1, <3>1, HeldInacc
  <2>4. QED
    BY <1>2, <1>4, <2>1, <2>2, <2>3 DEF TypeOK, HeldType
<1>10. CASE DropRef(t)
  <2>1. /\ held' = [held EXCEPT ![t].refs = held[t].refs - 1] /\ held[t].refs - 1 \in Nat
        /\ UNCHANGED <<mutThread, newestLost, calls>>
    BY <1>2, <1>10 DEF DropRef
  <2>2. held' \in HeldType
    BY <1>2, <2>1, HeldRefs
  <2>3. CASE UNCHANGED <<bs, sharedCounts, pc>> /\ lockPoisoned' = TRUE
    BY <1>2, <2>1, <2>2, <2>3 DEF TypeOK, HeldType
  <2>4. CASE /\ sharedCounts[t] > 0
             /\ sharedCounts' = [sharedCounts EXCEPT ![t] = sharedCounts[t] - 1]
             /\ bs' = DecrementShared(bs) /\ lockPoisoned' = ~DecrementSharedOk(bs)
             /\ NotifyOneMut \/ UNCHANGED pc
    <3>1. sharedCounts' \in [Threads -> Nat]
      <4>1. sharedCounts[t] - 1 \in Nat
        BY <1>2, <2>4
      <4>2. QED
        BY <1>2, <2>4, <4>1
    <3>2. bs' \in BorrowStates
      <4>1. \/ bs' = bs \/ bs' = [bs EXCEPT !.poisoned = TRUE]
            \/ bs.shared > 0 /\ bs' = [bs EXCEPT !.shared = bs.shared - 1]
        BY <2>4 DEF DecrementShared, DecrementSharedOk, Poison
      <4>2. CASE bs' = [bs EXCEPT !.shared = bs.shared - 1] /\ bs.shared > 0
        BY <1>2, <4>2, UsizeMaxAssumption DEF BorrowStates
      <4>3. CASE bs' = [bs EXCEPT !.poisoned = TRUE]
        BY <1>2, <4>3 DEF BorrowStates
      <4>4. QED
        BY <1>2, <4>1, <4>2, <4>3
    <3>3. pc' \in [Threads -> PcValues]
      BY <1>2, <2>4, NotifyTypes
    <3>4. lockPoisoned' \in BOOLEAN
      BY <2>4 DEF DecrementSharedOk
    <3>5. QED
      BY <1>2, <2>1, <2>2, <3>1, <3>2, <3>3, <3>4 DEF TypeOK, HeldType
  <2>5. QED
    BY <1>10, <2>3, <2>4 DEF DropRef
<1>11. CASE DropMut(t)
  <2>1. /\ held' = [held EXCEPT ![t].muts = held[t].muts - 1] /\ held[t].muts - 1 \in Nat
        /\ UNCHANGED <<mutThread, sharedCounts, newestLost, calls>>
    BY <1>2, <1>11 DEF DropMut, HasAwakeMut
  <2>2. held' \in HeldType
    BY <1>2, <2>1, HeldMuts
  <2>3. lockPoisoned' \in BOOLEAN /\ (bs' = bs \/ bs' = DecrementMut(bs))
        /\ (UNCHANGED pc \/ NotifyBoth)
    BY <1>2, <1>11 DEF DropMut, DecrementMutOk
  <2>4. bs' \in BorrowStates
    <3>1. \/ bs' = bs \/ bs' = [bs EXCEPT !.poisoned = TRUE]
          \/ bs.mut > 0 /\ bs' = [bs EXCEPT !.mut = bs.mut - 1]
      BY <2>3 DEF DecrementMut, DecrementMutOk, Poison
    <3>2. CASE bs' = [bs EXCEPT !.mut = bs.mut - 1] /\ bs.mut > 0
      BY <1>2, <3>2, UsizeMaxAssumption DEF BorrowStates
    <3>3. CASE bs' = [bs EXCEPT !.poisoned = TRUE]
      BY <1>2, <3>3 DEF BorrowStates
    <3>4. QED
      BY <1>2, <3>1, <3>2, <3>3
  <2>5. pc' \in [Threads -> PcValues]
    BY <1>2, <2>3, NotifyTypes
  <2>6. QED
    BY <1>2, <2>1, <2>2, <2>3, <2>4, <2>5 DEF TypeOK, HeldType
<1>12. ASSUME DropNewest(t) \/ DropLower(t), held' = [held EXCEPT ![t].inacc = held[t].inacc - 1]
       PROVE  /\ bs' \in BorrowStates /\ held' \in HeldType
              /\ lockPoisoned' \in BOOLEAN /\ newestLost' \in BOOLEAN
  <2>1. held[t].inacc - 1 \in Nat
    BY <1>2, <1>12, GuardToDrop
  <2>2. held' \in HeldType
    BY <1>2, <1>12, <2>1, HeldInacc
  <2>3. /\ lockPoisoned' \in BOOLEAN /\ newestLost' \in BOOLEAN
        /\ \/ bs' = bs \/ bs' = Poison(bs)
           \/ MayUnsetInaccessible(bs) /\ bs' = UnsetInaccessible(bs)
    BY <1>2, <1>12 DEF DropNewest, DropLower
  <2>4. bs' \in BorrowStates
    <3>1. CASE bs' = Poison(bs)
      BY <1>2, <3>1 DEF BorrowStates, Poison
    <3>2. CASE MayUnsetInaccessible(bs) /\ bs' = UnsetInaccessible(bs)
      BY <1>2, <3>2, UsizeMaxAssumption
      DEF BorrowStates, UnsetInaccessible, MayUnsetInaccessible, HasAccessible
    <3>3. QED
      BY <1>2, <2>3, <3>1, <3>2
  <2>5. QED
    BY <2>2, <2>3, <2>4
<1>13. CASE DropInaccessible(t) \/ DropInaccessibleMisordered(t)
  <2>1. /\ DropNewest(t) \/ DropLower(t)
        /\ held' = [held EXCEPT ![t].inacc = held[t].inacc - 1]
        /\ UNCHANGED <<mutThread, sharedCounts, calls>>
        /\ Goto(t, "run") \/ UNCHANGED pc
    BY <1>13 DEF DropInaccessible, DropInaccessibleMisordered
  <2>2. pc' \in [Threads -> PcValues]
    BY <1>2, <1>3, <2>1 DEF PcValues
  <2>3. QED
    BY <1>2, <1>12, <2>1, <2>2 DEF TypeOK, HeldType
<1>14. QED
  BY <1>1, <1>5, <1>6, <1>7, <1>8, <1>9, <1>10, <1>11, <1>13 DEF Drop
------------------------------------------------------------------------------
(* A thread between the halves of try_drop got there by TryDrop.              *)
LEMMA AtTryDropBefore ==
  ASSUME TypeOK, Next, NEW u \in Threads, AtTryDrop(u)'
  PROVE  (AtTryDrop(u) /\ pc'[u] = pc[u]) \/ TryDrop(u)
<1>1. PICK t \in Threads :
         \/ Borrow(t) \/ BorrowMut(t) \/ MakeInaccessible(t)
         \/ Recheck(t) \/ SpuriousWake(t)
         \/ Drop(t) \/ TryDrop(t) \/ DropInaccessibleMisordered(t)
  BY DEF Next
<1>2. pc \in [Threads -> PcValues]
  BY DEF TypeOK
<1> SUFFICES pc'[u] = pc[u] \/ TryDrop(u)
  BY DEF AtTryDrop
<1>3. ASSUME NEW where, where \notin {"tryDrop", "tryDropLower"}, Goto(t, where)
      PROVE  pc'[u] = pc[u]
  BY <1>2, <1>3 DEF Goto, AtTryDrop
<1>4. CASE Borrow(t) \/ BorrowMut(t) \/ MakeInaccessible(t)
  BY <1>3, <1>4 DEF Borrow, BorrowMut, MakeInaccessible
<1>5. CASE Recheck(t) \/ SpuriousWake(t)
  BY <1>3, <1>5 DEF Recheck, RecheckImmut, RecheckMut, SpuriousWake
<1>6. CASE DropRef(t) \/ DropMut(t)
  <2>1. NotifyOneMut \/ NotifyBoth \/ UNCHANGED pc
    BY <1>6 DEF DropRef, DropMut
  <2>2. QED
    BY <2>1, NotifyTypes DEF AtTryDrop
<1>7. CASE DropInaccessible(t) \/ DropInaccessibleMisordered(t)
  BY <1>3, <1>7 DEF DropInaccessible, DropInaccessibleMisordered
<1>8. CASE TryDrop(t)
  BY <1>2, <1>8 DEF TryDrop, Goto
<1>9. QED
  BY <1>1, <1>4, <1>5, <1>6, <1>7, <1>8 DEF Drop

(* A step that touches the inaccessible guards of a thread is its own.        *)
LEMMA OthersInaccSame ==
  ASSUME TypeOK, Next, NEW u \in Threads, pc'[u] = pc[u], AtTryDrop(u)
  PROVE  held'[u].inacc = held[u].inacc
<1>1. PICK t \in Threads :
         \/ Borrow(t) \/ BorrowMut(t) \/ MakeInaccessible(t)
         \/ Recheck(t) \/ SpuriousWake(t)
         \/ Drop(t) \/ TryDrop(t) \/ DropInaccessibleMisordered(t)
  BY DEF Next
<1>2. held \in HeldType /\ pc \in [Threads -> PcValues]
  BY DEF TypeOK, HeldType
<1>3. t = u => FALSE
  <2> HAVE t = u
  <2>1. DropInaccessible(u)
    BY <1>1 DEF AtTryDrop, Borrow, BorrowMut, MakeInaccessible, Call, Recheck, RecheckImmut,
         RecheckMut, SpuriousWake, TryDrop, DropInaccessibleMisordered, Drop, DropRef, DropMut
  <2>2. pc'[u] = "run"
    BY <1>2, <2>1 DEF DropInaccessible, Goto
  <2>3. QED
    BY <2>2 DEF AtTryDrop
<1>4. \/ UNCHANGED held
      \/ \E r \in [refs : Nat, muts : Nat, inacc : Nat] : held' = [held EXCEPT ![t] = r]
      \/ \A x \in Threads \ {t} : held'[x] = held[x]
  BY <1>1, <1>2 DEF Borrow, BorrowMut, MakeInaccessible, Recheck, RecheckImmut, RecheckMut,
       SpuriousWake, TryDrop, DropInaccessibleMisordered, Drop, DropRef, DropMut,
       DropInaccessible, TakeRef, TakeMut, Unmoved, HeldType
<1>5. QED
  BY <1>2, <1>3, <1>4 DEF HeldType

LEMMA NextTryDropHasGuard ==
  ASSUME TypeOK, TryDropHasGuard, Next
  PROVE  TryDropHasGuard'
<1> SUFFICES ASSUME NEW u \in Threads, AtTryDrop(u)' PROVE held'[u].inacc > 0
  BY DEF TryDropHasGuard
<1>1. CASE TryDrop(u)
  <2>1. held[u].inacc \in Nat
    BY DEF TypeOK
  <2>2. held[u].inacc > 0 /\ UNCHANGED held
    <3>1. NewestAlive(u) \/ LowerAlive(u)
      BY <1>1 DEF TryDrop
    <3>2. held[u].inacc > 0
      BY <2>1, <3>1 DEF NewestAlive, LowerAlive
    <3>3. QED
      BY <1>1, <3>2 DEF TryDrop
  <2>3. QED
    BY <2>2
<1>2. CASE AtTryDrop(u) /\ pc'[u] = pc[u]
  BY <1>2, OthersInaccSame DEF TryDropHasGuard
<1>3. QED
  BY <1>1, <1>2, AtTryDropBefore
------------------------------------------------------------------------------
(* The inductive invariant.                                                   *)
LEMMA InitIInv == Init => IInv
<1> SUFFICES ASSUME Init PROVE IInv
  OBVIOUS
<1> USE DEF Init, Unborrowed, Nothing
<1>1. TypeOK
  <2>1. bs \in BorrowStates
    BY UsizeMaxAssumption DEF BorrowStates
  <2>2. calls \in [Threads -> 0 .. MaxCalls]
    BY BlockingAssumption
  <2>3. QED
    BY <2>1, <2>2, BlockingAssumption DEF TypeOK, PcValues
<1>2. Owned
  BY BlockingAssumption DEF Owned, HasAccessible
<1>3. RefsCounted
  <2>1. RefSlots = {}
    BY DEF RefSlots
  <2>2. QED
    BY <2>1, FS_EmptySet DEF RefsCounted
<1>4. Alone
  BY DEF Alone
<1>5. TryDropHasGuard
  BY DEF TryDropHasGuard, AtTryDrop
<1>6. QED
  BY <1>1, <1>2, <1>3, <1>4, <1>5 DEF IInv

LEMMA NextIInv == IInv /\ [Next]_vars => IInv'
<1> SUFFICES ASSUME IInv, [Next]_vars PROVE IInv'
  OBVIOUS
<1>1. CASE Next
  <2>1. TypeOK'
    BY <1>1, NextTypeOK DEF IInv
  <2>1a. TryDropHasGuard'
    BY <1>1, NextTryDropHasGuard DEF IInv
  <2>2. CASE lockPoisoned'
    BY <1>1, <2>1, <2>1a, <2>2, NextAlone DEF IInv
  <2>3. CASE ~lockPoisoned'
    <3>1. ~lockPoisoned
      BY <1>1, <2>3 DEF Next, Borrow, BorrowMut, MakeInaccessible, Call, Recheck,
           RecheckImmut, RecheckMut, SpuriousWake, Drop, DropRef, DropMut,
           DropInaccessible, TryDrop, DropInaccessibleMisordered, DropNewest, DropLower
    <3>2. Owned' /\ RefsCounted'
      BY <1>1, <2>3, <3>1, NextOwned DEF IInv
    <3>3. Alone'
      BY <2>1, <3>2, OwnedIsAlone, PTL
    <3>4. QED
      BY <2>1, <2>1a, <3>2, <3>3 DEF IInv
  <2>4. QED
    BY <2>2, <2>3
<1>2. CASE UNCHANGED vars
  <2>1. TypeOK'
    BY <1>2 DEF vars, IInv, TypeOK
  <2>2. Alone'
    BY <1>2 DEF vars, IInv, Alone
  <2>3. ~lockPoisoned' => Owned' /\ RefsCounted'
    BY <1>2 DEF vars, IInv, Owned, RefsCounted, RefSlots
  <2>4. TryDropHasGuard'
    BY <1>2 DEF vars, IInv, TryDropHasGuard, AtTryDrop
  <2>5. QED
    BY <2>1, <2>2, <2>3, <2>4 DEF IInv
<1>3. QED
  BY <1>1, <1>2

LEMMA SpecIInv == Spec => []IInv
<1>1. Init => IInv
  BY InitIInv
<1>2. QED
  BY <1>1, NextIInv, PTL DEF Spec
------------------------------------------------------------------------------
(* For any threads: the counters stay in usize, and mut_thread names a thread. *)
THEOREM SpecTypeOK == Spec => []TypeOK
<1>1. IInv => TypeOK
  BY DEF IInv
<1>2. QED
  BY <1>1, SpecIInv, PTL

(* One thread mutates at a time, whatever its guards, the interleaving and    *)
(* the panics: what makes GdCellBlocking Sync.  Until a drop panics, the      *)
(* reference it can write through is the only usable one of its thread too.    *)
THEOREM SpecMutatorIsAlone == Spec => []MutatorIsAlone
<1>1. ASSUME IInv PROVE MutatorIsAlone
  <2>1. TypeOK /\ Alone /\ (~lockPoisoned => Owned)
    BY <1>1 DEF IInv
  <2>2. OneThreadMutates
    BY <2>1 DEF OneThreadMutates, Alone, Owned, TypeOK
  <2>3. AwakeMutIsExclusive
    <3> SUFFICES ASSUME NEW t \in Threads, held[t].muts > held[t].inacc, ~lockPoisoned
                 PROVE  held[t].refs = 0
      BY DEF AwakeMutIsExclusive, HasAwakeMut
    <3>1. /\ held \in HeldType /\ mutThread \in Threads
          /\ bs.mut \in Nat /\ bs.inacc \in Nat
      BY <2>1 DEF TypeOK, HeldType, BorrowStates
    <3>2. t = mutThread
      <4>1. held[t].muts # 0
        BY <3>1 DEF HeldType
      <4>2. QED
        BY <2>1, <4>1 DEF Owned
    <3>3. bs.shared = 0
      BY <2>1, <3>1, <3>2 DEF Owned, HasAccessible
    <3>4. RefsCounted
      BY <1>1 DEF IInv
    <3>5. QED
      BY <3>1, <3>3, <3>4, NoRefs
  <2>4. QED
    BY <2>2, <2>3 DEF MutatorIsAlone
<1>2. QED
  BY <1>1, SpecIInv, PTL

(* A thread that holds no guard either blocks or is served, save the last     *)
(* owner that calls borrow_mut while others read.                              *)
THEOREM SpecFreshBorrowsRarelyFail == Spec => []FreshBorrowsRarelyFail
<1>1. ASSUME IInv PROVE FreshBorrowsRarelyFail
  <2> SUFFICES ASSUME NEW t \in Threads, ~lockPoisoned, held[t] = Nothing
               PROVE  /\ BorrowBlocks(t) \/ EnsureCanRef(bs)
                      /\ BorrowMutBlocks(t) \/ EnsureCanMutRef(bs) \/ mutThread = t
    BY DEF FreshBorrowsRarelyFail
  <2>1. /\ Owned /\ bs.mut \in Nat /\ bs.inacc \in Nat /\ bs.shared \in Nat
        /\ held[t].muts = 0 /\ held[t].refs = 0
    BY <1>1, UsizeMaxAssumption DEF IInv, TypeOK, BorrowStates, Nothing
  <2>2. HasAccessible(bs) => bs.mut > 0 /\ mutThread # t
    BY <2>1 DEF Owned, HasAccessible
  <2>3. BorrowBlocks(t) \/ EnsureCanRef(bs)
    BY <2>1, <2>2
    DEF Owned, BorrowBlocks, IsCurrentlyMutablyBound, HasMutRef, EnsureCanRef
  <2>4. BorrowMutBlocks(t) \/ EnsureCanMutRef(bs) \/ mutThread = t
    BY <2>1, <2>2 DEF Owned, BorrowMutBlocks, IsCurrentlyBound, HasMutRef,
         EnsureCanMutRef, EnsureCanRef
  <2>5. QED
    BY <2>3, <2>4
<1>2. QED
  BY <1>1, SpecIInv, PTL

(* While a thread is between the halves of try_drop, every other thread has   *)
(* nothing to drop, and blocks if it borrows.                                  *)
LEMMA NextTryDropNotStale ==
  ASSUME IInv, Next, NEW u \in Threads, AtTryDrop(u), pc'[u] = pc[u], ~lockPoisoned
  PROVE  UNCHANGED bs
<1>1. PICK t \in Threads :
         \/ Borrow(t) \/ BorrowMut(t) \/ MakeInaccessible(t)
         \/ Recheck(t) \/ SpuriousWake(t)
         \/ Drop(t) \/ TryDrop(t) \/ DropInaccessibleMisordered(t)
  BY DEF Next
<1>2. /\ TypeOK /\ Owned /\ held[u].inacc > 0 /\ pc \in [Threads -> PcValues]
      /\ held \in HeldType /\ bs.mut \in Nat /\ bs.inacc \in Nat
  BY DEF IInv, TypeOK, BorrowStates, TryDropHasGuard, HeldType
<1>3. u = mutThread /\ bs.mut > 0
  <2>1. u = mutThread
    BY <1>2 DEF Owned
  <2>2. QED
    BY <1>2, <2>1 DEF Owned
<1>4. \A v \in Threads \ {u} : /\ held[v].refs = 0 /\ held[v].muts = 0
                               /\ held[v].inacc = 0 /\ sharedCounts[v] = 0
  BY <1>2, <1>3 DEF Owned
<1>5. CASE t = u
  <2>1. DropInaccessible(u)
    BY <1>1, <1>5 DEF AtTryDrop, Borrow, BorrowMut, MakeInaccessible, Call, Recheck,
         RecheckImmut, RecheckMut, SpuriousWake, TryDrop, DropInaccessibleMisordered, Drop,
         DropRef, DropMut
  <2>2. pc'[u] = "run"
    BY <1>2, <2>1 DEF DropInaccessible, Goto
  <2>3. QED
    BY <2>2 DEF AtTryDrop
<1>6. CASE t # u
  <2>1. BorrowBlocks(t) /\ BorrowMutBlocks(t) /\ IsCurrentlyBound /\ IsCurrentlyMutablyBound
    BY <1>3, <1>4, <1>6 DEF BorrowBlocks, BorrowMutBlocks, IsCurrentlyBound,
         IsCurrentlyMutablyBound, HasMutRef
  <2>2. held[t].refs = 0 /\ held[t].muts = 0 /\ held[t].inacc = 0
    BY <1>4, <1>6
  <2>3. ~DropNewest(t) /\ ~DropLower(t)
    BY <2>2, GuardToDrop
  <2>4. ~MakeInaccessible(t) /\ ~Drop(t) /\ ~DropInaccessibleMisordered(t)
    BY <2>2, <2>3 DEF MakeInaccessible, HasAwakeMut, Drop, DropRef, DropMut,
         DropInaccessible, DropInaccessibleMisordered
  <2>5. Borrow(t) \/ BorrowMut(t) \/ Recheck(t) => Unmoved
    BY <2>1 DEF Borrow, BorrowMut, Recheck, RecheckImmut, RecheckMut
  <2>6. SpuriousWake(t) \/ TryDrop(t) => Unmoved
    BY DEF SpuriousWake, TryDrop, Unmoved
  <2>7. QED
    BY <1>1, <2>4, <2>5, <2>6 DEF Unmoved
<1>7. QED
  BY <1>5, <1>6

(* For any threads: between the check of try_drop and its drop, the counters  *)
(* the check was made on belong to the thread that made it.                   *)
THEOREM SpecTryDropNotStale == Spec => TryDropNotStale
<1>1. IInv /\ [Next]_vars =>
        [\A t \in Threads :
           AtTryDrop(t) /\ pc'[t] = pc[t] /\ ~lockPoisoned => bs' = bs]_vars
  BY NextTryDropNotStale
<1>2. QED
  BY <1>1, SpecIInv, PTL DEF Spec, TryDropNotStale
------------------------------------------------------------------------------
(* The refinement: who writes and who reads, as the lock sees it.             *)
Writers == {t \in Threads : ~lockPoisoned /\ held[t].muts > 0}
Readers == {t \in Threads : ~lockPoisoned /\ held[t].refs > 0}

(* A thread that takes or drops a guard is a step of the lock or none.        *)
LEMMA TakeRefLock ==
  ASSUME IInv, ~lockPoisoned, UNCHANGED lockPoisoned, NEW t \in Threads, TakeRef(t),
         IsCurrentlyMutablyBound => HasMutRef(t)
  PROVE  \/ UNCHANGED held
         \/ Writers \subseteq {t} /\ Readers' = Readers \cup {t} /\ Writers' = Writers
<1>0. TypeOK /\ Owned /\ held \in HeldType /\ held[t].refs \in Nat
  BY DEF IInv, TypeOK, HeldType
<1>1. CASE ~IncrementSharedOk(bs)
  BY <1>1 DEF TakeRef
<1>2. CASE IncrementSharedOk(bs)
  <2>1. held' = [held EXCEPT ![t].refs = held[t].refs + 1] /\ held[t].refs + 1 \in Nat
    BY <1>0, <1>2 DEF TakeRef
  <2>2. /\ held'[t].refs = held[t].refs + 1
        /\ \A u \in Threads : held'[u].muts = held[u].muts
        /\ \A u \in Threads \ {t} : held'[u] = held[u]
    BY <1>0, <2>1, HeldRefs
  <2>2a. held'[t].refs > 0
    BY <1>0, <2>2
  <2>3. Readers' = Readers \cup {t} /\ Writers' = Writers
    BY <2>2, <2>2a DEF Readers, Writers
  <2>4. Writers \subseteq {t}
    <3> SUFFICES ASSUME NEW x \in Threads, held[x].muts > 0 PROVE x = t
      BY DEF Writers
    <3>1. x = mutThread /\ bs.mut > 0
      BY <1>0 DEF Owned
    <3>2. QED
      BY <3>1 DEF IsCurrentlyMutablyBound, HasMutRef
  <2>5. QED
    BY <2>3, <2>4
<1>3. QED
  BY <1>1, <1>2

LEMMA TakeMutLock ==
  ASSUME IInv, ~lockPoisoned, UNCHANGED lockPoisoned, NEW t \in Threads, TakeMut(t),
         IsCurrentlyBound /\ sharedCounts[t] = 0 => HasMutRef(t)
  PROVE  \/ Writers' = Writers /\ Readers' = Readers
         \/ Writers = {} /\ Readers = {} /\ Writers' = {t} /\ Readers' = Readers
<1>0. /\ TypeOK /\ Owned /\ RefsCounted /\ held \in HeldType /\ held[t].muts \in Nat
      /\ bs \in BorrowStates
  BY DEF IInv, TypeOK, HeldType
<1>1. CASE ~IncrementMutOk(bs)
  BY <1>1 DEF TakeMut, Writers, Readers
<1>2. CASE IncrementMutOk(bs)
  <2>1. held' = [held EXCEPT ![t].muts = held[t].muts + 1] /\ held[t].muts + 1 \in Nat
    BY <1>0, <1>2 DEF TakeMut
  <2>2. /\ held'[t].muts = held[t].muts + 1
        /\ \A u \in Threads : held'[u].refs = held[u].refs
        /\ \A u \in Threads \ {t} : held'[u] = held[u]
    BY <1>0, <2>1, HeldMuts
  <2>2a. held'[t].muts > 0
    BY <1>0, <2>2
  <2>3. Writers' = Writers \cup {t} /\ Readers' = Readers
    BY <2>2, <2>2a DEF Readers, Writers
  <2>4. \A u \in Threads : held[u].refs = 0
    BY <1>0, <1>2, UsizeMaxAssumption, NoRefs
    DEF BorrowStates, IncrementMut, IncrementMutOk, EnsureCanMutRef, EnsureCanRef,
        HasAccessible
  <2>5. Readers = {}
    BY <2>4 DEF Readers
  <2>6. Writers \subseteq {t}
    <3> SUFFICES ASSUME NEW x \in Threads, held[x].muts > 0 PROVE x = t
      BY DEF Writers
    <3>1. x = mutThread /\ bs.mut > 0
      BY <1>0 DEF Owned
    <3>2. sharedCounts[t] = 0
      BY <1>0, <2>4 DEF Owned
    <3>3. QED
      BY <3>1, <3>2 DEF IsCurrentlyBound, HasMutRef
  <2>7. QED
    BY <2>3, <2>5, <2>6
<1>3. QED
  BY <1>1, <1>2

LEMMA DropLock ==
  ASSUME IInv, ~lockPoisoned, UNCHANGED lockPoisoned, NEW t \in Threads, Drop(t)
  PROVE  \/ Writers' = Writers /\ Readers' = Readers
         \/ Readers' = Readers \ {t} /\ Writers' = Writers
         \/ Writers = {t} /\ Readers = {} /\ Writers' = {} /\ Readers' = Readers
<1>0. /\ TypeOK /\ Owned /\ RefsCounted /\ held \in HeldType
      /\ held[t] \in [refs : Nat, muts : Nat, inacc : Nat]
  BY DEF IInv, TypeOK, HeldType
<1>1. CASE DropRef(t)
  <2>1. held' = [held EXCEPT ![t].refs = held[t].refs - 1] /\ held[t].refs - 1 \in Nat
    BY <1>0, <1>1 DEF DropRef
  <2>2. /\ held'[t].refs = held[t].refs - 1 /\ held[t].refs > 0
        /\ \A u \in Threads : held'[u].muts = held[u].muts
        /\ \A u \in Threads \ {t} : held'[u] = held[u]
    BY <1>0, <1>1, <2>1, HeldRefs DEF DropRef
  <2>3. Writers' = Writers
    BY <2>2 DEF Writers
  <2>4. Readers' = Readers \/ Readers' = Readers \ {t}
    BY <2>2 DEF Readers
  <2>5. QED
    BY <2>3, <2>4
<1>2. CASE DropMut(t)
  <2>1. /\ held' = [held EXCEPT ![t].muts = held[t].muts - 1]
        /\ held[t].muts > 0 /\ held[t].muts - 1 \in Nat
    BY <1>0, <1>2 DEF DropMut, HasAwakeMut
  <2>2. /\ held'[t].muts = held[t].muts - 1 /\ held[t].muts > 0
        /\ \A u \in Threads : held'[u].refs = held[u].refs
        /\ \A u \in Threads \ {t} : held'[u] = held[u]
    BY <1>0, <2>1, HeldMuts
  <2>3. Readers' = Readers
    BY <2>2 DEF Readers
  <2>4. Readers = {}
    <3>1. DecrementMutOk(bs)
      BY <1>2 DEF DropMut, DecrementMutOk
    <3>2. bs.shared = 0
      BY <1>0, <3>1 DEF Owned, HasAccessible, DecrementMutOk
    <3>3. QED
      BY <1>0, <3>2, NoRefs DEF Readers
  <2>5. Writers = {t}
    BY <1>0, <2>2 DEF Writers, Owned
  <2>6. Writers' = Writers \/ Writers' = {}
    BY <2>2, <2>5 DEF Writers
  <2>7. QED
    BY <2>3, <2>4, <2>5, <2>6
<1>3. CASE DropInaccessible(t)
  <2>1. held' = [held EXCEPT ![t].inacc = held[t].inacc - 1] /\ held[t].inacc - 1 \in Nat
    BY <1>0, <1>3, GuardToDrop DEF DropInaccessible
  <2>2. \A u \in Threads : held'[u].refs = held[u].refs /\ held'[u].muts = held[u].muts
    BY <1>0, <2>1, HeldInacc
  <2>3. QED
    BY <2>2 DEF Writers, Readers
<1>4. QED
  BY <1>1, <1>2, <1>3 DEF Drop

LEMMA NextLock == IInv /\ [Next]_vars => [Lock!Next]_(Lock!vars)
<1> SUFFICES ASSUME IInv, [Next]_vars
             PROVE  Lock!Next \/ UNCHANGED <<Writers, Readers, lockPoisoned>>
  BY DEF Lock!vars, Writers, Readers
<1>0. lockPoisoned \in BOOLEAN
  BY DEF IInv, TypeOK
<1>1. CASE UNCHANGED vars
  BY <1>1 DEF vars, Writers, Readers
<1>2. CASE Next /\ lockPoisoned'
  <2>1. lockPoisoned' = TRUE
    BY <1>2, NextTypeOK DEF IInv, TypeOK
  <2>2. Writers' = {} /\ Readers' = {}
    BY <2>1 DEF Writers, Readers
  <2>3. Lock!Break
    BY <2>1, <2>2 DEF Lock!Break, Writers, Readers
  <2>4. QED
    BY <2>3 DEF Lock!Next
<1>3. CASE Next /\ ~lockPoisoned'
  <2>1. PICK t \in Threads :
           \/ Borrow(t) \/ BorrowMut(t) \/ MakeInaccessible(t)
           \/ Recheck(t) \/ SpuriousWake(t)
           \/ Drop(t) \/ TryDrop(t) \/ DropInaccessibleMisordered(t)
    BY <1>3 DEF Next
  <2>2. ~lockPoisoned
    BY <1>3, <2>1 DEF Borrow, BorrowMut, MakeInaccessible, Call, Recheck,
         RecheckImmut, RecheckMut, SpuriousWake, Drop, DropRef, DropMut,
         DropInaccessible, TryDrop, DropInaccessibleMisordered, DropNewest, DropLower
  <2>3. UNCHANGED lockPoisoned
    BY <1>0, <1>3, <2>2, NextTypeOK DEF IInv, TypeOK
  <2>4. ASSUME UNCHANGED held PROVE UNCHANGED <<Writers, Readers, lockPoisoned>>
    BY <2>3, <2>4 DEF Writers, Readers
  <2>5. ASSUME TakeRef(t), IsCurrentlyMutablyBound => HasMutRef(t)
        PROVE  Lock!Next \/ UNCHANGED <<Writers, Readers, lockPoisoned>>
    <3>1. \/ UNCHANGED held
          \/ Writers \subseteq {t} /\ Readers' = Readers \cup {t} /\ Writers' = Writers
      BY <2>2, <2>3, <2>5, TakeRefLock
    <3>2. ASSUME Writers \subseteq {t}, Readers' = Readers \cup {t}, Writers' = Writers
          PROVE  Lock!StartReading(t)
      BY <2>3, <3>2 DEF Lock!StartReading, Writers, Readers
    <3>3. QED
      BY <2>2, <2>4, <3>1, <3>2 DEF Lock!Next
  <2>6. ASSUME TakeMut(t), IsCurrentlyBound /\ sharedCounts[t] = 0 => HasMutRef(t)
        PROVE  Lock!Next \/ UNCHANGED <<Writers, Readers, lockPoisoned>>
    <3>1. \/ Writers' = Writers /\ Readers' = Readers
          \/ Writers = {} /\ Readers = {} /\ Writers' = {t} /\ Readers' = Readers
      BY <2>2, <2>3, <2>6, TakeMutLock
    <3>2. ASSUME Writers = {}, Readers = {}, Writers' = {t}, Readers' = Readers
          PROVE  Lock!StartWriting(t)
      BY <2>3, <3>2 DEF Lock!StartWriting, Writers, Readers
    <3>3. QED
      BY <2>2, <2>3, <3>1, <3>2 DEF Lock!Next
  <2>7. CASE Borrow(t)
    BY <2>4, <2>5, <2>7 DEF Borrow, BorrowBlocks, Unmoved
  <2>8. CASE BorrowMut(t)
    BY <2>4, <2>6, <2>8 DEF BorrowMut, BorrowMutBlocks, Unmoved
  <2>9. CASE Recheck(t)
    BY <2>4, <2>5, <2>6, <2>9 DEF Recheck, RecheckImmut, RecheckMut, Unmoved
  <2>10. CASE SpuriousWake(t) \/ TryDrop(t)
    BY <2>4, <2>10 DEF SpuriousWake, TryDrop
  <2>11. CASE MakeInaccessible(t)
    <3>1. held' = [held EXCEPT ![t].inacc = held[t].inacc + 1]
      BY <2>11 DEF MakeInaccessible
    <3>2. held \in HeldType /\ held[t].inacc + 1 \in Nat
      BY DEF IInv, TypeOK, HeldType
    <3>3. \A u \in Threads : held'[u].refs = held[u].refs /\ held'[u].muts = held[u].muts
      BY <3>1, <3>2, HeldInacc
    <3>4. QED
      BY <2>3, <3>3 DEF Writers, Readers
  <2>12. CASE Drop(t)
    <3>1. \/ Writers' = Writers /\ Readers' = Readers
          \/ Readers' = Readers \ {t} /\ Writers' = Writers
          \/ Writers = {t} /\ Readers = {} /\ Writers' = {} /\ Readers' = Readers
      BY <2>2, <2>3, <2>12, DropLock
    <3>2. ASSUME Readers' = Readers \ {t}, Writers' = Writers
          PROVE  Lock!StopReading(t)
      BY <2>3, <3>2 DEF Lock!StopReading, Writers, Readers
    <3>3. ASSUME Writers = {t}, Readers = {}, Writers' = {}, Readers' = Readers
          PROVE  Lock!StopWriting(t)
      BY <2>3, <3>3 DEF Lock!StopWriting, Writers, Readers
    <3>4. QED
      BY <2>2, <2>3, <3>1, <3>2, <3>3 DEF Lock!Next
  <2>13. CASE DropInaccessibleMisordered(t)
    BY <1>3, <2>13 DEF DropInaccessibleMisordered, DropNewest, DropLower
  <2>14. QED
    BY <2>1, <2>7, <2>8, <2>9, <2>10, <2>11, <2>12, <2>13
<1>4. QED
  BY <1>1, <1>2, <1>3

(* Seen from outside, the cell is a reader-writer lock owned by threads: a    *)
(* step that no writer or reader could make never happens.                     *)
THEOREM SpecImplementsOwnedLock == Spec => ImplementsOwnedLock
<1>1. Init => Lock!Init
  BY DEF Init, Lock!Init, Nothing
<1>2. QED
  BY <1>1, NextLock, SpecIInv, PTL DEF Spec, ImplementsOwnedLock, Lock!Spec
==============================================================================
