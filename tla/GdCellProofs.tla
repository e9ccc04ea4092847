----------------------------- MODULE GdCellProofs -----------------------------
(* For every finite set of guards and every usize::MAX: the reborrowing cell  *)
(* never lets two usable references alias while no guard's drop has panicked, *)
(* its counts never forget a guard, panics or not, and it implements a stack  *)
(* of references.  First, its counters alone, whatever is called on them.      *)
EXTENDS GdCell, BorrowStateCalls, Sequences, FiniteSetTheorems, TLAPS

(* What each method of BorrowState does to the counters: the result is a      *)
(* borrow state and differs in one field, and a drop that is refused at most  *)
(* poisons.                                                                   *)
LEMMA IncrementSharedFacts ==
  ASSUME NEW s \in BorrowStates, IncrementSharedOk(s)
  PROVE  /\ IncrementShared(s) \in BorrowStates
         /\ IncrementShared(s).shared = s.shared + 1
         /\ IncrementShared(s).mut = s.mut
         /\ IncrementShared(s).inacc = s.inacc
         /\ IncrementShared(s).poisoned = s.poisoned
         /\ ~s.poisoned /\ s.mut # s.inacc + 1
  BY UsizeMaxAssumption
  DEF BorrowStates, IncrementSharedOk, IncrementShared, EnsureCanRef, HasAccessible

LEMMA IncrementMutFacts ==
  ASSUME NEW s \in BorrowStates, IncrementMutOk(s)
  PROVE  /\ IncrementMut(s) \in BorrowStates
         /\ IncrementMut(s).shared = s.shared
         /\ IncrementMut(s).mut = s.mut + 1
         /\ IncrementMut(s).inacc = s.inacc
         /\ IncrementMut(s).poisoned = s.poisoned
         /\ ~s.poisoned /\ s.mut # s.inacc + 1 /\ s.shared = 0
  BY UsizeMaxAssumption
  DEF BorrowStates, IncrementMutOk, IncrementMut, EnsureCanMutRef, EnsureCanRef,
      HasAccessible

LEMMA SetInaccessibleFacts ==
  ASSUME NEW s \in BorrowStates, SetInaccessibleOk(s)
  PROVE  /\ SetInaccessible(s) \in BorrowStates
         /\ SetInaccessible(s).shared = s.shared
         /\ SetInaccessible(s).mut = s.mut
         /\ SetInaccessible(s).inacc = s.inacc + 1
         /\ SetInaccessible(s).poisoned = s.poisoned
         /\ s.mut = s.inacc + 1
  BY UsizeMaxAssumption
  DEF BorrowStates, SetInaccessibleOk, SetInaccessible, HasAccessible

LEMMA UnsetInaccessibleFacts ==
  ASSUME NEW s \in BorrowStates, MayUnsetInaccessible(s)
  PROVE  /\ UnsetInaccessible(s) \in BorrowStates
         /\ UnsetInaccessible(s).shared = s.shared
         /\ UnsetInaccessible(s).mut = s.mut
         /\ UnsetInaccessible(s).inacc = s.inacc - 1
         /\ UnsetInaccessible(s).poisoned = s.poisoned
         /\ s.mut # s.inacc + 1 /\ s.shared = 0 /\ s.inacc > 0
  BY UsizeMaxAssumption
  DEF BorrowStates, MayUnsetInaccessible, UnsetInaccessible, HasAccessible

LEMMA PoisonFacts ==
  ASSUME NEW s \in BorrowStates
  PROVE  /\ Poison(s) \in BorrowStates
         /\ Poison(s).shared = s.shared
         /\ Poison(s).mut = s.mut
         /\ Poison(s).inacc = s.inacc
         /\ Poison(s).poisoned
  BY DEF BorrowStates, Poison

LEMMA DecrementSharedFacts ==
  ASSUME NEW s \in BorrowStates
  PROVE  /\ DecrementShared(s) \in BorrowStates
         /\ DecrementShared(s).mut = s.mut
         /\ DecrementShared(s).inacc = s.inacc
         /\ DecrementSharedOk(s) =>
              /\ DecrementShared(s).shared = s.shared - 1
              /\ DecrementShared(s).poisoned = s.poisoned
         /\ ~DecrementSharedOk(s) =>
              /\ DecrementShared(s).shared = s.shared
              /\ s.poisoned => DecrementShared(s).poisoned
         /\ ~s.poisoned /\ s.shared > 0 /\ s.mut # s.inacc + 1 => DecrementSharedOk(s)
<1>1. CASE DecrementSharedOk(s)
  BY <1>1, UsizeMaxAssumption
  DEF BorrowStates, DecrementShared, DecrementSharedOk, HasAccessible
<1>2. CASE ~DecrementSharedOk(s)
  BY <1>2, PoisonFacts, UsizeMaxAssumption
  DEF BorrowStates, DecrementShared, DecrementSharedOk, HasAccessible
<1>3. QED
  BY <1>1, <1>2

LEMMA DecrementMutFacts ==
  ASSUME NEW s \in BorrowStates
  PROVE  /\ DecrementMut(s) \in BorrowStates
         /\ DecrementMut(s).shared = s.shared
         /\ DecrementMut(s).inacc = s.inacc
         /\ DecrementMutOk(s) =>
              /\ DecrementMut(s).mut = s.mut - 1
              /\ DecrementMut(s).poisoned = s.poisoned
         /\ ~DecrementMutOk(s) =>
              /\ DecrementMut(s).mut = s.mut
              /\ s.poisoned => DecrementMut(s).poisoned
         /\ ~s.poisoned /\ s.mut = s.inacc + 1 => DecrementMutOk(s)
<1>1. CASE DecrementMutOk(s)
  BY <1>1, UsizeMaxAssumption
  DEF BorrowStates, DecrementMut, DecrementMutOk
<1>2. CASE ~DecrementMutOk(s)
  BY <1>2, PoisonFacts, UsizeMaxAssumption
  DEF BorrowStates, DecrementMut, DecrementMutOk
<1>3. QED
  BY <1>1, <1>2
-----------------------------------------------------------------------------
(* The three invariants of BorrowStateCalls are inductive together, and not   *)
(* one by one: that the poisoning branch of decrement_shared is dead needs    *)
(* Exclusive, and Exclusive needs the counters to be numbers.                  *)
CallsInv == CountersOK /\ Exclusive /\ NeverPoisonsItself

LEMMA InitCallsInv == CallsInit => CallsInv
<1> SUFFICES ASSUME CallsInit PROVE CallsInv
  OBVIOUS
<1> USE DEF BorrowStates, Unborrowed, HasAccessible, AccessibleCountPanics
<1>1. counters \in BorrowStates
  BY UsizeMaxAssumption DEF CallsInit
<1>2. external \in BOOLEAN
  BY DEF CallsInit
<1>3. Exclusive /\ NeverPoisonsItself
  BY DEF CallsInit, Exclusive, NeverPoisonsItself
<1>4. QED
  BY <1>1, <1>2, <1>3 DEF CallsInv, CountersOK

(* No call of any method of BorrowState, successful or not, leaves the        *)
(* inductive invariant.                                                        *)
LEMMA NextCallsInv == CallsInv /\ [CallsNext]_callsVars => CallsInv'
<1> SUFFICES ASSUME CallsInv, [CallsNext]_callsVars PROVE CallsInv'
  OBVIOUS
<1> USE DEF CallsInv, CountersOK, Exclusive, NeverPoisonsItself
<1>1. CASE CallIncrementShared
  <2>1. QED
    BY <1>1, IncrementSharedFacts
    DEF CallIncrementShared, BorrowStates, HasAccessible, AccessibleCountPanics
<1>2. CASE CallDecrementShared
  BY <1>2, UsizeMaxAssumption
  DEF CallDecrementShared, DecrementShared, DecrementSharedOk, Poison,
      BorrowStates, HasAccessible, AccessibleCountPanics
<1>3. CASE CallIncrementMut
  BY <1>3, IncrementMutFacts
  DEF CallIncrementMut, BorrowStates, HasAccessible, AccessibleCountPanics
<1>4. CASE CallDecrementMut
  BY <1>4, UsizeMaxAssumption
  DEF CallDecrementMut, DecrementMut, DecrementMutOk, Poison,
      BorrowStates, HasAccessible, AccessibleCountPanics
<1>5. CASE CallSetInaccessible
  BY <1>5, SetInaccessibleFacts
  DEF CallSetInaccessible, BorrowStates, HasAccessible, AccessibleCountPanics
<1>6. CASE CallUnsetInaccessible
  BY <1>6, UnsetInaccessibleFacts
  DEF CallUnsetInaccessible, BorrowStates, HasAccessible, AccessibleCountPanics
<1>7. CASE CallPoison
  BY <1>7, PoisonFacts DEF CallPoison, BorrowStates, HasAccessible, AccessibleCountPanics
<1>8. CASE UNCHANGED callsVars
  BY <1>8 DEF callsVars, HasAccessible, AccessibleCountPanics
<1>9. QED
  BY <1>1, <1>2, <1>3, <1>4, <1>5, <1>6, <1>7, <1>8 DEF CallsNext

LEMMA SpecCallsInv == CallsSpec => []CallsInv
BY InitCallsInv, NextCallsInv, PTL DEF CallsSpec

(* Whatever is called on a BorrowState, its counters stay in 0 .. usize::MAX: *)
(* no increment wraps and no decrement goes below zero.                        *)
THEOREM SpecCountersOK == CallsSpec => []CountersOK
<1>1. CallsInv => CountersOK
  BY DEF CallsInv
<1>2. QED
  BY SpecCallsInv, <1>1, PTL

(* Whatever is called on a BorrowState, it tracks at most one accessible      *)
(* mutable reference, and no shared one next to it.                            *)
THEOREM SpecExclusive == CallsSpec => []Exclusive
<1>1. CallsInv => Exclusive
  BY DEF CallsInv
<1>2. QED
  BY SpecCallsInv, <1>1, PTL

(* The branches of decrement_shared and decrement_mut that poison the state   *)
(* are dead code.                                                              *)
THEOREM SpecNeverPoisonsItself == CallsSpec => []NeverPoisonsItself
<1>1. CallsInv => NeverPoisonsItself
  BY DEF CallsInv
<1>2. QED
  BY SpecCallsInv, <1>1, PTL
------------------------------------------------------------------------------

(* The counters count at least the guards alive.  A drop that panics leaves   *)
(* its guard's count behind, so they may count more.                           *)
Covered ==
  /\ Cardinality(OfKind("ref")) <= bs.shared
  /\ Cardinality(OfKind("mut")) <= bs.mut
  /\ \A i \in OfKind("inaccessible") : guard[i].count >= 1

(* Before a panic, the mutable guards are numbered 1 .. bs.mut, and the k-th   *)
(* inaccessible guard holds the reference of the k-th mutable guard: the      *)
(* stack that the cell does not store but that its counters encode.            *)
Stacked ==
  LET muts == OfKind("mut")
      inaccs == OfKind("inaccessible")
  IN  /\ ~bs.poisoned /\ depth = bs.inacc
      /\ bs.mut = bs.inacc \/ (bs.mut = bs.inacc + 1 /\ bs.shared = 0)
      /\ \A m \in muts : guard[m].count \in 1 .. bs.mut
      /\ \A m, n \in muts : guard[m].count = guard[n].count => m = n
      /\ \A i \in inaccs : /\ guard[i].count \in 1 .. depth
                           /\ guard[i].origin \in muts
                           /\ guard[guard[i].origin].count = guard[i].count
      /\ \A i, j \in inaccs : guard[i].count = guard[j].count => i = j
      /\ \A k \in 1 .. depth : \E i \in inaccs : guard[i].count = k

(* Each guard of the stack points to where the one below it was put to sleep. *)
Chained ==
  LET inaccs == OfKind("inaccessible")
  IN  /\ depth = 0 => ptr = Root
      /\ \A i \in inaccs : guard[i].count = depth => guard[i].origin = ptr
      /\ \A r \in OfKind("ref") : guard[r].value = ptr
      /\ \A g \in OfKind("mut") \cup inaccs :
           /\ guard[g].count = 1 => guard[g].value = Root
           /\ \A i \in inaccs :
                guard[g].count = guard[i].count + 1 => guard[g].value = guard[i].origin

IInv == /\ TypeOK /\ Covered
        /\ ~panicked => Stacked /\ Chained

------------------------------------------------------------------------------
LEMMA InitIInv == Init => IInv
<1> SUFFICES ASSUME Init PROVE IInv
  OBVIOUS
<1> USE DEF Init, OfKind, NoGuard, Unborrowed
<1>1. TypeOK
  <2>1. bs \in BorrowStates
    BY UsizeMaxAssumption DEF BorrowStates
  <2>2. guard \in [Guards -> GuardRecord]
    BY DEF GuardRecord, Prov
  <2>3. ptr \in Prov /\ depth \in Nat
    BY DEF Prov
  <2>4. panicked \in BOOLEAN
    OBVIOUS
  <2>5. QED
    BY <2>1, <2>2, <2>3, <2>4 DEF TypeOK
<1>2. OfKind("ref") = {} /\ OfKind("mut") = {} /\ OfKind("inaccessible") = {}
  OBVIOUS
<1>3. Covered
  BY <1>2, FS_EmptySet DEF Covered
<1>4. Stacked /\ Chained
  BY <1>2 DEF Stacked, Chained
<1>5. QED
  BY <1>1, <1>3, <1>4 DEF IInv

(* The types, with depth - 1 a number also after panics.                      *)
LEMMA NextTypeOK == TypeOK /\ Covered /\ [Next]_vars => TypeOK'
<1> SUFFICES ASSUME TypeOK, Covered, [Next]_vars PROVE TypeOK'
  OBVIOUS
<1> USE DEF TypeOK
<1>0. NoGuard \in GuardRecord
  BY DEF NoGuard, GuardRecord, Prov
<1>1. ASSUME NEW g \in Guards, Borrow(g) PROVE TypeOK'
  <2>1. bs' \in BorrowStates
    BY <1>1, IncrementSharedFacts DEF Borrow
  <2>2. [NoGuard EXCEPT !.kind = "ref", !.value = ptr] \in GuardRecord
    BY DEF NoGuard, GuardRecord, Prov
  <2>3. QED
    BY <1>1, <2>1, <2>2 DEF Borrow
<1>2. ASSUME NEW g \in Guards, BorrowMut(g) PROVE TypeOK'
  <2>1. bs' \in BorrowStates /\ bs'.mut \in Nat
    BY <1>2, IncrementMutFacts DEF BorrowMut, BorrowStates
  <2>2. [NoGuard EXCEPT !.kind = "mut", !.value = ptr, !.count = bs'.mut] \in GuardRecord
    BY <2>1 DEF NoGuard, GuardRecord, Prov
  <2>3. QED
    BY <1>2, <2>1, <2>2 DEF BorrowMut
<1>3. ASSUME NEW i \in Guards, NEW m \in Guards, MakeInaccessible(i, m) PROVE TypeOK'
  <2>1. bs' \in BorrowStates
    BY <1>3, SetInaccessibleFacts DEF MakeInaccessible
  <2>2. depth' \in Nat /\ ptr' \in Prov
    BY <1>3 DEF MakeInaccessible, Prov
  <2>3. [kind |-> "inaccessible", value |-> ptr, count |-> depth', origin |-> m]
          \in GuardRecord
    BY <2>2 DEF GuardRecord, Prov
  <2>4. QED
    BY <1>3, <2>1, <2>2, <2>3 DEF MakeInaccessible
<1>4. ASSUME NEW g \in Guards, DropRef(g) PROVE TypeOK'
  <2>1. bs' \in BorrowStates
    BY <1>4, DecrementSharedFacts DEF DropRef
  <2>2. panicked' \in BOOLEAN
    BY <1>4 DEF DropRef
  <2>3. QED
    BY <1>0, <1>4, <2>1, <2>2 DEF DropRef
<1>5. ASSUME NEW g \in Guards, DropMut(g) PROVE TypeOK'
  <2>1. bs' \in BorrowStates
    BY <1>5, DecrementMutFacts DEF DropMut
  <2>2. panicked' \in BOOLEAN
    BY <1>5 DEF DropMut
  <2>3. QED
    BY <1>0, <1>5, <2>1, <2>2 DEF DropMut
<1>6. ASSUME NEW i \in Guards, DropInaccessible(i) PROVE TypeOK'
  <2>1. guard[i].count >= 1 /\ guard[i].value \in Prov
    BY <1>6 DEF Covered, OfKind, DropInaccessible, GuardRecord
  <2>2. bs' \in BorrowStates
    BY <1>6, UnsetInaccessibleFacts, PoisonFacts
    DEF DropInaccessible, PerformDrop, PerformDropOk
  <2>3. ptr' \in Prov /\ depth' \in Nat
    BY <1>6, <2>1 DEF DropInaccessible, PerformDrop, PerformDropOk, InOrder
  <2>4. panicked' \in BOOLEAN
    BY <1>6 DEF DropInaccessible, PerformDrop
  <2>5. QED
    BY <1>0, <1>6, <2>2, <2>3, <2>4 DEF DropInaccessible
<1>7. CASE UNCHANGED vars
  BY <1>7 DEF vars
<1>8. QED
  BY <1>1, <1>2, <1>3, <1>4, <1>5, <1>6, <1>7 DEF Next, TryDrop

------------------------------------------------------------------------------
(* The sets of guards of each kind are finite, and a new guard and a dropped  *)
(* one change their cardinalities by at most one.                              *)
LEMMA GuardsCount ==
  ASSUME NEW k
  PROVE  /\ IsFiniteSet(OfKind(k)) /\ Cardinality(OfKind(k)) \in Nat
         /\ OfKind(k) \subseteq Guards
         /\ \A g \in Guards : g \notin OfKind(k) =>
              Cardinality(OfKind(k) \cup {g}) = Cardinality(OfKind(k)) + 1
         /\ \A g \in OfKind(k) :
              Cardinality(OfKind(k) \ {g}) = Cardinality(OfKind(k)) - 1
         /\ \A g \in OfKind(k) : Cardinality(OfKind(k)) >= 1
<1>1. OfKind(k) \subseteq Guards
  BY DEF OfKind
<1>2. IsFiniteSet(OfKind(k)) /\ Cardinality(OfKind(k)) \in Nat
  BY <1>1, GuardsAssumption, FS_Subset, FS_CardinalityType
<1>3. \A g \in Guards : g \notin OfKind(k) =>
        Cardinality(OfKind(k) \cup {g}) = Cardinality(OfKind(k)) + 1
  BY <1>2, FS_AddElement
<1>4. \A g \in OfKind(k) :
        /\ Cardinality(OfKind(k) \ {g}) = Cardinality(OfKind(k)) - 1
        /\ Cardinality(OfKind(k)) # 0
  BY <1>2, FS_RemoveElement, FS_EmptySet
<1>5. ASSUME NEW g \in OfKind(k) PROVE Cardinality(OfKind(k)) >= 1
  <2>1. Cardinality(OfKind(k)) # 0
    BY <1>4
  <2>2. QED
    BY <1>2, <2>1
<1>6. QED
  BY <1>1, <1>2, <1>3, <1>4, <1>5

LEMMA NextCovered == TypeOK /\ Covered /\ [Next]_vars => Covered'
<1> SUFFICES ASSUME TypeOK, Covered, [Next]_vars PROVE Covered'
  OBVIOUS
<1> DEFINE refs == OfKind("ref")
           muts == OfKind("mut")
           inaccs == OfKind("inaccessible")
<1>0. /\ Cardinality(refs) \in Nat /\ Cardinality(muts) \in Nat
      /\ bs.shared \in Nat /\ bs.mut \in Nat
      /\ \A h \in Guards : guard[h].count \in Nat
  BY GuardsCount DEF TypeOK, BorrowStates, GuardRecord
<1> USE DEF TypeOK, NoGuard
<1>1. ASSUME NEW g \in Guards, Borrow(g) PROVE Covered'
  <2>1. refs' = refs \cup {g} /\ g \notin refs /\ muts' = muts /\ inaccs' = inaccs
    BY <1>1 DEF Borrow, OfKind, GuardRecord
  <2>2. bs'.shared = bs.shared + 1 /\ bs'.mut = bs.mut
    BY <1>1, IncrementSharedFacts DEF Borrow
  <2>3. \A i \in inaccs : guard'[i] = guard[i]
    BY <1>1 DEF Borrow, OfKind
  <2>4. QED
    BY <1>0, <2>1, <2>2, <2>3, GuardsCount DEF Covered
<1>2. ASSUME NEW g \in Guards, BorrowMut(g) PROVE Covered'
  <2>1. muts' = muts \cup {g} /\ g \notin muts /\ refs' = refs /\ inaccs' = inaccs
    BY <1>2 DEF BorrowMut, OfKind, GuardRecord
  <2>2. bs'.shared = bs.shared /\ bs'.mut = bs.mut + 1
    BY <1>2, IncrementMutFacts DEF BorrowMut
  <2>3. \A i \in inaccs : guard'[i] = guard[i]
    BY <1>2 DEF BorrowMut, OfKind
  <2>4. QED
    BY <1>0, <2>1, <2>2, <2>3, GuardsCount DEF Covered
<1>3. ASSUME NEW i \in Guards, NEW m \in Guards, MakeInaccessible(i, m) PROVE Covered'
  <2>1. muts' = muts /\ refs' = refs /\ inaccs' = inaccs \cup {i}
    BY <1>3 DEF MakeInaccessible, OfKind, GuardRecord
  <2>2. bs'.shared = bs.shared /\ bs'.mut = bs.mut
    BY <1>3, SetInaccessibleFacts DEF MakeInaccessible
  <2>3. guard'[i].count = depth + 1 /\ \A j \in inaccs \ {i} : guard'[j] = guard[j]
    BY <1>3 DEF MakeInaccessible, OfKind
  <2>4. QED
    BY <1>0, <2>1, <2>2, <2>3, GuardsCount DEF Covered
<1>4. ASSUME NEW g \in Guards, DropRef(g) PROVE Covered'
  <2>1. refs' = refs \ {g} /\ g \in refs /\ muts' = muts /\ inaccs' = inaccs
    BY <1>4 DEF DropRef, OfKind, GuardRecord
  <2>2. bs'.mut = bs.mut /\ bs'.shared \in {bs.shared, bs.shared - 1}
    BY <1>4, DecrementSharedFacts DEF DropRef
  <2>3. \A i \in inaccs : guard'[i] = guard[i]
    BY <1>4 DEF DropRef, OfKind
  <2>4. QED
    BY <1>0, <2>1, <2>2, <2>3, GuardsCount DEF Covered
<1>5. ASSUME NEW g \in Guards, DropMut(g) PROVE Covered'
  <2>1. muts' = muts \ {g} /\ g \in muts /\ refs' = refs /\ inaccs' = inaccs
    BY <1>5 DEF DropMut, OfKind, GuardRecord
  <2>2. bs'.shared = bs.shared /\ bs'.mut \in {bs.mut, bs.mut - 1}
    BY <1>5, DecrementMutFacts DEF DropMut
  <2>3. \A i \in inaccs : guard'[i] = guard[i]
    BY <1>5 DEF DropMut, OfKind
  <2>4. QED
    BY <1>0, <2>1, <2>2, <2>3, GuardsCount DEF Covered
<1>6. ASSUME NEW i \in Guards, DropInaccessible(i) PROVE Covered'
  <2>1. muts' = muts /\ refs' = refs /\ inaccs' \subseteq inaccs
    BY <1>6 DEF DropInaccessible, OfKind, GuardRecord
  <2>2. bs'.shared = bs.shared /\ bs'.mut = bs.mut
    BY <1>6, UnsetInaccessibleFacts, PoisonFacts
    DEF DropInaccessible, PerformDrop, PerformDropOk
  <2>3. \A j \in inaccs' : guard'[j] = guard[j]
    BY <1>6 DEF DropInaccessible, OfKind
  <2>4. QED
    BY <1>0, <2>1, <2>2, <2>3 DEF Covered
<1>7. CASE UNCHANGED vars
  BY <1>7 DEF vars, Covered, OfKind
<1>8. QED
  BY <1>1, <1>2, <1>3, <1>4, <1>5, <1>6, <1>7 DEF Next, TryDrop

------------------------------------------------------------------------------
(* Before a panic, the top of the stack is one mutable guard that is not      *)
(* asleep, or shared guards, or nothing; every other mutable guard sleeps.    *)
LEMMA TopOfStack ==
  ASSUME TypeOK, Covered, Stacked
  PROVE  /\ bs.mut \in Nat /\ bs.inacc \in Nat /\ depth \in Nat
         /\ OfKind("ref") # {} => bs.shared > 0 /\ bs.mut = depth
         /\ \A m \in OfKind("mut") :
              ~Asleep(m) => guard[m].count = depth + 1 /\ bs.mut = depth + 1
         /\ \A m \in OfKind("mut") :
              guard[m].count = bs.mut /\ ~Asleep(m) => OfKind("ref") = {}
<1>1. bs.mut \in Nat /\ bs.inacc \in Nat /\ bs.shared \in Nat /\ depth \in Nat
  BY DEF TypeOK, BorrowStates
<1>2. OfKind("ref") # {} => bs.shared > 0 /\ bs.mut = depth
  BY <1>1, GuardsCount DEF Covered, Stacked
<1>3. ASSUME NEW m \in OfKind("mut"), ~Asleep(m)
      PROVE  guard[m].count = depth + 1 /\ bs.mut = depth + 1
  <2>1. guard[m].count \notin 1 .. depth
    <3>1. SUFFICES ASSUME guard[m].count \in 1 .. depth PROVE FALSE
      OBVIOUS
    <3>2. PICK i \in OfKind("inaccessible") : guard[i].count = guard[m].count
      BY <3>1 DEF Stacked
    <3>3. guard[i].origin = m
      BY <3>2, <1>3 DEF Stacked
    <3>4. QED
      BY <3>3, <1>3 DEF Asleep
  <2>2. QED
    BY <1>1, <1>3, <2>1 DEF Stacked
<1>4. QED
  BY <1>1, <1>2, <1>3

------------------------------------------------------------------------------
(* No action that does not panic takes the guards out of their stack.         *)
LEMMA NextStacked == IInv /\ [Next]_vars /\ ~panicked' => Stacked'
<1> SUFFICES ASSUME IInv, [Next]_vars, ~panicked' PROVE Stacked'
  OBVIOUS
<1> USE DEF IInv
<1>1. ASSUME NEW g \in Guards, Borrow(g) PROVE Stacked'
  <2>1. Stacked /\ depth' = depth /\ guard[g].kind = "none"
    BY <1>1 DEF Borrow
  <2>2. /\ ~bs'.poisoned /\ bs'.inacc = bs.inacc /\ bs'.mut = bs.mut
        /\ bs.mut # bs.inacc + 1
    BY <1>1, IncrementSharedFacts DEF Borrow, TypeOK
  <2>3. /\ OfKind("mut")' = OfKind("mut")
        /\ OfKind("inaccessible")' = OfKind("inaccessible")
        /\ \A h \in OfKind("mut") \cup OfKind("inaccessible") : guard'[h] = guard[h]
    BY <1>1 DEF Borrow, OfKind, TypeOK, NoGuard
  <2>4. QED
    BY <2>1, <2>2, <2>3 DEF Stacked
<1>2. ASSUME NEW g \in Guards, BorrowMut(g) PROVE Stacked'
  <2>1. Stacked /\ depth' = depth /\ guard[g].kind = "none"
    BY <1>2 DEF BorrowMut
  <2>2. /\ ~bs'.poisoned /\ bs'.inacc = bs.inacc /\ bs'.mut = bs.mut + 1
        /\ bs.mut = bs.inacc /\ bs'.shared = 0 /\ bs.mut \in Nat
    BY <1>2, <2>1, IncrementMutFacts DEF BorrowMut, TypeOK, BorrowStates, Stacked
  <2>3. /\ OfKind("mut")' = OfKind("mut") \cup {g}
        /\ OfKind("inaccessible")' = OfKind("inaccessible")
        /\ guard'[g].count = bs.mut + 1
        /\ g \notin OfKind("mut") /\ g \notin OfKind("inaccessible")
        /\ \A h \in OfKind("mut") \cup OfKind("inaccessible") : guard'[h] = guard[h]
    BY <1>2, <2>2 DEF BorrowMut, OfKind, TypeOK, NoGuard
  <2>4. QED
    BY <2>1, <2>2, <2>3 DEF Stacked
<1>3. ASSUME NEW i \in Guards, NEW m \in Guards, MakeInaccessible(i, m) PROVE Stacked'
  <2>1. Stacked /\ depth' = depth + 1 /\ guard[i].kind = "none" /\ depth \in Nat
    BY <1>3 DEF MakeInaccessible, TypeOK
  <2>2. /\ ~bs'.poisoned /\ bs'.inacc = bs.inacc + 1 /\ bs'.mut = bs.mut
        /\ bs.mut = depth + 1
    BY <1>3, <2>1, SetInaccessibleFacts DEF MakeInaccessible, TypeOK, Stacked
  <2>3. /\ OfKind("mut")' = OfKind("mut")
        /\ OfKind("inaccessible")' = OfKind("inaccessible") \cup {i}
        /\ i \notin OfKind("mut") /\ i \notin OfKind("inaccessible")
        /\ guard'[i].count = depth + 1 /\ guard'[i].origin = m
        /\ \A h \in OfKind("mut") \cup OfKind("inaccessible") : guard'[h] = guard[h]
    BY <1>3 DEF MakeInaccessible, OfKind, TypeOK
  <2>4. m \in OfKind("mut") /\ guard[m].count = depth + 1
    BY <1>3, <2>2 DEF MakeInaccessible, OfKind, DerefOk
  <2>5. QED
    BY <2>1, <2>2, <2>3, <2>4 DEF Stacked
<1>4. ASSUME NEW g \in Guards, DropRef(g) PROVE Stacked'
  <2>1. Stacked /\ depth' = depth /\ guard[g].kind = "ref" /\ DecrementSharedOk(bs)
    BY <1>4 DEF DropRef
  <2>2. ~bs'.poisoned /\ bs'.inacc = bs.inacc /\ bs'.mut = bs.mut /\ bs.mut = bs.inacc
    BY <1>4, <2>1, TopOfStack, DecrementSharedFacts
    DEF DropRef, TypeOK, OfKind, Stacked
  <2>3. /\ OfKind("mut")' = OfKind("mut")
        /\ OfKind("inaccessible")' = OfKind("inaccessible")
        /\ \A h \in OfKind("mut") \cup OfKind("inaccessible") : guard'[h] = guard[h]
    BY <1>4 DEF DropRef, OfKind, TypeOK, NoGuard
  <2>4. QED
    BY <2>1, <2>2, <2>3 DEF Stacked
<1>5. ASSUME NEW g \in Guards, DropMut(g) PROVE Stacked'
  <2>1. /\ Stacked /\ depth' = depth /\ guard[g].kind = "mut" /\ DecrementMutOk(bs)
        /\ depth \in Nat
    BY <1>5 DEF DropMut, TypeOK
  <2>2. ~bs'.poisoned /\ bs'.inacc = bs.inacc /\ bs'.mut = bs.mut - 1
    BY <1>5, <2>1, DecrementMutFacts DEF DropMut, TypeOK, Stacked
  <2>3. guard[g].count = depth + 1 /\ bs.mut = depth + 1
    BY <1>5, <2>1, TopOfStack DEF DropMut, OfKind
  <2>4. /\ OfKind("mut")' = OfKind("mut") \ {g}
        /\ OfKind("inaccessible")' = OfKind("inaccessible")
        /\ g \in OfKind("mut") /\ g \notin OfKind("inaccessible")
        /\ \A h \in Guards : h # g => guard'[h] = guard[h]
        /\ \A i \in OfKind("inaccessible") : guard[i].origin # g
    BY <1>5 DEF DropMut, OfKind, TypeOK, NoGuard, Asleep
  <2>5. OfKind("mut") \subseteq Guards /\ OfKind("inaccessible") \subseteq Guards
    BY DEF OfKind
  <2>6. \A m \in OfKind("mut") \ {g} : guard[m].count \in 1 .. depth
    BY <2>1, <2>3, <2>4 DEF Stacked
  <2>7. QED
    BY <2>1, <2>2, <2>3, <2>4, <2>5, <2>6 DEF Stacked
<1>6. ASSUME NEW i \in Guards, DropInaccessible(i) PROVE Stacked'
  <2>1. /\ Stacked /\ guard[i].kind = "inaccessible" /\ PerformDropOk(i)
        /\ bs' = UnsetInaccessible(bs) /\ depth' = depth - 1
        /\ guard[i].count = depth /\ depth \in Nat
    BY <1>6 DEF DropInaccessible, PerformDrop, PerformDropOk, InOrder, TypeOK
  <2>2. /\ ~bs'.poisoned /\ bs'.inacc = bs.inacc - 1 /\ bs'.mut = bs.mut
        /\ bs'.shared = 0 /\ bs.mut = depth
    BY <2>1, UnsetInaccessibleFacts DEF PerformDropOk, TypeOK, Stacked
  <2>3. /\ OfKind("mut")' = OfKind("mut")
        /\ OfKind("inaccessible")' = OfKind("inaccessible") \ {i}
        /\ i \in OfKind("inaccessible") /\ i \notin OfKind("mut")
        /\ \A h \in Guards : h # i => guard'[h] = guard[h]
    BY <1>6 DEF DropInaccessible, OfKind, TypeOK, NoGuard
  <2>4. OfKind("mut") \subseteq Guards /\ OfKind("inaccessible") \subseteq Guards
    BY DEF OfKind
  <2>5. \A j \in OfKind("inaccessible") \ {i} : guard[j].count \in 1 .. (depth - 1)
    BY <2>1, <2>3 DEF Stacked
  <2>6. QED
    BY <2>1, <2>2, <2>3, <2>4, <2>5 DEF Stacked
<1>7. CASE UNCHANGED vars
  BY <1>7 DEF vars, Stacked, OfKind
<1>8. QED
  BY <1>1, <1>2, <1>3, <1>4, <1>5, <1>6, <1>7 DEF Next, TryDrop

(* Nor does one change the pointers that link the guards of the stack.        *)
LEMMA NextChained == IInv /\ [Next]_vars /\ ~panicked' => Chained'
<1> SUFFICES ASSUME IInv, [Next]_vars, ~panicked' PROVE Chained'
  OBVIOUS
<1> USE DEF IInv
<1>1. ASSUME NEW g \in Guards, Borrow(g) PROVE Chained'
  <2>1. Chained /\ depth' = depth /\ ptr' = ptr /\ guard[g].kind = "none"
    BY <1>1 DEF Borrow
  <2>2. /\ OfKind("mut")' = OfKind("mut")
        /\ OfKind("inaccessible")' = OfKind("inaccessible")
        /\ OfKind("ref")' = OfKind("ref") \cup {g}
        /\ \A h \in OfKind("mut") \cup OfKind("inaccessible") : guard'[h] = guard[h]
    BY <1>1 DEF Borrow, OfKind, TypeOK, NoGuard
  <2>3. guard'[g].value = ptr /\ \A h \in OfKind("ref") : guard'[h] = guard[h]
    BY <1>1 DEF Borrow, OfKind, TypeOK, NoGuard
  <2>4. QED
    BY <2>1, <2>2, <2>3 DEF Chained
<1>2. ASSUME NEW g \in Guards, BorrowMut(g) PROVE Chained'
  <2>1. /\ Stacked /\ Chained /\ depth' = depth /\ ptr' = ptr
        /\ depth \in Nat /\ guard[g].kind = "none"
    BY <1>2 DEF BorrowMut, TypeOK
  <2>2. bs'.mut = bs.mut + 1 /\ bs.mut = depth
    BY <1>2, <2>1, IncrementMutFacts DEF BorrowMut, TypeOK, BorrowStates, Stacked
  <2>3. /\ OfKind("mut")' = OfKind("mut") \cup {g}
        /\ OfKind("inaccessible")' = OfKind("inaccessible")
        /\ OfKind("ref")' = OfKind("ref")
        /\ guard'[g].count = depth + 1 /\ guard'[g].value = ptr
        /\ \A h \in OfKind("mut") \cup OfKind("inaccessible") \cup OfKind("ref") :
             guard'[h] = guard[h]
    BY <1>2, <2>2 DEF BorrowMut, OfKind, TypeOK, NoGuard
  <2>4. \A i \in OfKind("inaccessible") : guard[i].count \in 1 .. depth
    BY <2>1 DEF Stacked
  <2>5. QED
    BY <2>1, <2>3, <2>4 DEF Chained
<1>3. ASSUME NEW i \in Guards, NEW m \in Guards, MakeInaccessible(i, m) PROVE Chained'
  <2>1. /\ Stacked /\ Chained /\ depth' = depth + 1 /\ ptr' = m /\ depth \in Nat
        /\ guard[i].kind = "none"
    BY <1>3 DEF MakeInaccessible, TypeOK
  <2>2. bs.mut = depth + 1
    BY <1>3, <2>1, SetInaccessibleFacts DEF MakeInaccessible, TypeOK, Stacked
  <2>3. /\ OfKind("mut")' = OfKind("mut")
        /\ OfKind("inaccessible")' = OfKind("inaccessible") \cup {i}
        /\ OfKind("ref")' = OfKind("ref") /\ OfKind("ref") = {}
    BY <1>3, <2>1, <2>2, TopOfStack DEF MakeInaccessible, OfKind, TypeOK
  <2>4. /\ guard'[i].count = depth + 1 /\ guard'[i].origin = m /\ guard'[i].value = ptr
        /\ \A h \in OfKind("mut") \cup OfKind("inaccessible") : guard'[h] = guard[h]
    BY <1>3 DEF MakeInaccessible, OfKind, TypeOK
  <2>5. /\ \A j \in OfKind("inaccessible") : guard[j].count \in 1 .. depth
        /\ \A n \in OfKind("mut") : guard[n].count \in 1 .. (depth + 1)
    BY <2>1, <2>2 DEF Stacked
  <2>6. QED
    BY <2>1, <2>3, <2>4, <2>5 DEF Chained
<1>4. ASSUME NEW g \in Guards, DropRef(g) PROVE Chained'
  <2>1. Chained /\ depth' = depth /\ ptr' = ptr
    BY <1>4 DEF DropRef
  <2>2. /\ OfKind("mut")' = OfKind("mut")
        /\ OfKind("inaccessible")' = OfKind("inaccessible")
        /\ OfKind("ref")' = OfKind("ref") \ {g}
        /\ \A h \in OfKind("mut") \cup OfKind("inaccessible") \cup OfKind("ref") :
             h # g => guard'[h] = guard[h]
        /\ g \notin OfKind("mut") \cup OfKind("inaccessible")
    BY <1>4 DEF DropRef, OfKind, TypeOK, NoGuard
  <2>3. QED
    BY <2>1, <2>2 DEF Chained
<1>5. ASSUME NEW g \in Guards, DropMut(g) PROVE Chained'
  <2>1. Chained /\ depth' = depth /\ ptr' = ptr
    BY <1>5 DEF DropMut
  <2>2. /\ OfKind("mut")' = OfKind("mut") \ {g}
        /\ OfKind("inaccessible")' = OfKind("inaccessible")
        /\ OfKind("ref")' = OfKind("ref")
        /\ \A h \in OfKind("mut") \cup OfKind("inaccessible") \cup OfKind("ref") :
             h # g => guard'[h] = guard[h]
        /\ g \notin OfKind("ref") \cup OfKind("inaccessible")
    BY <1>5 DEF DropMut, OfKind, TypeOK, NoGuard
  <2>3. QED
    BY <2>1, <2>2 DEF Chained
<1>6. ASSUME NEW i \in Guards, DropInaccessible(i) PROVE Chained'
  <2>1. /\ Stacked /\ Chained /\ PerformDropOk(i)
        /\ bs' = UnsetInaccessible(bs) /\ depth' = depth - 1
        /\ guard[i].count = depth /\ depth \in Nat /\ ptr' = guard[i].value
    BY <1>6 DEF DropInaccessible, PerformDrop, PerformDropOk, InOrder, TypeOK
  <2>2. OfKind("ref") = {}
    BY <2>1, UnsetInaccessibleFacts, TopOfStack DEF PerformDropOk, TypeOK
  <2>3. /\ OfKind("mut")' = OfKind("mut")
        /\ OfKind("inaccessible")' = OfKind("inaccessible") \ {i}
        /\ OfKind("ref")' = OfKind("ref")
        /\ i \in OfKind("inaccessible") /\ i \notin OfKind("mut")
        /\ \A h \in OfKind("mut") \cup OfKind("inaccessible") :
             h # i => guard'[h] = guard[h]
    BY <1>6 DEF DropInaccessible, OfKind, TypeOK, NoGuard
  <2>4. \A j \in OfKind("inaccessible") : guard[j].count \in Nat
    BY <2>1 DEF Stacked
  <2>5. QED
    BY <2>1, <2>2, <2>3, <2>4 DEF Chained
<1>7. CASE UNCHANGED vars
  BY <1>7 DEF vars, Chained, OfKind
<1>8. QED
  BY <1>1, <1>2, <1>3, <1>4, <1>5, <1>6, <1>7 DEF Next, TryDrop

LEMMA SpecIInv == Spec => []IInv
<1>1. IInv /\ [Next]_vars => IInv'
  BY NextTypeOK, NextCovered, NextStacked, NextChained DEF IInv
<1>2. QED
  BY InitIInv, <1>1, PTL DEF Spec

------------------------------------------------------------------------------
(* Every state of a cell is well typed: no counter leaves 0 .. usize::MAX and *)
(* the depth of its stack does not fall below zero, panics or not.            *)
THEOREM SpecTypeOK == Spec => []TypeOK
<1>1. IInv => TypeOK
  BY DEF IInv
<1>2. QED
  BY SpecIInv, <1>1, PTL

(* The cell's soundness: until the drop of a guard panics, a reference that   *)
(* can write to the value is the only one that can be used, for any number of *)
(* guards borrowed, put to sleep and dropped in any order.                     *)
THEOREM SpecNoAliasing == Spec => []NoAliasing
<1>1. ASSUME IInv, ~panicked, NEW w \in Writable PROVE Readable \cup Writable = {w}
  <2>1. TypeOK /\ Covered /\ Stacked
    BY <1>1 DEF IInv
  <2>2. Readable = {}
    BY <1>1, <2>1, TopOfStack DEF Readable, Writable, DerefOk
  <2>3. ASSUME NEW v \in Writable PROVE v = w
    BY <1>1, <2>1, <2>3 DEF Writable, DerefOk, Stacked
  <2>4. QED
    BY <2>2, <2>3
<1>2. IInv => NoAliasing
  BY <1>1 DEF NoAliasing, Unaliased
<1>3. QED
  BY SpecIInv, <1>2, PTL

(* The assertion of MutGuard::deref cannot fail until a drop has panicked.    *)
THEOREM SpecDerefNeverPanics == Spec => []DerefNeverPanics
<1>1. IInv => DerefNeverPanics
  BY TopOfStack DEF IInv, DerefNeverPanics, DerefOk
<1>2. QED
  BY SpecIInv, <1>1, PTL

(* is_currently_bound is a safe test for destroying the cell, even after      *)
(* panics: when it is false, no shared and no mutable guard is alive.         *)
THEOREM SpecUnboundIsUnreferenced == Spec => []UnboundIsUnreferenced
<1>1. IInv => UnboundIsUnreferenced
  <2>1. ASSUME IInv, ~IsCurrentlyBound
        PROVE  OfKind("ref") = {} /\ OfKind("mut") = {}
    <3>1. bs.shared = 0 /\ bs.mut = 0
      BY <2>1 DEF IInv, TypeOK, BorrowStates, IsCurrentlyBound
    <3>2. \A k \in {"ref", "mut"} : OfKind(k) # {} => Cardinality(OfKind(k)) >= 1
      BY GuardsCount
    <3>3. Cardinality(OfKind("ref")) <= 0 /\ Cardinality(OfKind("mut")) <= 0
      BY <2>1, <3>1 DEF IInv, Covered
    <3>4. QED
      BY <3>2, <3>3, GuardsCount
  <2>2. QED
    BY <2>1 DEF UnboundIsUnreferenced
<1>2. QED
  BY SpecIInv, <1>1, PTL

(* The pointer in the cell is the one every usable reference came from, and   *)
(* it belongs to a guard that is alive and asleep.                             *)
THEOREM SpecDerivedFromCurrentPtr == Spec => []DerivedFromCurrentPtr
<1>1. ASSUME IInv, ~panicked
      PROVE  /\ \A g \in Readable \cup Writable : guard[g].value = ptr
             /\ ptr # Root => guard[ptr].kind = "mut" /\ Asleep(ptr)
  <2>1. TypeOK /\ Covered /\ Stacked /\ Chained /\ depth \in Nat
    BY <1>1 DEF IInv, TypeOK
  <2>2. depth # 0 => \E i \in OfKind("inaccessible") :
                        guard[i].count = depth /\ guard[i].origin = ptr
    BY <2>1 DEF Stacked, Chained
  <2>3. ASSUME NEW w \in Writable PROVE guard[w].value = ptr
    <3>1. w \in OfKind("mut") /\ guard[w].count = depth + 1
      BY <2>1, TopOfStack DEF Writable
    <3>2. QED
      BY <2>1, <2>2, <3>1 DEF Chained
  <2>4. ptr # Root => guard[ptr].kind = "mut" /\ Asleep(ptr)
    BY <2>1, <2>2 DEF Chained, Stacked, Asleep, OfKind
  <2>5. QED
    BY <2>1, <2>3, <2>4 DEF Readable, Chained
<1>2. IInv => DerivedFromCurrentPtr
  BY <1>1 DEF DerivedFromCurrentPtr
<1>3. QED
  BY SpecIInv, <1>2, PTL

(* Nothing that happens to a poisoned cell unpoisons it or makes it hand out  *)
(* a reference.                                                                *)
THEOREM SpecPoisonIsFinal == Spec => PoisonIsFinal
<1> DEFINE Step == bs.poisoned => /\ bs'.poisoned
                                  /\ \A g \in Guards : guard'[g].kind \in {"ref", "mut"}
                                                          => guard[g].kind = guard'[g].kind
<1>1. ASSUME TypeOK, [Next]_vars, bs.poisoned PROVE Step
  <2> USE <1>1 DEF TypeOK, NoGuard
  <2>1. ASSUME NEW g \in Guards, Borrow(g) PROVE Step
    BY <2>1, IncrementSharedFacts DEF Borrow
  <2>2. ASSUME NEW g \in Guards, BorrowMut(g) PROVE Step
    BY <2>2, IncrementMutFacts DEF BorrowMut
  <2>3. ASSUME NEW i \in Guards, NEW m \in Guards, MakeInaccessible(i, m) PROVE Step
    BY <2>3, SetInaccessibleFacts DEF MakeInaccessible
  <2>4. ASSUME NEW g \in Guards, DropRef(g) PROVE Step
    BY <2>4, DecrementSharedFacts DEF DropRef
  <2>5. ASSUME NEW g \in Guards, DropMut(g) PROVE Step
    BY <2>5, DecrementMutFacts DEF DropMut
  <2>6. ASSUME NEW i \in Guards, DropInaccessible(i) PROVE Step
    BY <2>6, UnsetInaccessibleFacts, PoisonFacts
    DEF DropInaccessible, PerformDrop, PerformDropOk
  <2>7. CASE UNCHANGED vars
    BY <2>7 DEF vars
  <2>8. QED
    BY <2>1, <2>2, <2>3, <2>4, <2>5, <2>6, <2>7 DEF Next, TryDrop
<1>2. TypeOK /\ [Next]_vars => [Step]_vars
  BY <1>1
<1>3. QED
  BY SpecTypeOK, <1>2, PTL DEF Spec, PoisonIsFinal
------------------------------------------------------------------------------
(* The refinement of ReborrowStack.  The abstract stack, read off the guards: *)
(* its k-th reference is the one that the inaccessible guard numbered k holds,*)
(* and the reference in use is the only mutable guard that is awake.          *)
Viewed ==
  /\ Stacked /\ depth \in Nat
  /\ AsleepOrder = [k \in 1 .. depth |-> AsleepOrder[k]] /\ Len(AsleepOrder) = depth
  /\ \A i \in OfKind("inaccessible") :
       guard[i].count \in 1 .. depth /\ AsleepOrder[guard[i].count] = guard[i].origin
  /\ \A m \in OfKind("mut") : ~Asleep(m) => InUseMut = m
  /\ (\A m \in OfKind("mut") : Asleep(m)) => InUseMut = Root
  /\ NoneIfPanicked(OfKind("ref")) = OfKind("ref")

LEMMA StackView == IInv => panicked \/ Viewed
<1> SUFFICES ASSUME IInv, ~panicked PROVE Viewed
  OBVIOUS
<1>0. TypeOK /\ Covered /\ Stacked /\ depth \in Nat
  BY DEF IInv, TypeOK
<1> DEFINE Held(k) == CHOOSE i \in OfKind("inaccessible") : guard[i].count = k
<1>1. AsleepOrder = [k \in 1 .. depth |-> guard[Held(k)].origin]
  BY DEF AsleepOrder
<1>2. Len(AsleepOrder) = depth /\ AsleepOrder = [k \in 1 .. depth |-> AsleepOrder[k]]
  BY <1>0, <1>1
<1>3. ASSUME NEW i \in OfKind("inaccessible")
      PROVE  guard[i].count \in 1 .. depth /\ AsleepOrder[guard[i].count] = guard[i].origin
  <2>1. guard[i].count \in 1 .. depth
    BY <1>0 DEF Stacked
  <2>2. Held(guard[i].count) = i
    BY <1>0 DEF Stacked
  <2>3. QED
    BY <1>1, <2>1, <2>2
<1> DEFINE awake == {m \in OfKind("mut") : ~Asleep(m)}
<1>4. InUseMut = IF awake = {} THEN Root ELSE CHOOSE m \in awake : TRUE
  BY DEF InUseMut, NoneIfPanicked
<1>5. \A m, n \in awake : m = n
  BY <1>0, TopOfStack DEF Stacked
<1>6. \A m \in awake : InUseMut = m
  BY <1>4, <1>5
<1>7. (\A m \in OfKind("mut") : Asleep(m)) => InUseMut = Root
  BY <1>4
<1>8. QED
  BY <1>0, <1>2, <1>3, <1>6, <1>7 DEF Viewed, NoneIfPanicked

LEMMA NextStackView == IInv' => panicked' \/ Viewed'
  BY StackView, PTL

(* A step that leaves the guards asleep alone leaves the abstract stack alone.*)
LEMMA AsleepSame ==
  ASSUME Viewed, Viewed', depth' = depth,
         OfKind("inaccessible")' = OfKind("inaccessible"),
         \A i \in OfKind("inaccessible") : guard'[i] = guard[i]
  PROVE  AsleepOrder' = AsleepOrder /\ \A m : Asleep(m)' <=> Asleep(m)
<1>1. ASSUME NEW k \in 1 .. depth PROVE AsleepOrder'[k] = AsleepOrder[k]
  <2>1. PICK i \in OfKind("inaccessible") : guard[i].count = k
    BY DEF Viewed, Stacked
  <2>2. QED
    BY <2>1 DEF Viewed
<1>2. AsleepOrder' = AsleepOrder
  BY <1>1 DEF Viewed
<1>3. \A m : Asleep(m)' <=> Asleep(m)
  BY DEF Asleep
<1>4. QED
  BY <1>2, <1>3

(* Nothing is in use, seen from above, when the cell can be borrowed mutably; *)
(* and no mutable reference when it can be shared.                            *)
LEMMA TopInUse ==
  ASSUME IInv, ~panicked, Viewed
  PROVE  /\ bs.mut = bs.inacc => InUseMut = Root
         /\ bs.shared = 0 => OfKind("ref") = {}
         /\ InUseMut \in OfKind("mut") \cup {Root} /\ Root \notin OfKind("mut")
         /\ \A k \in 1 .. depth : AsleepOrder[k] \in OfKind("mut") /\ Asleep(AsleepOrder[k])
<1>0. TypeOK /\ Covered /\ Stacked /\ depth \in Nat /\ bs.mut \in Nat
  BY DEF IInv, TypeOK, BorrowStates
<1>1. ASSUME bs.mut = bs.inacc PROVE InUseMut = Root
  <2>1. \A m \in OfKind("mut") : Asleep(m)
    BY <1>0, <1>1, TopOfStack DEF Stacked
  <2>2. QED
    BY <2>1 DEF Viewed
<1>2. bs.shared = 0 => OfKind("ref") = {}
  BY <1>0, TopOfStack
<1>3. InUseMut \in OfKind("mut") \cup {Root} /\ Root \notin OfKind("mut")
  BY GuardsAssumption DEF Viewed, OfKind
<1>4. ASSUME NEW k \in 1 .. depth
      PROVE  AsleepOrder[k] \in OfKind("mut") /\ Asleep(AsleepOrder[k])
  <2>1. PICK i \in OfKind("inaccessible") : guard[i].count = k
    BY DEF Viewed, Stacked
  <2>2. AsleepOrder[k] = guard[i].origin /\ guard[i].origin \in OfKind("mut")
    BY <2>1 DEF Viewed, Stacked
  <2>3. Asleep(guard[i].origin)
    BY DEF Asleep
  <2>4. QED
    BY <2>2, <2>3
<1>5. QED
  BY <1>1, <1>2, <1>3, <1>4

(* A guard not handed out yet is no reference of the abstract stack.          *)
LEMMA FreshGuard ==
  ASSUME IInv, ~panicked, Viewed, NEW g \in Guards, guard[g].kind = "none"
  PROVE  ~Stack!InUse(g)
<1>1. g \notin OfKind("mut") /\ g \notin OfKind("ref") /\ g # Root
  BY GuardsAssumption DEF OfKind
<1>2. depth \in Nat /\ Len(AsleepOrder) = depth
  BY DEF Viewed
<1>3. QED
  BY <1>1, <1>2, TopInUse DEF Stack!InUse, Viewed

------------------------------------------------------------------------------
(* One abstract step for each operation of the cell.                          *)
LEMMA BorrowShares ==
  ASSUME IInv, Viewed, Viewed', ~panicked, ~panicked', NEW g \in Guards, Borrow(g)
  PROVE  Stack!Share(g)
<1>0. Stacked /\ TypeOK
  BY DEF IInv
<1>1. /\ OfKind("mut")' = OfKind("mut")
      /\ OfKind("inaccessible")' = OfKind("inaccessible")
      /\ OfKind("ref")' = OfKind("ref") \cup {g}
      /\ \A h \in OfKind("mut") \cup OfKind("inaccessible") : guard'[h] = guard[h]
  BY <1>0 DEF Borrow, OfKind, TypeOK, NoGuard
<1>2. AsleepOrder' = AsleepOrder /\ \A m : Asleep(m)' <=> Asleep(m)
  BY <1>1, AsleepSame DEF Borrow
<1>3. InUseMut = Root
  BY <1>0, TopInUse DEF Borrow, IncrementSharedOk, EnsureCanRef, HasAccessible, Stacked
<1>4. InUseMut' = Root
  BY <1>1, <1>2, <1>3, GuardsAssumption DEF Viewed, OfKind
<1>5. ~Stack!InUse(g)
  BY FreshGuard DEF Borrow
<1>6. QED
  BY <1>1, <1>2, <1>3, <1>4, <1>5 DEF Stack!Share, Viewed, Borrow

LEMMA BorrowMutTakes ==
  ASSUME IInv, Viewed, Viewed', ~panicked, ~panicked', NEW g \in Guards, BorrowMut(g)
  PROVE  Stack!Take(g)
<1>0. Stacked /\ TypeOK /\ bs.mut \in Nat
  BY DEF IInv, TypeOK, BorrowStates
<1>1. /\ OfKind("mut")' = OfKind("mut") \cup {g}
      /\ OfKind("inaccessible")' = OfKind("inaccessible")
      /\ OfKind("ref")' = OfKind("ref")
      /\ g \notin OfKind("mut")
      /\ \A h \in OfKind("mut") \cup OfKind("inaccessible") : guard'[h] = guard[h]
  BY <1>0 DEF BorrowMut, OfKind, TypeOK, NoGuard
<1>2. AsleepOrder' = AsleepOrder /\ \A m : Asleep(m)' <=> Asleep(m)
  BY <1>1, AsleepSame DEF BorrowMut
<1>3. InUseMut = Root /\ OfKind("ref") = {}
  BY <1>0, TopInUse
  DEF BorrowMut, IncrementMutOk, EnsureCanMutRef, EnsureCanRef, HasAccessible, Stacked
<1>4. InUseMut' = g
  <2>1. ~Asleep(g)
    BY <1>0, <1>1 DEF Asleep, Stacked
  <2>2. QED
    BY <1>1, <1>2, <2>1 DEF Viewed
<1>5. ~Stack!InUse(g)
  BY FreshGuard DEF BorrowMut
<1>6. QED
  BY <1>1, <1>2, <1>3, <1>4, <1>5 DEF Stack!Take, Stack!Idle, Viewed, BorrowMut

LEMMA DropRefUnshares ==
  ASSUME IInv, Viewed, Viewed', ~panicked, ~panicked', NEW g \in Guards, DropRef(g)
  PROVE  Stack!Unshare(g)
<1>0. TypeOK
  BY DEF IInv
<1>1. /\ OfKind("mut")' = OfKind("mut")
      /\ OfKind("inaccessible")' = OfKind("inaccessible")
      /\ OfKind("ref")' = OfKind("ref") \ {g} /\ g \in OfKind("ref")
      /\ \A h \in OfKind("mut") \cup OfKind("inaccessible") : guard'[h] = guard[h]
  BY <1>0 DEF DropRef, OfKind, TypeOK, NoGuard
<1>2. AsleepOrder' = AsleepOrder /\ \A m : Asleep(m)' <=> Asleep(m)
  BY <1>1, AsleepSame DEF DropRef
<1>3. InUseMut' = InUseMut
  BY <1>1, <1>2 DEF Viewed
<1>4. /\ NoneIfPanicked(OfKind("ref")) = OfKind("ref")
      /\ NoneIfPanicked(OfKind("ref"))' = OfKind("ref")'
      /\ panicked' = panicked
  BY <1>0 DEF Viewed, DropRef, TypeOK
<1>5. QED
  BY <1>1, <1>2, <1>3, <1>4 DEF Stack!Unshare

LEMMA DropMutGives ==
  ASSUME IInv, Viewed, Viewed', ~panicked, ~panicked', NEW g \in Guards, DropMut(g)
  PROVE  Stack!Give(g)
<1>0. TypeOK /\ Covered /\ Stacked
  BY DEF IInv
<1>1. /\ OfKind("mut")' = OfKind("mut") \ {g} /\ g \in OfKind("mut")
      /\ OfKind("inaccessible")' = OfKind("inaccessible")
      /\ OfKind("ref")' = OfKind("ref")
      /\ \A h \in OfKind("inaccessible") : guard'[h] = guard[h]
  BY <1>0 DEF DropMut, OfKind, TypeOK, NoGuard
<1>2. AsleepOrder' = AsleepOrder /\ \A m : Asleep(m)' <=> Asleep(m)
  BY <1>1, AsleepSame DEF DropMut
<1>3. InUseMut = g
  BY <1>1 DEF Viewed, DropMut
<1>4. \A m \in OfKind("mut") : ~Asleep(m) => m = g
  BY <1>3 DEF Viewed
<1>5. InUseMut' = Root
  BY <1>1, <1>2, <1>4 DEF Viewed
<1>6. /\ NoneIfPanicked(OfKind("ref"))' = NoneIfPanicked(OfKind("ref"))
      /\ panicked' = panicked
  BY <1>0, <1>1 DEF Viewed, DropMut, TypeOK
<1>7. QED
  BY <1>2, <1>3, <1>5, <1>6 DEF Stack!Give

(* The guard put to sleep becomes the last of the sequence.                   *)
LEMMA MakeInaccessibleLends ==
  ASSUME IInv, Viewed, Viewed', ~panicked, ~panicked',
         NEW i \in Guards, NEW m \in Guards, MakeInaccessible(i, m)
  PROVE  Stack!Lend(m)
<1>0. TypeOK /\ Covered /\ Stacked /\ depth \in Nat /\ depth' = depth + 1
  BY DEF IInv, TypeOK, MakeInaccessible
<1>1. /\ OfKind("mut")' = OfKind("mut") /\ m \in OfKind("mut")
      /\ OfKind("inaccessible")' = OfKind("inaccessible") \cup {i}
      /\ OfKind("ref")' = OfKind("ref")
      /\ guard'[i].count = depth + 1 /\ guard'[i].origin = m
      /\ \A h \in OfKind("mut") \cup OfKind("inaccessible") : guard'[h] = guard[h]
  BY <1>0 DEF MakeInaccessible, OfKind, TypeOK
<1>2. InUseMut = m
  BY <1>1 DEF Viewed, MakeInaccessible
<1>3. AsleepOrder' = Append(AsleepOrder, m)
  <2>1. AsleepOrder'[depth + 1] = m
    BY <1>1 DEF Viewed
  <2>2. ASSUME NEW k \in 1 .. depth PROVE AsleepOrder'[k] = AsleepOrder[k]
    <3>1. PICK j \in OfKind("inaccessible") : guard[j].count = k
      BY DEF Viewed, Stacked
    <3>2. QED
      BY <1>1, <3>1 DEF Viewed
  <2>3. AsleepOrder' = [k \in 1 .. depth + 1 |-> IF k = depth + 1 THEN m ELSE AsleepOrder[k]]
    BY <1>0, <2>1, <2>2 DEF Viewed
  <2>4. Append(AsleepOrder, m)
          = [k \in 1 .. depth + 1 |-> IF k = depth + 1 THEN m ELSE AsleepOrder[k]]
    BY <1>0 DEF Viewed, Append
  <2>5. QED
    BY <2>3, <2>4
<1>4. InUseMut' = Root
  <2>1. \A n \in OfKind("mut") : n # m => Asleep(n)
    BY <1>2 DEF Viewed
  <2>2. \A n \in OfKind("mut") : Asleep(n)'
    BY <1>1, <2>1 DEF Asleep
  <2>3. QED
    BY <1>1, <2>2 DEF Viewed
<1>5. QED
  BY <1>1, <1>2, <1>3, <1>4 DEF Stack!Lend, Viewed, MakeInaccessible

(* The guard dropped held the last of the sequence, which awakes.             *)
LEMMA DropInaccessibleResumes ==
  ASSUME IInv, Viewed, Viewed', ~panicked, ~panicked', NEW i \in Guards, DropInaccessible(i)
  PROVE  Stack!Resume(guard[i].origin)
<1>0. /\ TypeOK /\ Covered /\ Stacked /\ depth \in Nat /\ depth' = depth - 1
      /\ guard[i].count = depth /\ MayUnsetInaccessible(bs)
  BY DEF IInv, TypeOK, DropInaccessible, PerformDrop, PerformDropOk, InOrder
<1>1. /\ OfKind("mut")' = OfKind("mut")
      /\ OfKind("inaccessible")' = OfKind("inaccessible") \ {i}
      /\ OfKind("ref")' = OfKind("ref") /\ i \in OfKind("inaccessible")
      /\ \A h \in OfKind("mut") \cup OfKind("inaccessible") : h # i => guard'[h] = guard[h]
  BY <1>0 DEF DropInaccessible, OfKind, TypeOK, NoGuard
<1>2. InUseMut = Root /\ OfKind("ref") = {}
  BY <1>0, TopInUse DEF MayUnsetInaccessible, HasAccessible, Stacked
<1>3. depth > 0 /\ AsleepOrder[depth] = guard[i].origin
  BY <1>0, <1>1 DEF Viewed
<1>4. AsleepOrder' = SubSeq(AsleepOrder, 1, depth - 1)
  <2>1. ASSUME NEW k \in 1 .. depth - 1 PROVE AsleepOrder'[k] = AsleepOrder[k]
    <3>1. PICK j \in OfKind("inaccessible") : guard[j].count = k
      BY <1>0 DEF Viewed, Stacked
    <3>2. j # i
      BY <1>0, <3>1
    <3>3. QED
      BY <1>1, <3>1, <3>2 DEF Viewed
  <2>2. AsleepOrder' = [k \in 1 .. depth - 1 |-> AsleepOrder[k]]
    BY <1>0, <2>1 DEF Viewed
  <2>3. SubSeq(AsleepOrder, 1, depth - 1) = [k \in 1 .. depth - 1 |-> AsleepOrder[k]]
    BY <1>0, <1>3 DEF Viewed
  <2>4. QED
    BY <2>2, <2>3
<1>5. ASSUME NEW m \in Guards, m = guard[i].origin PROVE InUseMut' = m
  <2>1. m \in OfKind("mut")
    BY <1>1, <1>5 DEF Viewed, Stacked
  <2>2. \A j \in OfKind("inaccessible") \ {i} : guard[j].origin # m
    BY <1>0, <1>1, <1>5 DEF Stacked
  <2>3. ~Asleep(m)'
    BY <1>1, <2>2 DEF Asleep
  <2>4. QED
    BY <1>1, <2>1, <2>3 DEF Viewed
<1>6. /\ guard[i].origin \in Guards
      /\ NoneIfPanicked(OfKind("ref"))' = NoneIfPanicked(OfKind("ref"))
      /\ NoneIfPanicked(OfKind("ref")) = {} /\ panicked' = panicked
  <2>1. guard[i].origin \in OfKind("mut") /\ OfKind("mut") \subseteq Guards
    BY <1>0, <1>1 DEF Stacked, OfKind
  <2>2. /\ NoneIfPanicked(OfKind("ref")) = OfKind("ref")
        /\ NoneIfPanicked(OfKind("ref"))' = OfKind("ref")'
    BY DEF Viewed
  <2>3. panicked' = panicked
    BY DEF DropInaccessible, PerformDrop
  <2>4. QED
    BY <1>1, <1>2, <2>1, <2>2, <2>3
<1>7. AsleepOrder # <<>> /\ Len(AsleepOrder) = depth
  BY <1>3 DEF Viewed
<1>8. QED
  BY <1>2, <1>3, <1>4, <1>5, <1>6, <1>7 DEF Stack!Resume, Stack!Idle

------------------------------------------------------------------------------
LEMMA InitStack == Init => Stack!Init
<1> SUFFICES ASSUME Init PROVE Stack!Init
  OBVIOUS
<1>1. OfKind("ref") = {} /\ OfKind("mut") = {} /\ OfKind("inaccessible") = {}
  BY DEF Init, OfKind, NoGuard
<1>2. AsleepOrder = <<>>
  BY DEF AsleepOrder, Init
<1>3. InUseMut = Root
  BY <1>1 DEF InUseMut, NoneIfPanicked
<1>4. QED
  BY <1>1, <1>2, <1>3 DEF Stack!Init, NoneIfPanicked, Init

LEMMA NextStack == IInv /\ IInv' /\ [Next]_vars => [Stack!Next]_(Stack!vars)
<1> SUFFICES ASSUME IInv, IInv', [Next]_vars
             PROVE  Stack!Next \/ UNCHANGED Stack!vars
  OBVIOUS
<1>0. panicked \in BOOLEAN /\ panicked' \in BOOLEAN
  BY DEF IInv, TypeOK
<1>1. ASSUME panicked
      PROVE  AsleepOrder = <<>> /\ InUseMut = Root /\ NoneIfPanicked(OfKind("ref")) = {}
  BY <1>1 DEF AsleepOrder, InUseMut, NoneIfPanicked
<1>2. ASSUME panicked'
      PROVE  /\ AsleepOrder' = <<>> /\ InUseMut' = Root
             /\ NoneIfPanicked(OfKind("ref"))' = {}
  BY <1>2 DEF AsleepOrder, InUseMut, NoneIfPanicked
<1>3. CASE UNCHANGED vars
  BY <1>3 DEF vars, Stack!vars, AsleepOrder, InUseMut, NoneIfPanicked, OfKind, Asleep
<1>4. CASE Next /\ panicked
  <2>1. panicked'
    BY <1>4 DEF Next, Borrow, BorrowMut, DropRef, DropMut, MakeInaccessible,
         DropInaccessible, TryDrop, PerformDrop
  <2>2. QED
    BY <1>0, <1>1, <1>2, <1>4, <2>1 DEF Stack!vars
<1>5. CASE Next /\ ~panicked /\ panicked'
  <2>1. Stack!Break
    BY <1>0, <1>2, <1>5 DEF Stack!Break
  <2>2. QED
    BY <2>1 DEF Stack!Next
<1>6. CASE Next /\ ~panicked /\ ~panicked'
  <2>1. Viewed /\ Viewed'
    BY <1>6, StackView, NextStackView
  <2>2. PICK g \in Guards :
          \/ Borrow(g) \/ BorrowMut(g) \/ DropRef(g) \/ DropMut(g)
          \/ (\E m \in Guards : MakeInaccessible(g, m)) \/ DropInaccessible(g)
    BY <1>6 DEF Next, TryDrop
  <2>3. \E h \in Guards : \/ Stack!Share(h) \/ Stack!Unshare(h) \/ Stack!Take(h)
                          \/ Stack!Give(h)  \/ Stack!Lend(h)    \/ Stack!Resume(h)
    <3>1. CASE Borrow(g)
      BY <1>6, <2>1, <3>1, BorrowShares
    <3>2. CASE BorrowMut(g)
      BY <1>6, <2>1, <3>2, BorrowMutTakes
    <3>3. CASE DropRef(g)
      BY <1>6, <2>1, <3>3, DropRefUnshares
    <3>4. CASE DropMut(g)
      BY <1>6, <2>1, <3>4, DropMutGives
    <3>5. ASSUME NEW m \in Guards, MakeInaccessible(g, m) PROVE Stack!Lend(m)
      BY <1>6, <2>1, <3>5, MakeInaccessibleLends
    <3>6. CASE DropInaccessible(g)
      <4>1. guard[g].origin \in Guards
        BY <2>1, <3>6 DEF Viewed, Stacked, OfKind, DropInaccessible
      <4>2. QED
        BY <1>6, <2>1, <3>6, <4>1, DropInaccessibleResumes
    <3>7. QED
      BY <2>2, <3>1, <3>2, <3>3, <3>4, <3>5, <3>6
  <2>4. QED
    BY <1>6, <2>3 DEF Stack!Next
<1>7. QED
  BY <1>3, <1>4, <1>5, <1>6

(* The cell is a stack of reborrows: whole references are put to sleep and    *)
(* awake again in order, one that writes is the only one in use, and nothing  *)
(* else happens until the drop of a guard panics.                              *)
THEOREM SpecImplementsReborrowStack == Spec => ImplementsReborrowStack
  BY InitStack, NextStack, SpecIInv, PTL DEF Spec, ImplementsReborrowStack, Stack!Spec
==============================================================================
