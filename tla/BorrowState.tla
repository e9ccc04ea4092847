----------------------------- MODULE BorrowState -----------------------------
(* The borrow counters of godot-cell, godot-cell/src/borrow_state.rs: one      *)
(* record per cell, and one guard and one update per method.  A method whose  *)
(* guard fails returns Err and leaves the counters alone, except where an Err *)
(* is paired with poisoning.                                                   *)
EXTENDS Naturals

CONSTANT UsizeMax    \* usize::MAX, the bound of checked_add

ASSUME UsizeMaxAssumption == UsizeMax \in Nat \ {0}

BorrowStates == [shared : 0 .. UsizeMax, mut : 0 .. UsizeMax,
                 inacc : 0 .. UsizeMax, poisoned : BOOLEAN]

Unborrowed == [shared |-> 0, mut |-> 0, inacc |-> 0, poisoned |-> FALSE]

(* has_accessible; its assertion and its subtraction panic exactly when       *)
(* AccessibleCountPanics holds.                                                *)
HasAccessible(b) == b.mut = b.inacc + 1
AccessibleCountPanics(b) == ~(b.mut \in {b.inacc, b.inacc + 1})

Poison(b) == [b EXCEPT !.poisoned = TRUE]

(* Here and in the other modules, a definition X_y is a faulty version of the *)
(* X that follows, to show that a property notices the fault.                  *)
EnsureCanRef_ignoresMut(b) == ~b.poisoned
EnsureCanRef_ignoresPoison(b) == ~HasAccessible(b)
EnsureCanRef(b) == ~b.poisoned /\ ~HasAccessible(b)
EnsureCanMutRef_ignoresShared(b) == EnsureCanRef(b)
EnsureCanMutRef(b) == EnsureCanRef(b) /\ b.shared = 0

IncrementSharedOk_unchecked(b) == EnsureCanRef(b)
IncrementSharedOk(b) == EnsureCanRef(b) /\ b.shared < UsizeMax
IncrementShared(b) == [b EXCEPT !.shared = @ + 1]

DecrementSharedOk(b) == ~b.poisoned /\ b.shared > 0 /\ ~HasAccessible(b)
DecrementShared(b) ==
  IF DecrementSharedOk(b) THEN [b EXCEPT !.shared = @ - 1]
  ELSE IF ~b.poisoned /\ b.shared > 0 THEN Poison(b) ELSE b

IncrementMutOk(b) == EnsureCanMutRef(b) /\ b.mut < UsizeMax
IncrementMut(b) == [b EXCEPT !.mut = @ + 1]

DecrementMutOk(b) == ~b.poisoned /\ b.mut > 0 /\ b.mut = b.inacc + 1
DecrementMut(b) ==
  IF DecrementMutOk(b) THEN [b EXCEPT !.mut = @ - 1]
  ELSE IF ~b.poisoned /\ b.mut > 0 /\ b.mut # b.inacc THEN Poison(b) ELSE b

SetInaccessibleOk(b) == HasAccessible(b) /\ b.inacc < UsizeMax
SetInaccessible(b) == [b EXCEPT !.inacc = @ + 1]

MayUnsetInaccessible_ignoresZero(b) == ~HasAccessible(b) /\ b.shared = 0
MayUnsetInaccessible(b) == ~HasAccessible(b) /\ b.shared = 0 /\ b.inacc > 0
UnsetInaccessible(b) == [b EXCEPT !.inacc = @ - 1]
==============================================================================
