-------------------------------- MODULE GdCell --------------------------------
(* The reborrowing cell of godot-cell (cell.rs, guards.rs) and the guards it  *)
(* hands out, used by one thread.  A guard may be dropped in any order the    *)
(* Rust borrow checker accepts; a drop that panics consumes its guard, and    *)
(* the panic is caught, as the callbacks from the engine do.                  *)
(*                                                                             *)
(* Every pointer to the value has the same address, so a pointer is modelled  *)
(* by its provenance: the mutable guard it was reborrowed from, or Root for   *)
(* the pointer the cell was created with.                                      *)
EXTENDS BorrowState, FiniteSets

CONSTANTS Guards,    \* identities of guards
          Root       \* provenance of the pointer made by GdCell::new

ASSUME GuardsAssumption == IsFiniteSet(Guards) /\ Root \notin Guards

VARIABLES bs,         \* CellState::borrow_state
          ptr,        \* CellState::ptr
          depth,      \* CellState::stack_depth
          guard,      \* the guards alive
          panicked    \* history: the drop of a guard has panicked

vars == <<bs, ptr, depth, guard, panicked>>

Prov == Guards \cup {Root}

(* One record for the three guard types: value is RefGuard::value,            *)
(* MutGuard::value or InaccessibleGuard::prev_ptr; count is MutGuard::count   *)
(* or InaccessibleGuard::stack_depth; origin is the mutable guard whose       *)
(* reference an inaccessible guard holds on to.                                *)
GuardRecord == [kind : {"none", "ref", "mut", "inaccessible"},
                value : Prov, count : Nat, origin : Prov]
NoGuard == [kind |-> "none", value |-> Root, count |-> 0, origin |-> Root]

OfKind(k) == {g \in Guards : guard[g].kind = k}

(* The borrow checker: while an inaccessible guard lives, the guard whose     *)
(* reference it took can be neither used nor dropped.                          *)
Asleep(m) == \E i \in OfKind("inaccessible") : guard[i].origin = m

(* MutGuard::deref and deref_mut: the assertion on the borrow count.          *)
DerefOk(m) == guard[m].count = bs.mut

IsCurrentlyBound_mutOnly == bs.mut > 0
IsCurrentlyBound == bs.shared > 0 \/ bs.mut > 0

Init ==
  /\ bs = Unborrowed
  /\ ptr = Root /\ depth = 0
  /\ guard = [g \in Guards |-> NoGuard]
  /\ panicked = FALSE

Borrow(g) ==
  /\ guard[g].kind = "none"
  /\ IncrementSharedOk(bs)
  /\ bs' = IncrementShared(bs)
  /\ guard' = [guard EXCEPT ![g] = [NoGuard EXCEPT !.kind = "ref", !.value = ptr]]
  /\ UNCHANGED <<ptr, depth, panicked>>

BorrowMut(g) ==
  /\ guard[g].kind = "none"
  /\ IncrementMutOk(bs)
  /\ bs' = IncrementMut(bs)
  /\ guard' = [guard EXCEPT ![g] =
       [NoGuard EXCEPT !.kind = "mut", !.value = ptr, !.count = bs'.mut]]
  /\ UNCHANGED <<ptr, depth, panicked>>

(* make_inaccessible, called with the reference of guard m.                   *)
MakeInaccessible(i, m) ==
  /\ guard[i].kind = "none"
  /\ guard[m].kind = "mut" /\ ~Asleep(m) /\ DerefOk(m)
  /\ SetInaccessibleOk(bs)
  /\ bs' = SetInaccessible(bs)
  /\ ptr' = m /\ depth' = depth + 1
  /\ guard' = [guard EXCEPT ![i] =
       [kind |-> "inaccessible", value |-> ptr, count |-> depth', origin |-> m]]
  /\ UNCHANGED panicked

(* RefGuard::drop *)
DropRef(g) ==
  /\ guard[g].kind = "ref"
  /\ bs' = DecrementShared(bs)
  /\ panicked' = (panicked \/ ~DecrementSharedOk(bs))
  /\ guard' = [guard EXCEPT ![g] = NoGuard]
  /\ UNCHANGED <<ptr, depth>>

(* MutGuard::drop *)
DropMut(g) ==
  /\ guard[g].kind = "mut" /\ ~Asleep(g)
  /\ bs' = DecrementMut(bs)
  /\ panicked' = (panicked \/ ~DecrementMutOk(bs))
  /\ guard' = [guard EXCEPT ![g] = NoGuard]
  /\ UNCHANGED <<ptr, depth>>

(* InaccessibleGuard::perform_drop, in its three outcomes.                    *)
InOrder(i) == depth = guard[i].count
PerformDropOk(i) == InOrder(i) /\ MayUnsetInaccessible(bs)

PerformDrop_keepsPtr(i) ==
  /\ PerformDropOk(i)
  /\ bs' = UnsetInaccessible(bs) /\ depth' = depth - 1
  /\ UNCHANGED <<ptr, panicked>>

PerformDrop(i) ==
  \/ /\ PerformDropOk(i)
     /\ bs' = UnsetInaccessible(bs)
     /\ ptr' = guard[i].value /\ depth' = depth - 1
     /\ UNCHANGED panicked
  \/ /\ ~PerformDropOk(i)
     /\ bs' = IF InOrder(i) THEN bs ELSE Poison(bs)
     /\ panicked' = TRUE
     /\ UNCHANGED <<ptr, depth>>

DropInaccessible(i) ==
  /\ guard[i].kind = "inaccessible"
  /\ PerformDrop(i)
  /\ guard' = [guard EXCEPT ![i] = NoGuard]

(* InaccessibleGuard::can_drop and try_drop; when can_drop refuses, the guard *)
(* is handed back and nothing changes.                                         *)
CanDrop(i) == MayUnsetInaccessible(bs) \/ InOrder(i)

TryDrop(i) == CanDrop(i) /\ DropInaccessible(i)

Next ==
  \E g \in Guards :
     \/ Borrow(g) \/ BorrowMut(g) \/ DropRef(g) \/ DropMut(g)
     \/ \E m \in Guards : MakeInaccessible(g, m)
     \/ DropInaccessible(g) \/ TryDrop(g)

Spec == Init /\ [][Next]_vars
------------------------------------------------------------------------------
TypeOK ==
  /\ bs \in BorrowStates
  /\ ptr \in Prov /\ depth \in Nat
  /\ guard \in [Guards -> GuardRecord]
  /\ panicked \in BOOLEAN

(* References through which the value can be read or written now.             *)
Readable == OfKind("ref")
Writable == {m \in OfKind("mut") : ~Asleep(m) /\ DerefOk(m)}

Unaliased == \A w \in Writable : Readable \cup Writable = {w}

(* The cell's purpose: several mutable guards may be alive, but a reference   *)
(* that can write is the only one that can be used.                           *)
NoAliasing == ~panicked => Unaliased

(* guards.rs:269-270 and blocking_guards.rs:136-137 of the drop of an         *)
(* inaccessible guard: it "may poison state, however it should not cause any  *)
(* UB either way".  So a panic that is caught leaves the references exclusive. *)
DropCausesNoUB == Unaliased

(* MutGuard::deref asserts its count, an error check that "should never be    *)
(* triggered" (guards.rs:128): before any panic, every mutable guard the      *)
(* borrow checker lets a program use is the most recent one.                  *)
DerefNeverPanics ==
  ~panicked => \A m \in OfKind("mut") : ~Asleep(m) => DerefOk(m)

(* cell.rs:61-62: a cell that is not bound can be destroyed, for no guard     *)
(* can still reach the value - also after panics have lost count of some.     *)
UnboundIsUnreferenced ==
  ~IsCurrentlyBound => OfKind("ref") = {} /\ OfKind("mut") = {}

(* CellState::ptr (cell.rs:224-228): before any panic, every reference that   *)
(* can be used was derived from the pointer the cell holds, and that pointer  *)
(* belongs to a guard still alive, put to sleep by a guard still alive.       *)
DerivedFromCurrentPtr ==
  ~panicked =>
    /\ \A g \in Readable \cup Writable : guard[g].value = ptr
    /\ ptr # Root => guard[ptr].kind = "mut" /\ Asleep(ptr)

(* A poisoned cell stays poisoned, and hands out no reference any more.       *)
PoisonIsFinal ==
  [][bs.poisoned => /\ bs'.poisoned
                    /\ \A g \in Guards : guard'[g].kind \in {"ref", "mut"}
                                            => guard[g].kind = guard'[g].kind]_vars
------------------------------------------------------------------------------
(* The cell implements the stack of reborrows, as long as no drop panics.     *)
NoneIfPanicked(S) == IF panicked THEN {} ELSE S

AsleepOrder ==
  IF panicked THEN <<>>
  ELSE [k \in 1 .. depth |->
          guard[CHOOSE i \in OfKind("inaccessible") : guard[i].count = k].origin]

InUseMut ==
  LET awake == NoneIfPanicked({m \in OfKind("mut") : ~Asleep(m)})
  IN  IF awake = {} THEN Root ELSE CHOOSE m \in awake : TRUE

Stack == INSTANCE ReborrowStack WITH
           None <- Root, asleep <- AsleepOrder, unique <- InUseMut,
           shared <- NoneIfPanicked(OfKind("ref")), broken <- panicked

ImplementsReborrowStack == Stack!Spec
==============================================================================
