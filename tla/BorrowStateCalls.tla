--------------------------- MODULE BorrowStateCalls ---------------------------
(* Every sequence of calls to the methods of one BorrowState, in any order:   *)
(* what its property tests sample, explored completely.                        *)
EXTENDS BorrowState

VARIABLES counters,  \* the counters
          external   \* has a caller poisoned the state (perform_drop does)?

callsVars == <<counters, external>>

CallsInit == counters = Unborrowed /\ external = FALSE

CallIncrementShared ==
  IncrementSharedOk(counters) /\ counters' = IncrementShared(counters) /\ UNCHANGED external
CallDecrementShared == counters' = DecrementShared(counters) /\ UNCHANGED external
CallIncrementMut ==
  IncrementMutOk(counters) /\ counters' = IncrementMut(counters) /\ UNCHANGED external
CallDecrementMut == counters' = DecrementMut(counters) /\ UNCHANGED external
CallSetInaccessible ==
  SetInaccessibleOk(counters) /\ counters' = SetInaccessible(counters) /\ UNCHANGED external
CallUnsetInaccessible ==
  MayUnsetInaccessible(counters) /\ counters' = UnsetInaccessible(counters) /\ UNCHANGED external
CallPoison == counters' = Poison(counters) /\ external' = TRUE

CallsNext == \/ CallIncrementShared   \/ CallDecrementShared
             \/ CallIncrementMut      \/ CallDecrementMut
             \/ CallSetInaccessible   \/ CallUnsetInaccessible
             \/ CallPoison

CallsSpec == CallsInit /\ [][CallsNext]_callsVars

(* The counters stay counters.                                                *)
CountersOK == counters \in BorrowStates /\ external \in BOOLEAN

(* The class documentation (borrow_state.rs:10-16): whatever is called, in    *)
(* whatever order, at most one tracked mutable reference is accessible, so    *)
(* the assertion and the unsigned subtraction in has_accessible never fail,   *)
(* and while one is accessible no shared reference is tracked.                *)
Exclusive ==
  /\ ~AccessibleCountPanics(counters)
  /\ HasAccessible(counters) => counters.shared = 0

(* The poisoning branches of decrement_shared and decrement_mut, which        *)
(* borrow_state.rs:18-20 says should never happen, are unreachable: only a    *)
(* caller poisons the state.                                                   *)
NeverPoisonsItself == counters.poisoned => external
==============================================================================
