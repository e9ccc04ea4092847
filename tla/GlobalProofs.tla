----------------------------- MODULE GlobalProofs -----------------------------
(* For any number of threads and of panics: a GlobalGuard is alone and points *)
(* to an initialized value, and a global is initialized once.                  *)
EXTENDS Global, TLAPS

(* The mutex, of which init_fn is a part of the critical section.             *)
OwnerIsUnique == \A t, u \in Threads : pc[t] \in Owning /\ pc[u] \in Owning => t = u

(* GuardsAreSound needs to know about the threads on the way to a guard:      *)
(* init_fn runs only while there is no value, and one thread at a time.       *)
OwnerSeesCell ==
  \A t \in Threads : /\ pc[t] = "holding" => filled /\ ResultIsTrue(t)
                     /\ pc[t] \in {"initLock", "initTry"} => ~filled

IInv == TypeOK /\ OwnerIsUnique /\ OwnerSeesCell /\ InitializedOnce

LEMMA InitIInv == Init => IInv
<1> SUFFICES ASSUME Init PROVE IInv
  OBVIOUS
<1>1. TypeOK
  <2>1. {filled, poisoned} \subseteq BOOLEAN
    BY DEF Init
  <2>2. /\ pc \in [Threads -> {"idle"} \cup Owning]
        /\ outcome \in [Threads -> {"none", "ok", "WouldBlock", "Poisoned", "InitFailed", "panic"}]
    BY DEF Init
  <2>3. inits \in 0 .. 1 /\ panics \in 0 .. MaxPanics
    BY GlobalAssumption DEF Init
  <2>4. QED
    BY <2>1, <2>2, <2>3 DEF TypeOK
<1>2. OwnerIsUnique /\ OwnerSeesCell /\ InitializedOnce
  BY DEF Init, OwnerIsUnique, OwnerSeesCell, InitializedOnce, Owning
<1>3. QED
  BY <1>1, <1>2 DEF IInv

LEMMA NextTypeOK == IInv /\ [Next]_vars => TypeOK'
<1> SUFFICES ASSUME IInv, [Next]_vars PROVE TypeOK'
  OBVIOUS
<1> USE GlobalAssumption DEF IInv, TypeOK, Owning, Goto, Return, Unchanged
<1>1. ASSUME NEW t \in Threads, Lock(t) PROVE TypeOK'
  BY <1>1 DEF Lock
<1>2. ASSUME NEW t \in Threads, TryLock(t) PROVE TypeOK'
  BY <1>2 DEF TryLock, TryLockResult
<1>3. ASSUME NEW t \in Threads, InitReturns(t) PROVE TypeOK'
  BY <1>3 DEF InitReturns, TryLockResult, InitializedOnce, OwnerSeesCell
<1>4. ASSUME NEW t \in Threads, InitPanics(t) PROVE TypeOK'
  BY <1>4 DEF InitPanics
<1>5. ASSUME NEW t \in Threads, DropGuard(t) PROVE TypeOK'
  BY <1>5 DEF DropGuard
<1>6. ASSUME NEW t \in Threads, PanicHoldingGuard(t) PROVE TypeOK'
  BY <1>6 DEF PanicHoldingGuard
<1>7. CASE UNCHANGED vars
  BY <1>7 DEF vars
<1>8. QED
  BY <1>1, <1>2, <1>3, <1>4, <1>5, <1>6, <1>7 DEF Next

LEMMA NextIInv == IInv /\ [Next]_vars => IInv'
<1> SUFFICES ASSUME IInv, [Next]_vars PROVE IInv'
  OBVIOUS
<1>t. TypeOK'
  BY NextTypeOK
<1> DEFINE Rest == OwnerIsUnique /\ OwnerSeesCell /\ InitializedOnce
<1> USE DEF IInv, TypeOK, OwnerIsUnique, OwnerSeesCell, InitializedOnce, Owning,
            Goto, Return, Unchanged, ResultIsTrue, TryLockResult
<1>1. ASSUME NEW t \in Threads, Lock(t) PROVE Rest'
  BY <1>1 DEF Lock, Free
<1>2. ASSUME NEW t \in Threads, TryLock(t) PROVE Rest'
  BY <1>2 DEF TryLock, Free
<1>3. ASSUME NEW t \in Threads, InitReturns(t) PROVE Rest'
  BY <1>3 DEF InitReturns
<1>4. ASSUME NEW t \in Threads, InitPanics(t) PROVE Rest'
  BY <1>4 DEF InitPanics
<1>5. ASSUME NEW t \in Threads, DropGuard(t) PROVE Rest'
  BY <1>5 DEF DropGuard
<1>6. ASSUME NEW t \in Threads, PanicHoldingGuard(t) PROVE Rest'
  BY <1>6 DEF PanicHoldingGuard
<1>7. CASE UNCHANGED vars
  BY <1>7 DEF vars
<1>8. QED
  BY <1>t, <1>1, <1>2, <1>3, <1>4, <1>5, <1>6, <1>7 DEF Next

LEMMA SpecIInv == Spec => []IInv
  BY InitIInv, NextIInv, PTL DEF Spec

(* The state of a global is well typed, whatever panics.                      *)
THEOREM SpecTypeOK == Spec => []TypeOK
<1>1. IInv => TypeOK
  BY DEF IInv
<1>2. QED
  BY SpecIInv, <1>1, PTL

(* After any sequence of calls of lock and try_lock, by any number of         *)
(* threads, and of panics in init_fn or next to a guard, the unchecked reads  *)
(* of GlobalGuard are justified.                                               *)
THEOREM SpecGuardsAreSound == Spec => []GuardsAreSound
<1>1. IInv => GuardsAreSound
  BY DEF IInv, GuardsAreSound, OwnerIsUnique, OwnerSeesCell, Owning
<1>2. QED
  BY SpecIInv, <1>1, PTL

(* init_fn returns exactly once for a global that has a value, however often  *)
(* it panicked before.                                                         *)
THEOREM SpecInitializedOnce == Spec => []InitializedOnce
<1>1. IInv => InitializedOnce
  BY DEF IInv
<1>2. QED
  BY SpecIInv, <1>1, PTL
==============================================================================
