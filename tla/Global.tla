-------------------------------- MODULE Global --------------------------------
(* The lazily initialized global variable of godot-ffi/src/global.rs: a mutex  *)
(* around a OnceCell, taken by lock or try_lock of any thread.  The           *)
(* initialization function runs under the mutex and may panic, and so may the *)
(* code that holds a guard; the panics are caught further up.                 *)
EXTENDS Naturals

CONSTANTS Threads, MaxPanics    \* bound: panics

ASSUME GlobalAssumption == MaxPanics \in Nat

VARIABLES filled,    \* the OnceCell has a value
          poisoned,  \* the mutex is poisoned
          pc,        \* what each thread does
          outcome,   \* what each thread's last call returned
          inits,     \* history: completed calls of init_fn
          panics     \* history: panics of any kind

vars == <<filled, poisoned, pc, outcome, inits, panics>>

(* lock and try_lock inside init_fn, or with a guard in hand.  Definitions    *)
(* X_y are faulty versions of X, to show that a property notices the fault.   *)
Owning == {"initLock", "initTry", "holding"}
Free_duringInit == \A t \in Threads : pc[t] # "holding"
Free == \A t \in Threads : pc[t] \notin Owning

Init ==
  /\ filled = FALSE /\ poisoned = FALSE
  /\ pc = [t \in Threads |-> "idle"]
  /\ outcome = [t \in Threads |-> "none"]
  /\ inits = 0 /\ panics = 0

Goto(t, to) == pc' = [pc EXCEPT ![t] = to]
Return(t, result) == outcome' = [outcome EXCEPT ![t] = result]
Unchanged == UNCHANGED <<filled, inits, panics>>

(* lock: waits for the mutex, and takes it even if it is poisoned.            *)
Lock(t) ==
  /\ pc[t] = "idle" /\ Free
  /\ IF filled THEN Goto(t, "holding") /\ Return(t, "ok")
     ELSE Goto(t, "initLock") /\ Return(t, "none")
  /\ Unchanged /\ UNCHANGED poisoned

(* try_lock: what a poisoned mutex gives is handed out as an error.           *)
TryLockResult == IF poisoned THEN "Poisoned" ELSE "ok"

TryLock(t) ==
  /\ pc[t] = "idle"
  /\ \/ ~Free /\ Return(t, "WouldBlock") /\ UNCHANGED pc
     \/ Free /\ filled /\ Goto(t, "holding") /\ Return(t, TryLockResult)
     \/ Free /\ ~filled /\ Goto(t, "initTry") /\ Return(t, "none")
  /\ Unchanged /\ UNCHANGED poisoned

(* OnceCell::get_or_init stores the value if init_fn returns.                 *)
InitReturns(t) ==
  /\ pc[t] \in {"initLock", "initTry"}
  /\ filled' = TRUE /\ inits' = inits + 1
  /\ Goto(t, "holding")
  /\ Return(t, IF pc[t] = "initLock" THEN "ok" ELSE TryLockResult)
  /\ UNCHANGED <<poisoned, panics>>

(* In lock the panic unwinds through the guard; try_lock catches it first.    *)
InitPanics_errIgnored(t) ==
  /\ pc[t] = "initTry" /\ panics < MaxPanics
  /\ panics' = panics + 1
  /\ Return(t, TryLockResult) /\ Goto(t, "holding")
  /\ UNCHANGED <<filled, poisoned, inits>>

InitPanics(t) ==
  /\ pc[t] \in {"initLock", "initTry"} /\ panics < MaxPanics
  /\ panics' = panics + 1
  /\ poisoned' = (poisoned \/ pc[t] = "initLock")
  /\ Return(t, IF pc[t] = "initLock" THEN "panic" ELSE "InitFailed")
  /\ Goto(t, "idle")
  /\ UNCHANGED <<filled, inits>>

DropGuard(t) ==
  /\ pc[t] = "holding"
  /\ Goto(t, "idle")
  /\ Unchanged /\ UNCHANGED <<poisoned, outcome>>

PanicHoldingGuard(t) ==
  /\ pc[t] = "holding" /\ panics < MaxPanics
  /\ panics' = panics + 1 /\ poisoned' = TRUE
  /\ Goto(t, "idle")
  /\ UNCHANGED <<filled, outcome, inits>>

Next == \E t \in Threads : \/ Lock(t) \/ TryLock(t) \/ InitReturns(t) \/ InitPanics(t)
                           \/ DropGuard(t) \/ PanicHoldingGuard(t)

Spec == Init /\ [][Next]_vars
------------------------------------------------------------------------------
TypeOK ==
  /\ {filled, poisoned} \subseteq BOOLEAN
  /\ pc \in [Threads -> {"idle"} \cup Owning]
  /\ outcome \in [Threads -> {"none", "ok", "WouldBlock", "Poisoned", "InitFailed", "panic"}]
  /\ inits \in 0 .. 1 /\ panics \in 0 .. MaxPanics

(* GlobalGuard reads the cell unchecked (global.rs:132-135, 142-143): after   *)
(* any sequence of panics, whoever has a guard has it alone, and to a value.  *)
(* It was told so, or that somebody panicked with the mutex.                   *)
ResultIsTrue(t) ==
  outcome[t] \in {"ok", "Poisoned"} /\ (outcome[t] = "Poisoned" => poisoned)

GuardsAreSound ==
  \A t \in Threads : pc[t] = "holding" =>
    /\ filled /\ ResultIsTrue(t)
    /\ \A u \in Threads \ {t} : pc[u] \notin Owning

(* The value in a global is never replaced by a second initialization.        *)
InitializedOnce == inits = (IF filled THEN 1 ELSE 0)
==============================================================================
