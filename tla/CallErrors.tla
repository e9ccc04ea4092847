----------------------------- MODULE CallErrors -----------------------------
(* Calls between the engine and Rust on one thread, and the thread-local      *)
(* state they share: the slot for the last call error, the depth of out-calls *)
(* and the stack of panic contexts (godot-core/src/private.rs), with the      *)
(* check of an out-call's result (meta/error/call_error.rs).                  *)
EXTENDS Naturals, Sequences, FiniteSets, SequencesExt

CONSTANT MaxDepth    \* bound: nested calls

ASSUME DepthAssumption == MaxDepth \in Nat

VARIABLES stack,     \* the frames, innermost last
          outDepth,  \* OUT_CALL_DEPTH
          contexts,  \* ERROR_CONTEXT_STACK: depths of the frames its closures live in
          slot,      \* LAST_CALL_ERROR
          report     \* what the last step reported to a Rust caller

vars == <<stack, outDepth, contexts, slot, report>>

(* Inbound frames: a #[func] called by varcall or by ptrcall, and a callback  *)
(* that only catches panics (a constructor, a poll).  Outbound: a varcall     *)
(* whose arguments are converted, one that waits for the engine, and a        *)
(* ptrcall, which neither silences nor takes errors.                          *)
Func == {"varcall", "ptrcall"}
Inbound == Func \cup {"callback"}
Guarded == {"converting", "outVarcall"}
Frames == Inbound \cup Guarded \cup {"outPtrcall"}

Depths == 1..MaxDepth
DepthsOf(kinds) == {d \in DOMAIN stack : stack[d] \in kinds}
Guards == DepthsOf(Guarded)    \* the live OutCallGuards

(* An error: the guarded calls in progress when it was raised that still      *)
(* are, and whether it reached the console.                                   *)
NoError == [under |-> {}, printed |-> TRUE, set |-> FALSE]
Error(printed) == [under |-> Guards, printed |-> printed, set |-> TRUE]
NoReport == [source |-> NoError, own |-> TRUE]

Top == IF stack = <<>> THEN "engine" ELSE Last(stack)
EngineRuns == Top \in {"engine", "outVarcall", "outPtrcall"}
RustRuns == Top \in Inbound

Push(frame) == Len(stack) < MaxDepth /\ stack' = Append(stack, frame)

Init ==
  /\ stack = <<>> /\ outDepth = 0 /\ contexts = <<>>
  /\ slot = NoError /\ report = NoReport

(* handle_panic: an inbound call, or a boundary that Rust code sets up.       *)
Enter(frame) ==
  /\ EngineRuns \/ (RustRuns /\ frame = "callback")
  /\ Push(frame)
  /\ contexts' = Append(contexts, Len(stack) + 1)
  /\ report' = NoReport
  /\ UNCHANGED <<outDepth, slot>>

(* The end of catch_unwind, whatever its outcome.                             *)
PopContext == contexts' = Front(contexts)

Return ==
  /\ RustRuns
  /\ stack' = Front(stack) /\ PopContext
  /\ report' = NoReport
  /\ UNCHANGED <<outDepth, slot>>

(* The call error of a #[func] that returned Err: printed unless some guard   *)
(* is live, then stored.                                                      *)
Printed_ifOutermost == Len(stack) <= 1
Printed == outDepth = 0

Fail ==
  /\ Top \in Func
  /\ stack' = Front(stack) /\ PopContext
  /\ slot' = Error(Printed)
  /\ report' = NoReport
  /\ UNCHANGED outDepth

(* A panic: the hook prints it.  It becomes a call error if it ends a         *)
(* #[func]; a callback's caller gets the payload instead.                     *)
CatchPanic(frame) ==
  /\ PopContext
  /\ slot' = IF frame \in Func
             THEN [Error(TRUE) EXCEPT !.under = @ \ {Len(stack)}]
             ELSE slot
  /\ report' = NoReport

Panic ==
  /\ RustRuns
  /\ stack' = Front(stack) /\ CatchPanic(Top)
  /\ UNCHANGED outDepth

(* out_class_varcall: the guard, then the conversion of the arguments (which  *)
(* may panic, but calls nobody), then the engine.                             *)
OutVarcall ==
  /\ RustRuns
  /\ Push("converting")
  /\ outDepth' = outDepth + 1
  /\ report' = NoReport
  /\ UNCHANGED <<contexts, slot>>

EnterEngine ==
  /\ Top = "converting"
  /\ stack' = Append(Front(stack), "outVarcall")
  /\ report' = NoReport
  /\ UNCHANGED <<outDepth, contexts, slot>>

(* The guard is dropped while the panic unwinds to the caller's boundary.     *)
DropGuard_unlessUnwinding(unwinding) ==
  outDepth' = IF unwinding THEN outDepth ELSE outDepth - 1
DropGuard(unwinding) == outDepth' = outDepth - 1

ConversionPanics ==
  /\ Top = "converting"
  /\ DropGuard(TRUE)
  /\ stack' = Front(Front(stack))
  /\ CatchPanic(Last(Front(stack)))

(* check_out_varcall takes the stored error whatever the engine's status, and *)
(* makes it the source of the reported error if the status is not OK.         *)
TakeError_ifFailed(ok) == slot' = IF ok THEN slot ELSE NoError
TakeError(ok) == slot' = NoError

OutVarcallReturns(ok) ==
  /\ Top = "outVarcall"
  /\ DropGuard(FALSE)
  /\ stack' = Front(stack)
  /\ TakeError(ok)
  /\ report' = IF ok \/ ~slot.set THEN NoReport
               ELSE [source |-> slot, own |-> Len(stack) \in slot.under]
  /\ UNCHANGED contexts

(* out_class_ptrcall and the other out-calls without guard.                   *)
OutPtrcall ==
  /\ RustRuns
  /\ Push("outPtrcall")
  /\ report' = NoReport
  /\ UNCHANGED <<outDepth, contexts, slot>>

OutPtrcallReturns ==
  /\ Top = "outPtrcall"
  /\ stack' = Front(stack)
  /\ report' = NoReport
  /\ UNCHANGED <<outDepth, contexts, slot>>

Next ==
  \/ \E frame \in Inbound : Enter(frame)
  \/ Return \/ Fail \/ Panic
  \/ OutVarcall \/ EnterEngine \/ ConversionPanics
  \/ \E ok \in BOOLEAN : OutVarcallReturns(ok)
  \/ OutPtrcall \/ OutPtrcallReturns

Spec == Init /\ [][Next]_vars
-----------------------------------------------------------------------------
Errors == [under : SUBSET Depths, printed : BOOLEAN, set : BOOLEAN]

(* Every variable has its type: the depth counter stays within the bound on   *)
(* nested calls, and a stored error only names calls still in progress.       *)
TypeOK ==
  /\ stack \in Seq(Frames) /\ Len(stack) <= MaxDepth
  /\ outDepth \in 0..MaxDepth
  /\ contexts \in Seq(Depths)
  /\ slot \in Errors /\ slot.under \subseteq Guards
  /\ report \in [source : Errors, own : BOOLEAN]

(* OUT_CALL_DEPTH is zero exactly when no out-call is in progress on this     *)
(* thread, whatever panicked: were it to stay up, every later error of a      *)
(* #[func] would be silenced for the rest of the thread.                      *)
DepthCountsGuards == outDepth = Cardinality(Guards)

(* The context stack points to the closures of exactly the boundaries on the  *)
(* call stack, in their order: the panic hook never calls a closure of a      *)
(* frame that is gone, and it names the function that panicked.               *)
ContextsAreLive ==
  /\ \A i \in DOMAIN contexts : contexts[i] \in DepthsOf(Inbound)
  /\ \A i, j \in DOMAIN contexts : i < j => contexts[i] < contexts[j]
  /\ Len(contexts) = Cardinality(DepthsOf(Inbound))

(* Both thread-locals are what the call stack says, whatever panics where.     *)
TlsMatchesStack == DepthCountsGuards /\ ContextsAreLive

(* An error that was not printed is still under an out-call that will take    *)
(* it: silencing never outlives the caller in whose favour it was done.       *)
SilencedErrorIsPending == slot.printed \/ slot.under # {}

(* What a test says of check_out_varcall: an error stored by an earlier call  *)
(* is never given to a later one as its source.                               *)
SourceIsOwn == report.own
=============================================================================
