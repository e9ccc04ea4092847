----------------------------- MODULE ObjectLife -----------------------------
(* The life of extension objects on the main thread, before Godot 4.7: their  *)
(* construction in two parts (registry/callbacks.rs), the surplus reference   *)
(* of Base::to_init_gd and its deferred release (base_weak_initialization.rs  *)
(* in obj/), Gd's reference counting and free (obj/raw_gd.rs, bounds.rs and   *)
(* gd.rs), and the destruction of the instance storage (instance_storage.rs   *)
(* in storage/), at the balanced and strict safeguard levels.                 *)
EXTENDS Integers, Sequences, FiniteSets, SequencesExt, Functions

CONSTANTS Objects,
          Manuals,     \* the choices of the objects without reference count
          MaxFrames,   \* bound: nested calls
          MaxRefs,     \* bound: Gds of one object before one more is made
          MaxInitGds   \* bound: deferred calls of drop_strong_ref

ASSUME ObjectLifeAssumption ==
  /\ Manuals \subseteq SUBSET Objects
  /\ MaxFrames \in Nat /\ MaxRefs \in Nat /\ MaxInitGds \in Nat

VARIABLES stack,      \* the calls in progress, innermost last
          panicking,  \* a panic unwinds the innermost frame
          crash,      \* how the process died
          manual,     \* the objects that are not reference-counted
          life,       \* the two parts of each object
          freed,      \* history: what destroyed each object
          count,      \* reference count, and whether its initial value
          unclaimed,  \*   is still to be claimed by the first init_ref
          gds,        \* strong Gds to each object in user code
          engine,     \* references the engine holds
          pending,    \* keys of PENDING_STRONG_REFS
          deferred    \* deferred calls of drop_strong_ref, by instance

refs == <<count, unclaimed, gds, engine, pending, deferred>>
vars == <<stack, panicking, crash, manual, life, freed, refs>>

(* init: the user's constructor; postinit: the notification after it; method: *)
(* a call or scope that binds the object, from the engine or through a Gd     *)
(* that outlives it; drop: the user's destructor; unref: drop_strong_ref,     *)
(* with PENDING_STRONG_REFS borrowed.                                         *)
Callers == {"rust", "engine"}
Frame(kind, o, by) == [kind |-> kind, obj |-> o, by |-> by]
Frames == [kind : {"init", "postinit", "method", "drop", "unref"},
           obj : Objects, by : Callers]

FramesOf(kinds, o) ==
  {i \in DOMAIN stack : stack[i].kind \in kinds /\ stack[i].obj = o}
IsBound(o) == FramesOf({"method", "postinit"}, o) # {}
Pins(o) == Cardinality({i \in FramesOf({"method"}, o) : stack[i].by = "rust"})
IsBorrowed == \E i \in DOMAIN stack : stack[i].kind = "unref"

(* base: the Godot part alone; whole: with its storage; dying: the storage is *)
(* being dropped.                                                             *)
IsValid(o) == life[o] \in {"base", "whole"}

Init ==
  /\ stack = <<>> /\ panicking = FALSE /\ crash = "none"
  /\ manual \in Manuals
  /\ life = [o \in Objects |-> "none"] /\ freed = [o \in Objects |-> "no"]
  /\ count = [o \in Objects |-> 0] /\ unclaimed = [o \in Objects |-> FALSE]
  /\ gds = [o \in Objects |-> 0] /\ engine = [o \in Objects |-> 0]
  /\ pending = {} /\ deferred = [o \in Objects |-> 0]

Top == Last(stack)
At(kinds) == stack # <<>> /\ Top.kind \in kinds
UserRuns == crash = "none" /\ ~panicking /\ ~At({"unref"})
Push(s, f) == Len(s) < MaxFrames /\ stack' = Append(s, f)
Panic == panicking' = TRUE
More(f, o) == [f EXCEPT ![o] = @ + 1]
Less(f, o) == [f EXCEPT ![o] = @ - 1]

(* The memory policy of the object's class, Memory::IS_REF_COUNTED.           *)
IsRefCounted_always(o) == TRUE
IsRefCounted(o) == o \notin manual

(* RefCounted::init_ref: the first call takes over the initial count.         *)
InitRef_neverCounts(o) ==
  count' = count /\ unclaimed' = [unclaimed EXCEPT ![o] = FALSE]
InitRef(o) ==
  IF ~IsRefCounted(o) THEN UNCHANGED <<count, unclaimed>>
  ELSE /\ count' = IF unclaimed[o] THEN count ELSE More(count, o)
       /\ unclaimed' = [unclaimed EXCEPT ![o] = FALSE]

(* object_destroy, and the free callback with destroy_storage: a bound        *)
(* object ends the process, any other is dropped above the frames s.          *)
StorageInUse_never(o) == FALSE
StorageInUse(o) == IsBound(o)

Destroy(o, s, why) ==
  /\ freed' = [freed EXCEPT ![o] = why]
  /\ IF life[o] = "whole" /\ StorageInUse(o)
     THEN crash' = "bound" /\ stack' = s /\ UNCHANGED life
     ELSE /\ IF life[o] = "whole"
             THEN /\ life' = [life EXCEPT ![o] = "dying"]
                  /\ Push(s, Frame("drop", o, "engine"))
             ELSE life' = [life EXCEPT ![o] = "dead"] /\ stack' = s
          /\ UNCHANGED crash

(* object_destroy on an object that is gone is undefined: here, it ends the   *)
(* process.                                                                   *)
DestroyAgain == crash' = "twice"

(* RawGd::drop: decrement, and destroy if that was the last reference.        *)
ReleaseRef(o, s) ==
  /\ count' = Less(count, o)
  /\ IF count[o] = 1 THEN Destroy(o, s, "unref")
     ELSE stack' = s /\ UNCHANGED <<life, freed, crash>>

(* create_custom: the Godot part, then the user's constructor on it.          *)
Construct(o, by) ==
  /\ UserRuns /\ life[o] = "none"
  /\ life' = [life EXCEPT ![o] = "base"]
  /\ IF ~IsRefCounted(o) THEN UNCHANGED <<count, unclaimed>>
     ELSE /\ count' = [count EXCEPT ![o] = 1]
          /\ unclaimed' = [unclaimed EXCEPT ![o] = TRUE]
  /\ Push(stack, Frame("init", o, by))
  /\ UNCHANGED <<panicking, crash, manual, freed, gds, engine, pending,
                 deferred>>

(* to_init_gd, in a constructor or notification of o: the first call stores a *)
(* surplus reference, each defers its release and returns another reference.  *)
StoresSurplus_never(o) == FALSE
StoresSurplus(o) == o \notin pending
Defers_never(o) == FALSE
Defers(o) == TRUE

ToInitGd(o) ==
  /\ UserRuns /\ At({"init", "postinit"}) /\ Top.obj = o /\ IsValid(o)
  /\ gds[o] < MaxRefs /\ SumFunction(deferred) < MaxInitGds
  /\ IF IsBorrowed /\ IsRefCounted(o)
     THEN Panic /\ UNCHANGED refs
     ELSE /\ gds' = More(gds, o)
          /\ IF ~IsRefCounted(o) THEN UNCHANGED <<count, unclaimed, pending, deferred>>
             ELSE /\ IF StoresSurplus(o)
                     THEN /\ pending' = pending \cup {o}
                          /\ count' = [count EXCEPT ![o] = IF unclaimed[o] THEN @ + 1 ELSE @ + 2]
                          /\ unclaimed' = [unclaimed EXCEPT ![o] = FALSE]
                     ELSE InitRef(o) /\ UNCHANGED pending
                  /\ deferred' = IF Defers(o) THEN More(deferred, o) ELSE deferred
          /\ UNCHANGED <<panicking, engine>>
  /\ UNCHANGED <<stack, crash, manual, life, freed>>

(* The constructor returns: the storage is built, unless the base object was  *)
(* freed meanwhile, an assertion outside of handle_panic.                     *)
InitReturns ==
  /\ UserRuns /\ At({"init"})
  /\ IF IsValid(Top.obj)
     THEN /\ life' = [life EXCEPT ![Top.obj] = "whole"]
          /\ stack' = Append(Front(stack), Frame("postinit", Top.obj, Top.by))
          /\ UNCHANGED <<panicking, crash>>
     ELSE /\ stack' = Front(stack)
          /\ IF Top.by = "rust" THEN Panic /\ UNCHANGED crash
             ELSE crash' = "unwound" /\ UNCHANGED panicking
          /\ UNCHANGED life
  /\ UNCHANGED <<manual, freed, refs>>

(* mark_initialized, and the first ordinary reference.                        *)
PostinitReturns ==
  /\ UserRuns /\ At({"postinit"})
  /\ InitRef(Top.obj)
  /\ IF Top.by = "rust" THEN gds' = More(gds, Top.obj) /\ UNCHANGED engine
     ELSE engine' = More(engine, Top.obj) /\ UNCHANGED gds
  /\ stack' = Front(stack)
  /\ UNCHANGED <<panicking, crash, manual, life, freed, pending, deferred>>

(* One more Gd: a clone, an argument from the engine (from_arg_ptr), or       *)
(* to_gd in a method of the object.                                           *)
CloneGd(o) ==
  /\ UserRuns /\ IsValid(o) /\ gds[o] <= MaxRefs
  /\ gds[o] + engine[o] > 0 \/ FramesOf({"method"}, o) # {}
  /\ gds' = More(gds, o) /\ InitRef(o)
  /\ UNCHANGED <<stack, panicking, crash, manual, life, freed, engine, pending,
                 deferred>>

(* The panic of a Gd that outlived its object leaves the destructor.          *)
(* Dropping a Gd of a manual object does nothing.                             *)
DropGd(o) ==
  /\ UserRuns /\ gds[o] > Pins(o)
  /\ gds' = Less(gds, o)
  /\ IF ~IsRefCounted(o) THEN UNCHANGED <<stack, panicking, crash, life, freed, count>>
     ELSE IF IsValid(o) THEN ReleaseRef(o, stack) /\ UNCHANGED panicking
     ELSE Panic /\ UNCHANGED <<stack, crash, life, freed, count>>
  /\ UNCHANGED <<manual, unclaimed, engine, pending, deferred>>

(* The engine takes a reference from a Gd that it is given, and drops it.     *)
EngineRef(o) ==
  /\ UserRuns /\ IsValid(o) /\ gds[o] > 0 /\ engine[o] = 0
  /\ engine' = More(engine, o) /\ InitRef(o)
  /\ UNCHANGED <<stack, panicking, crash, manual, life, freed, gds, pending,
                 deferred>>

EngineUnref(o) ==
  /\ UserRuns /\ engine[o] > 0
  /\ engine' = Less(engine, o)
  /\ IF ~IsRefCounted(o) \/ ~IsValid(o)
     THEN UNCHANGED <<stack, crash, life, freed, count>>
     ELSE ReleaseRef(o, stack)
  /\ UNCHANGED <<panicking, manual, unclaimed, gds, pending, deferred>>

(* The engine deletes an object: a manual one at any time, a counted one that *)
(* it made itself and gave to nobody (the editor, for class defaults).        *)
EngineDeletes(o) ==
  /\ UserRuns /\ life[o] = "whole" /\ FramesOf({"postinit"}, o) = {}
  /\ o \in manual \/ (engine[o] = 1 /\ gds[o] = 0 /\ ~IsBound(o))
  /\ engine' = [engine EXCEPT ![o] = 0]
  /\ Destroy(o, stack, "engine")
  /\ UNCHANGED <<panicking, manual, count, unclaimed, gds, pending, deferred>>

(* Gd::free, through the class itself or through an engine class it was       *)
(* upcast to, for which is_currently_bound is constantly false.  In the       *)
(* destructor of the object, the engine may or may not say that it is valid:  *)
(* free panics, or destroys it once more.                                     *)
SeesBound(o, upcast) == ~upcast /\ IsBound(o)

FreeGd(o, upcast) ==
  /\ UserRuns /\ ~IsRefCounted(o) /\ gds[o] > Pins(o)
  /\ upcast \/ life[o] # "base"
  /\ gds' = Less(gds, o)
  /\ IF IsValid(o) /\ ~SeesBound(o, upcast)
     THEN /\ Destroy(o, stack, IF upcast THEN "upcast" ELSE "free")
          /\ UNCHANGED panicking
     ELSE Panic /\ UNCHANGED <<stack, crash, life, freed>>
  /\ UNCHANGED <<manual, count, unclaimed, engine, pending, deferred>>

FreeDying(o) ==
  /\ UserRuns /\ ~IsRefCounted(o) /\ gds[o] > Pins(o) /\ life[o] = "dying"
  /\ DestroyAgain
  /\ UNCHANGED <<stack, panicking, manual, life, freed, refs>>

(* The object is bound for the length of a call: by Rust through a Gd, or by  *)
(* the engine, which need not hold a reference until the call returns.        *)
Call(o, by) ==
  /\ UserRuns /\ life[o] = "whole"
  /\ IF by = "rust" THEN gds[o] > Pins(o) ELSE gds[o] + engine[o] > 0
  /\ Push(stack, Frame("method", o, by))
  /\ UNCHANGED <<panicking, crash, manual, life, freed, refs>>

CallReturns ==
  /\ UserRuns /\ At({"method"})
  /\ stack' = Front(stack)
  /\ UNCHANGED <<panicking, crash, manual, life, freed, refs>>

DropReturns ==
  /\ UserRuns /\ At({"drop"})
  /\ life' = [life EXCEPT ![Top.obj] = "dead"]
  /\ stack' = IF Len(stack) > 1 /\ stack[Len(stack) - 1].kind = "unref"
              THEN Front(Front(stack)) ELSE Front(stack)
  /\ UNCHANGED <<panicking, crash, manual, freed, refs>>

(* The engine runs a deferred call of drop_strong_ref while nothing else      *)
(* runs: a destructor it leads to runs inside it.                             *)
RunDeferred(o) ==
  /\ UserRuns /\ stack = <<>> /\ deferred[o] > 0
  /\ deferred' = Less(deferred, o) /\ pending' = pending \ {o}
  /\ IF o \in pending /\ IsValid(o)
     THEN ReleaseRef(o, IF count[o] = 1 /\ life[o] = "whole"
                        THEN <<Frame("unref", o, "engine")>> ELSE <<>>)
     ELSE UNCHANGED <<stack, count, life, freed, crash>>
  /\ UNCHANGED <<panicking, manual, unclaimed, gds, engine>>

(* User code panics in a constructor or a method.                             *)
UserPanics ==
  /\ UserRuns /\ At({"init", "method"})
  /\ Panic
  /\ UNCHANGED <<stack, crash, manual, life, freed, refs>>

(* A panic unwinds one frame.  A constructor's is caught, the base destroyed, *)
(* even if it was freed already, and the panic resumed for a caller in Rust;  *)
(* a method's is caught if the engine called it.  The callbacks for           *)
(* notification and free cannot unwind.                                       *)
Unwind ==
  /\ crash = "none" /\ panicking
  /\ IF stack = <<>> THEN panicking' = FALSE /\ UNCHANGED <<stack, crash, life, freed>>
     ELSE IF Top.kind \in {"postinit", "drop"}
     THEN crash' = "unwound" /\ UNCHANGED <<stack, panicking, life, freed>>
     ELSE /\ panicking' = (Top.by = "rust")
          /\ IF Top.kind = "init"
             THEN IF IsValid(Top.obj) THEN Destroy(Top.obj, Front(stack), "init")
                  ELSE DestroyAgain /\ stack' = Front(stack) /\ UNCHANGED <<life, freed>>
             ELSE stack' = Front(stack) /\ UNCHANGED <<crash, life, freed>>
  /\ UNCHANGED <<manual, refs>>

Next ==
  \/ \E o \in Objects, by \in Callers : Construct(o, by) \/ Call(o, by)
  \/ \E o \in Objects : \/ ToInitGd(o) \/ CloneGd(o) \/ DropGd(o) \/ FreeDying(o)
                        \/ EngineRef(o) \/ EngineUnref(o) \/ EngineDeletes(o)
                        \/ RunDeferred(o)
  \/ \E o \in Objects, upcast \in BOOLEAN : FreeGd(o, upcast)
  \/ InitReturns \/ PostinitReturns \/ CallReturns \/ DropReturns
  \/ UserPanics \/ Unwind

Spec == Init /\ [][Next]_vars

(* The engine runs its deferred calls whenever it is idle.                    *)
FairSpec == Spec /\ \A o \in Objects : SF_vars(RunDeferred(o))
-----------------------------------------------------------------------------
Counted == Objects \ manual

(* Every variable has its type; in particular no object has more references   *)
(* from Rust than the code handed out.                                        *)
TypeOK ==
  /\ stack \in Seq(Frames) /\ Len(stack) <= MaxFrames
  /\ panicking \in BOOLEAN /\ crash \in {"none", "bound", "unwound", "twice"}
  /\ manual \subseteq Objects /\ pending \subseteq Counted
  /\ life \in [Objects -> {"none", "base", "whole", "dying", "dead"}]
  /\ freed \in [Objects -> {"no", "unref", "init", "engine", "free", "upcast"}]
  /\ count \in [Objects -> Nat] /\ unclaimed \in [Objects -> BOOLEAN]
  /\ gds \in [Objects -> 0..(MaxRefs + 2)] /\ engine \in [Objects -> 0..2]
  /\ deferred \in [Objects -> Nat]

One(b) == IF b THEN 1 ELSE 0

(* The reference count of an object is the number of references to it: those  *)
(* of user code and engine, the surplus one of to_init_gd, and the one that   *)
(* construction leaves to the first to claim it.                              *)
CountMatchesRefs ==
  \A o \in Counted : IsValid(o) /\ crash = "none" =>
    count[o] = gds[o] + engine[o] + One(o \in pending) + One(unclaimed[o])

(* A reference-counted object is not destroyed while its constructor or its   *)
(* first notification runs, whatever these do with the Gds of to_init_gd.     *)
AliveThroughInit ==
  \A o \in Counted : FramesOf({"init", "postinit"}, o) # {} => IsValid(o)

(* A strong Gd to a reference-counted object points to a live one, unless the *)
(* object's constructor panicked after it handed that Gd out.                 *)
StrongGdIsValid ==
  \A o \in Counted : gds[o] > 0 => IsValid(o) \/ freed[o] = "init"

(* Both together: what the code holds through a Gd stays alive, during        *)
(* initialization and after it.                                               *)
StrongRefsKeepAlive == AliveThroughInit /\ StrongGdIsValid

(* An object that a method runs on keeps its storage: destroy_storage never   *)
(* drops a user instance that is referenced.                                  *)
BoundIsWhole == \A o \in Objects : IsBound(o) => life[o] = "whole"

(* destroy_storage ends the process, for an object that is bound, in two      *)
(* cases only: the object is manual, and the engine deletes it or it is freed *)
(* through an upcast Gd; or it is counted, and was called without a Gd that   *)
(* lasts for the call.  A bind() through a Gd protects from all but these.    *)
BoundCrashHasCause ==
  \A o \in Objects : IsBound(o) /\ freed[o] # "no" =>
    \/ o \in manual /\ freed[o] \in {"engine", "upcast"}
    \/ o \in Counted /\ Pins(o) = 0

(* Both together: a method never runs on an object without storage, and the   *)
(* process ends instead only where a bind() does not protect.                 *)
BoundIsSafe == BoundIsWhole /\ BoundCrashHasCause

(* While the main loop keeps becoming idle, an object to which neither user   *)
(* code nor the engine holds a reference is destroyed.                        *)
Reclaimed ==
  \A o \in Objects :
    []<>(stack = <<>> /\ ~panicking) =>
      (life[o] = "whole" /\ o \notin manual /\ gds[o] + engine[o] = 0
         ~> life[o] # "whole" \/ gds[o] + engine[o] > 0 \/ crash # "none")
=============================================================================
