------------------------------- MODULE Library -------------------------------
(* The library in the hands of the engine, on the main thread: it is opened   *)
(* (init/mod.rs), its levels are initialized and deinitialized, its classes   *)
(* registered and unregistered (registry/class.rs), its typed connections     *)
(* disconnected before a reload (obj/signal/), and it is closed and opened    *)
(* again, with its statics either reset or kept.                              *)
EXTENDS Integers, Sequences

CONSTANTS Classes,
          LevelOf,      \* the initialization level of each class
          Singletons,   \* the classes that are engine singletons
          Connections,  \* typed connections, each from an object of its own
          MaxOpens      \* bound: how often the library is opened

Core == 0
Servers == 1
Scene == 2
Editor == 3
Levels == Core..Editor

ASSUME LibraryAssumption ==
  /\ LevelOf \in [Classes -> Levels]
  /\ Singletons \subseteq Classes
  /\ MaxOpens \in Nat

VARIABLES opens,      \* how often the library was opened
          editor,     \* the editor hint
          isOpen,     \* the engine holds the library open,
          up,         \*   has initialized the levels below up,
          falling,    \*   and now deinitializes
          phase,      \* where the library is in a callback
          todo,       \* levels the callback has still to load
          pending,    \* registrations, per class, it has still to do or undo
          coreLoaded, \* LEVEL_SERVERS_CORE_LOADED
          bound,      \* the binding is initialized
          tables,     \* the levels whose method tables are loaded
          loaded,     \* loaded_classes_by_level: entries of each class
          poisoned,   \* the locks of the class registry are
          registered, \* classes the engine knows
          singletons, \* singletons the engine knows
          conn,       \* state of each connection
          stored,     \* SIGNAL_CONNECTIONS_REGISTRY
          mishaps,    \* history: panics, and connections made too late
          twice       \* history: something was initialized twice

engine == <<opens, editor, isOpen, up, falling>>
binding == <<coreLoaded, bound, tables, twice>>
registry == <<loaded, poisoned, registered, singletons>>
signals == <<conn, stored>>
vars == <<engine, phase, todo, pending, binding, registry, signals, mishaps>>

Init ==
  /\ opens = 0 /\ editor \in BOOLEAN /\ isOpen = FALSE /\ up = Core /\ falling = FALSE
  /\ phase = "idle" /\ todo = <<>> /\ pending = [c \in Classes |-> 0]
  /\ coreLoaded = FALSE /\ bound = FALSE /\ tables = {} /\ twice = FALSE
  /\ loaded = [c \in Classes |-> 0] /\ poisoned = FALSE
  /\ registered = {} /\ singletons = {}
  /\ conn = [x \in Connections |-> "none"] /\ stored = {}
  /\ mishaps = {}

NothingPending == \A c \in Classes : pending[c] = 0
At(p) == isOpen /\ phase = p

(* A panic ends the callback, which swallows it.                              *)
Panic(why) ==
  /\ phase' = "idle" /\ todo' = <<>> /\ pending' = [c \in Classes |-> 0]
  /\ mishaps' = mishaps \cup {why} \cup (IF Len(todo) > 1 THEN {"cut_short"} ELSE {})

(* The binding and the class method tables are initialized once: only strict  *)
(* safeguards assert it of the tables, and twice notes it at every level.     *)
InitializeBinding == twice' = (twice \/ bound) /\ bound' = TRUE
DeinitializeBinding == bound' = FALSE /\ tables' = {}
LoadClassMethodTable(l) ==
  twice' = (twice \/ l \in tables) /\ tables' = tables \cup {l}

(* __gdext_load_library.                                                      *)
Open ==
  /\ ~isOpen /\ opens < MaxOpens /\ ~twice
  /\ opens' = opens + 1 /\ isOpen' = TRUE /\ up' = Core /\ falling' = FALSE
  /\ InitializeBinding
  /\ UNCHANGED <<editor, phase, todo, pending, coreLoaded, tables, registry,
                 signals, mishaps>>

(* The engine closes the library, whose statics survive if it stays mapped.   *)
Close(keepsStatics) ==
  /\ At("idle") /\ todo = <<>> /\ falling /\ up = Core
  /\ isOpen' = FALSE
  /\ IF keepsStatics THEN UNCHANGED <<binding, loaded, poisoned, stored>>
     ELSE /\ coreLoaded' = FALSE /\ bound' = FALSE /\ tables' = {}
          /\ loaded' = [c \in Classes |-> 0] /\ poisoned' = FALSE
          /\ stored' = {} /\ UNCHANGED twice
  /\ UNCHANGED <<opens, editor, up, falling, phase, todo, pending, registered,
                 singletons, conn, mishaps>>

(* ffi_initialize_layer: the engine starts at Core, or at Scene after an      *)
(* unload of all levels; then the library loads the levels below by hand.     *)
LowerLevels_never == <<>>
LowerLevels_always == <<Core, Servers>>
LowerLevels == IF coreLoaded THEN <<>> ELSE <<Core, Servers>>

InitializeLayer(l) ==
  /\ At("idle") /\ todo = <<>> /\ ~falling /\ ~twice
  /\ l = up \/ (up = Core /\ l = Scene)
  /\ l = Editor => editor
  /\ up' = l + 1
  /\ todo' = IF l = Scene THEN Append(LowerLevels, Scene) ELSE <<l>>
  /\ UNCHANGED <<opens, editor, isOpen, falling, phase, pending, binding,
                 registry, signals, mishaps>>

(* register_classes_and_dyn_traits, before any class is registered.           *)
RegisterLoaded(l) ==
  /\ pending' = [c \in Classes |-> IF LevelOf[c] = l THEN 1 ELSE 0]
  /\ loaded' = [c \in Classes |-> loaded[c] + pending'[c]]

(* gdext_on_level_init up to there; it panics if the engine has another       *)
(* precision, or a class is defined twice.                                    *)
LoadLevel(ok) ==
  /\ At("idle") /\ todo # <<>>
  /\ coreLoaded' = (coreLoaded \/ Head(todo) = Core)
  /\ LoadClassMethodTable(Head(todo))
  /\ IF ok /\ ~poisoned
     THEN /\ RegisterLoaded(Head(todo))
          /\ phase' = "classes"
          /\ UNCHANGED <<todo, mishaps>>
     ELSE Panic(IF ok THEN "poison" ELSE "load") /\ UNCHANGED loaded
  /\ UNCHANGED <<engine, bound, poisoned, registered, singletons, signals>>

(* The rest of auto_register_classes: the classes, which the engine may       *)
(* refuse (after a reload, say, that changed a base class), with the user's   *)
(* own registration code, and then the singletons, which are constructed.     *)
Registers(c, ok) ==
  IF ok THEN pending' = [pending EXCEPT ![c] = 0] /\ UNCHANGED <<phase, todo, mishaps>>
  ELSE Panic("registration")

RegisterClass(c, accepted, ok) ==
  /\ At("classes") /\ pending[c] > 0
  /\ registered' = IF accepted THEN registered \cup {c} ELSE registered \ {c}
  /\ Registers(c, ok)
  /\ UNCHANGED <<engine, binding, loaded, poisoned, singletons, signals>>

SingletonsOf(l) == {c \in Singletons : LevelOf[c] = l}

ClassesRegistered ==
  /\ At("classes") /\ NothingPending
  /\ phase' = "singletons"
  /\ pending' = [c \in Classes |-> IF c \in SingletonsOf(Head(todo)) THEN 1 ELSE 0]
  /\ UNCHANGED <<engine, todo, binding, registry, signals, mishaps>>

RegisterSingleton(c, ok) ==
  /\ At("singletons") /\ pending[c] > 0
  /\ singletons' = IF ok THEN singletons \cup {c} ELSE singletons
  /\ Registers(c, ok)
  /\ UNCHANGED <<engine, binding, loaded, poisoned, registered, signals>>

OnStageInit(ok) ==
  /\ At("singletons") /\ NothingPending
  /\ IF ok THEN phase' = "idle" /\ todo' = Tail(todo) /\ UNCHANGED <<pending, mishaps>>
     ELSE Panic("stage_init")
  /\ UNCHANGED <<engine, binding, registry, signals>>

(* ffi_deinitialize_layer, from the highest level down to Core.               *)
DeinitializeLayer ==
  /\ At("idle") /\ todo = <<>> /\ up > Core /\ ~twice
  /\ falling \/ up = (IF editor THEN Editor ELSE Scene) + 1
  /\ falling' = TRUE /\ up' = up - 1
  /\ coreLoaded' = (coreLoaded /\ up' # Core)
  /\ phase' = "stage_deinit"
  /\ UNCHANGED <<opens, editor, isOpen, todo, pending, bound, tables, twice,
                 registry, signals, mishaps>>

OnStageDeinitPanics ==
  /\ At("stage_deinit")
  /\ Panic("stage_deinit")
  /\ UNCHANGED <<engine, binding, registry, signals>>

(* gdext_on_level_deinit: prune_stored_signal_connections, and                *)
(* unregister_classes up to its loop, which holds the locks.                  *)
IsConnected(x) == conn[x] = "live"
Removed_allLevels == [c \in Classes |-> 0]
Removed == [c \in Classes |-> IF LevelOf[c] = up THEN 0 ELSE loaded[c]]

PruneStored_onlyForgets == conn' = conn /\ stored' = {}
PruneStored ==
  /\ conn' = [x \in Connections |->
                IF x \in stored /\ IsConnected(x) THEN "disconnected" ELSE conn[x]]
  /\ stored' = {}

OnStageDeinit ==
  /\ At("stage_deinit")
  /\ IF up = Editor THEN PruneStored ELSE UNCHANGED signals
  /\ IF poisoned
     THEN Panic("poison") /\ UNCHANGED loaded
     ELSE /\ pending' = [c \in Classes |-> IF LevelOf[c] = up THEN loaded[c] ELSE 0]
          /\ loaded' = Removed
          /\ phase' = "unregister"
          /\ UNCHANGED <<todo, mishaps>>
  /\ UNCHANGED <<engine, binding, poisoned, registered, singletons>>

(* unregister_class_raw: a singleton must be there to be removed, and a panic *)
(* poisons the locks.                                                         *)
SingletonGone(c) == c \in Singletons \ singletons

UnregisterClass(c) ==
  /\ At("unregister") /\ pending[c] > 0
  /\ IF SingletonGone(c)
     THEN Panic("poison") /\ poisoned' = TRUE /\ UNCHANGED <<registered, singletons>>
     ELSE /\ singletons' = singletons \ {c} /\ registered' = registered \ {c}
          /\ pending' = [pending EXCEPT ![c] = @ - 1]
          /\ UNCHANGED <<phase, todo, poisoned, mishaps>>
  /\ UNCHANGED <<engine, binding, loaded, signals>>

(* The end of gdext_on_level_deinit: at Core, sys::deinitialize.              *)
LevelDeinitialized ==
  /\ At("unregister") /\ NothingPending
  /\ phase' = "idle"
  /\ IF up = Core THEN DeinitializeBinding ELSE UNCHANGED <<bound, tables>>
  /\ UNCHANGED <<engine, todo, pending, coreLoaded, twice, registry, signals, mishaps>>

(* User code, in a callback of the library or called by the engine, connects  *)
(* a signal; store_signal_connection remembers it in the editor, and drops    *)
(* what it stored for objects that are gone.  A connection made after the     *)
(* editor level fell is too late to be pruned.                                *)
StoreConnection(x) ==
  IF editor THEN {y \in stored : conn[y] # "freed"} \cup {x} ELSE stored

UserRuns ==
  \/ At("idle") /\ todo = <<>> /\ up > Core
  \/ At("singletons") \/ At("stage_deinit")

IsLate == falling /\ ~(phase = "stage_deinit" /\ up = Editor)

Connect(x) ==
  /\ UserRuns /\ conn[x] = "none"
  /\ conn' = [conn EXCEPT ![x] = "live"]
  /\ stored' = StoreConnection(x)
  /\ mishaps' = mishaps \cup (IF IsLate THEN {"late_connect"} ELSE {})
  /\ UNCHANGED <<engine, phase, todo, pending, binding, registry>>

(* ConnectHandle::disconnect, or the engine's own; the free of the object.    *)
EndConnection(x, how) ==
  /\ UserRuns /\ IsConnected(x)
  /\ conn' = [conn EXCEPT ![x] = how]
  /\ UNCHANGED <<engine, phase, todo, pending, binding, registry, stored, mishaps>>

Next ==
  \/ Open \/ \E keepsStatics \in BOOLEAN : Close(keepsStatics)
  \/ \E l \in Levels : InitializeLayer(l)
  \/ ClassesRegistered
  \/ \E ok \in BOOLEAN : LoadLevel(ok) \/ OnStageInit(ok)
  \/ \E c \in Classes, accepted, ok \in BOOLEAN : RegisterClass(c, accepted, ok)
  \/ \E c \in Classes, ok \in BOOLEAN : RegisterSingleton(c, ok)
  \/ DeinitializeLayer \/ OnStageDeinitPanics \/ OnStageDeinit
  \/ \E c \in Classes : UnregisterClass(c)
  \/ LevelDeinitialized
  \/ \E x \in Connections : Connect(x)
  \/ \E x \in Connections, how \in {"disconnected", "freed"} : EndConnection(x, how)

Spec == Init /\ [][Next]_vars
-----------------------------------------------------------------------------
Mishaps == {"stage_init", "cut_short", "load", "registration", "stage_deinit",
            "poison", "late_connect"}

(* Every variable has its type; no class has more entries than there were     *)
(* loads.                                                                     *)
TypeOK ==
  /\ opens \in 0..MaxOpens /\ editor \in BOOLEAN /\ isOpen \in BOOLEAN
  /\ up \in Core..(Editor + 1) /\ falling \in BOOLEAN
  /\ phase \in {"idle", "classes", "singletons", "stage_deinit", "unregister"}
  /\ todo \in Seq(Levels) /\ Len(todo) <= 3
  /\ pending \in [Classes -> 0..opens] /\ loaded \in [Classes -> 0..opens]
  /\ coreLoaded \in BOOLEAN /\ bound \in BOOLEAN /\ tables \subseteq Levels
  /\ twice \in BOOLEAN /\ poisoned \in BOOLEAN
  /\ registered \subseteq Classes /\ singletons \subseteq Singletons
  /\ conn \in [Connections -> {"none", "live", "disconnected", "freed"}]
  /\ stored \subseteq Connections /\ mishaps \subseteq Mishaps

(* A level is loaded only when those below it are, also when the engine       *)
(* starts at Scene - unless a panic in one that the library loads by hand     *)
(* cut the loading short, which is StagePanicsAbortNothing's question.        *)
LevelsInOrder ==
  "cut_short" \notin mishaps =>
    \A l \in tables, k \in Levels : k < l => k \in tables

(* Wherever registration or initialization code panicked: each class and each *)
(* singleton that the engine knows is one that the library will unregister.   *)
RegisteredIsLoaded ==
  isOpen /\ mishaps \cap {"stage_deinit", "poison"} = {} =>
    \A c \in registered \cup singletons : loaded[c] + pending[c] > 0

(* A panic of registration code or of on_stage_deinit is behind every        *)
(* poisoned lock and every double initialization.  Otherwise, whatever panics *)
(* while levels are loaded: once the library was closed, nothing of it is     *)
(* left in the engine, no class, singleton or connection made in the editor,  *)
(* and it can be opened again.  Left out are unloads in which on_stage_deinit *)
(* or the registry panicked (the latter also for a singleton that was never   *)
(* there), and those with connections made after the editor level fell.       *)
CleanUnload ==
  /\ poisoned \/ twice => mishaps \cap {"registration", "stage_deinit"} # {}
  /\ ~isOpen /\ mishaps \subseteq {"stage_init", "cut_short", "load", "registration"} =>
       /\ registered = {} /\ singletons = {}
       /\ editor => \A x \in Connections : ~IsConnected(x)
       /\ ~bound /\ ~coreLoaded /\ tables = {} /\ ~poisoned
       /\ \A c \in Classes : loaded[c] = 0

(* The documentation of on_stage_init and of on_stage_deinit: "If the         *)
(* overridden method panics, an error will be printed, but GDExtension        *)
(* loading [unloading] is not aborted".  So if nothing else panics, the       *)
(* levels that the engine has initialized are loaded, and no class of those   *)
(* that it has deinitialized is registered.                                   *)
LoadingGoesOn ==
  At("idle") /\ todo = <<>> /\ ~falling /\ mishaps \subseteq {"stage_init", "cut_short"} =>
    \A l \in Levels : l < up => l \in tables

UnloadGoesOn ==
  At("idle") /\ falling /\ mishaps \subseteq {"stage_deinit"} =>
    \A c \in registered : LevelOf[c] < up

StagePanicsAbortNothing == LoadingGoesOn /\ UnloadGoesOn
=============================================================================
