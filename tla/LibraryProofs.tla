----------------------------- MODULE LibraryProofs -----------------------------
(* For any classes at any levels, any singletons and connections, and however *)
(* often the library is opened: levels are loaded in order, the engine knows  *)
(* no class that the library would forget to unregister, and an unload leaves *)
(* nothing behind in which nothing panicked and nothing was connected late.    *)
EXTENDS Library, SequenceTheorems, TLAPS

(* What a mishap excuses.  Tidy: no panic could poison the locks.  Clean: no  *)
(* unload was cut short.                                                       *)
Tidy == mishaps \cap {"registration", "stage_deinit"} = {}
Clean == mishaps \cap {"stage_deinit", "poison"} = {}

(* Levels that a callback in progress has yet to load.                        *)
Awaited(l) == \E i \in DOMAIN todo : todo[i] = l /\ (phase = "idle" \/ i > 1)

Loading == phase \in {"classes", "singletons"}
Unloading == phase \in {"stage_deinit", "unregister"}

(* Where the library may be in its life.                                       *)
Todos == {<<up - 1>>} \cup IF up = Scene + 1 THEN {<<Core, Servers, Scene>>, <<Servers, Scene>>}
                           ELSE {}
Shape ==
  /\ isOpen => opens > 0
  /\ ~isOpen => up = Core /\ phase = "idle"
  /\ todo # <<>> => isOpen /\ ~falling /\ up > Core /\ todo \in Todos
  /\ falling => up <= Editor
  /\ Loading => todo # <<>>
  /\ Unloading => isOpen /\ falling
  /\ phase \in {"idle", "stage_deinit"} => NothingPending
  /\ coreLoaded => up > Core
  /\ ~falling /\ up > Core => coreLoaded \/ Awaited(Core)

(* A level is loaded once in an opening.                                       *)
LoadsLeft ==
  isOpen => \A c \in Classes :
    Awaited(LevelOf[c]) \/ (~falling /\ LevelOf[c] >= up) => loaded[c] < opens

PendingIsLoaded ==
  Loading => \A c \in Classes :
    /\ pending[c] > 0 =>
         LevelOf[c] = Head(todo) /\ (phase = "singletons" => c \in Singletons)
    /\ LevelOf[c] = Head(todo) => loaded[c] > 0

(* The levels below up are loaded, except those that are about to be.         *)
TablesBelow ==
  "cut_short" \notin mishaps /\ ~falling =>
    \A l \in Levels : l < up => l \in tables \/ Awaited(l)

(* Classes are loaded below up only, and all others were removed.             *)
LoadedBelow ==
  Clean => \A c \in Classes :
    loaded[c] > 0 =>
      /\ ~Awaited(LevelOf[c])
      /\ LevelOf[c] < up \/ (phase = "stage_deinit" /\ LevelOf[c] = up)

KnownIsLoaded ==
  Clean => \A c \in registered \cup singletons : loaded[c] + pending[c] > 0

(* An unload that reaches Core takes the binding and the tables down.         *)
BindingIsDown ==
  /\ poisoned => "poison" \in mishaps
  /\ Clean /\ (~isOpen \/ (falling /\ up = Core /\ phase = "idle")) => ~bound /\ tables = {}
  /\ Clean /\ ~falling => \A l \in tables : l < up /\ ~Awaited(l)

(* In the editor, a live connection is stored, and none is live after the     *)
(* editor level fell.                                                          *)
ConnectionsStored ==
  editor /\ Clean /\ "late_connect" \notin mishaps =>
    \A x \in Connections : IsConnected(x) =>
      /\ x \in stored /\ isOpen
      /\ falling => up = Editor /\ phase = "stage_deinit"

(* Without a panic of registration code or of on_stage_deinit, every class    *)
(* has one entry, and every singleton to unregister is there.                  *)
SingletonThere(c) ==
  /\ loaded[c] > 0 => \/ c \in singletons
                      \/ phase = "classes" /\ LevelOf[c] = Head(todo)
                      \/ phase = "singletons" /\ pending[c] > 0
  /\ phase = "unregister" /\ pending[c] > 0 => c \in singletons

TidyLife ==
  Tidy =>
    /\ ~poisoned /\ ~twice /\ "poison" \notin mishaps
    /\ \A c \in Classes : /\ loaded[c] <= 1 /\ pending[c] <= 1
                          /\ phase = "unregister" => loaded[c] + pending[c] <= 1
    /\ \A c \in Singletons : SingletonThere(c)

IInv ==
  /\ TypeOK /\ Shape /\ LoadsLeft /\ PendingIsLoaded /\ LevelsInOrder /\ TablesBelow
  /\ LoadedBelow /\ KnownIsLoaded /\ BindingIsDown /\ ConnectionsStored /\ TidyLife
-----------------------------------------------------------------------------
(* The levels to load: how todo and Awaited change.                           *)
LEMMA Numbers ==
  /\ Core = 0 /\ Servers = 1 /\ Scene = 2 /\ Editor = 3 /\ Levels = 0 .. 3
  /\ \A c \in Classes : LevelOf[c] \in Levels
  /\ Singletons \subseteq Classes /\ MaxOpens \in Nat
BY LibraryAssumption DEF Core, Servers, Scene, Editor, Levels

LEMMA TodoForms ==
  ASSUME TypeOK, Shape, todo # <<>>
  PROVE  /\ isOpen /\ ~falling /\ up \in 1 .. 4
         /\ \/ todo = <<up - 1>>
            \/ up = 3 /\ todo = <<0, 1, 2>>
            \/ up = 3 /\ todo = <<1, 2>>
BY Numbers DEF TypeOK, Shape, Todos

LEMMA TodoFacts ==
  ASSUME TypeOK, Shape
  PROVE  /\ \A l : Awaited(l) => l \in Levels /\ l < up /\ todo # <<>> /\ ~falling /\ isOpen
         /\ todo # <<>> =>
              /\ Head(todo) \in Levels /\ Head(todo) < up /\ Len(todo) \in 1 .. 3
              /\ phase = "idle" => Awaited(Head(todo))
              /\ phase # "idle" => ~Awaited(Head(todo))
              /\ \A l : l < Head(todo) => ~Awaited(l)
<1>1. CASE todo = <<>>
  BY <1>1 DEF Awaited
<1>2. CASE todo # <<>>
  <2>1. CASE todo = <<up - 1>>
    <3>1. \A l : Awaited(l) <=> phase = "idle" /\ l = up - 1
      BY <2>1 DEF Awaited
    <3>2. QED
      BY <1>2, <2>1, <3>1, TodoForms, Numbers
  <2>2. CASE up = 3 /\ todo = <<0, 1, 2>>
    <3>1. \A l : Awaited(l) <=> (phase = "idle" /\ l = 0) \/ l = 1 \/ l = 2
      BY <2>2 DEF Awaited
    <3>2. QED
      BY <1>2, <2>2, <3>1, TodoForms, Numbers
  <2>3. CASE up = 3 /\ todo = <<1, 2>>
    <3>1. \A l : Awaited(l) <=> (phase = "idle" /\ l = 1) \/ l = 2
      BY <2>3 DEF Awaited
    <3>2. QED
      BY <1>2, <2>3, <3>1, TodoForms, Numbers
  <2>4. QED
    BY <1>2, <2>1, <2>2, <2>3, TodoForms
<1>3. QED
  BY <1>1, <1>2

LEMMA NothingAwaited ==
  ASSUME todo = <<>>
  PROVE  \A l : ~Awaited(l)
BY DEF Awaited

LEMMA AwaitedSame ==
  ASSUME todo' = todo, phase' = "idle" <=> phase = "idle"
  PROVE  \A l : Awaited(l)' <=> Awaited(l)
BY DEF Awaited

LEMMA HeadIsLoaded ==
  ASSUME TypeOK, Shape, todo # <<>>, phase = "idle", todo' = todo, phase' # "idle"
  PROVE  \A l : Awaited(l)' <=> Awaited(l) /\ l # Head(todo)
<1>1. \A l : Awaited(l)' <=> \E i \in DOMAIN todo : todo[i] = l /\ i > 1
  BY DEF Awaited
<1>2. \A l : Awaited(l) <=> \E i \in DOMAIN todo : todo[i] = l
  BY DEF Awaited
<1>3. CASE todo = <<up - 1>>
  BY <1>1, <1>2, <1>3
<1>4. CASE todo = <<0, 1, 2>>
  BY <1>1, <1>2, <1>4
<1>5. CASE todo = <<1, 2>>
  BY <1>1, <1>2, <1>5
<1>6. QED
  BY <1>3, <1>4, <1>5, TodoForms

LEMMA HeadIsDone ==
  ASSUME TypeOK, Shape, todo # <<>>, phase # "idle", todo' = Tail(todo), phase' = "idle",
         UNCHANGED up
  PROVE  /\ \A l : Awaited(l)' <=> Awaited(l)
         /\ todo' \in Seq(Levels) /\ Len(todo') <= 3
         /\ todo' # <<>> => todo' \in Todos'
<1>1. \A l : Awaited(l) <=> \E i \in DOMAIN todo : todo[i] = l /\ i > 1
  BY DEF Awaited
<1>2. \A l : Awaited(l)' <=> \E i \in DOMAIN todo' : todo'[i] = l
  BY DEF Awaited
<1>3. CASE todo = <<up - 1>>
  <2>1. todo' = <<>>
    BY <1>3
  <2>2. QED
    BY <1>1, <1>2, <1>3, <2>1
<1>4. CASE up = 3 /\ todo = <<0, 1, 2>>
  <2>1. todo' = <<1, 2>>
    BY <1>4
  <2>2. QED
    BY <1>1, <1>2, <1>4, <2>1, Numbers DEF Todos
<1>5. CASE up = 3 /\ todo = <<1, 2>>
  <2>1. todo' = <<2>>
    BY <1>5
  <2>2. QED
    BY <1>1, <1>2, <1>5, <2>1, Numbers DEF Todos
<1>6. QED
  BY <1>3, <1>4, <1>5, TodoForms
-----------------------------------------------------------------------------
(* The type invariant, its Booleans apart from its numbers.                   *)
Booleans ==
  /\ editor \in BOOLEAN /\ isOpen \in BOOLEAN /\ falling \in BOOLEAN /\ coreLoaded \in BOOLEAN
  /\ bound \in BOOLEAN /\ twice \in BOOLEAN /\ poisoned \in BOOLEAN

Numerals ==
  /\ opens \in 0..MaxOpens /\ up \in Core..(Editor + 1)
  /\ todo \in Seq(Levels) /\ Len(todo) <= 3
  /\ pending \in [Classes -> 0..opens] /\ loaded \in [Classes -> 0..opens]

Names ==
  /\ phase \in {"idle", "classes", "singletons", "stage_deinit", "unregister"}
  /\ tables \subseteq Levels
  /\ registered \subseteq Classes /\ singletons \subseteq Singletons
  /\ conn \in [Connections -> {"none", "live", "disconnected", "freed"}]
  /\ stored \subseteq Connections /\ mishaps \subseteq Mishaps

LEMMA TypeParts == TypeOK <=> Booleans /\ Numerals /\ Names
BY DEF TypeOK, Booleans, Numerals, Names

(* The library is opened and closed.                                          *)
LEMMA InitIInv == Init => IInv
<1> SUFFICES ASSUME Init PROVE IInv
  OBVIOUS
<1> USE Numbers DEF Init
<1>1. Booleans /\ Numerals /\ Names
  <2>1. Booleans
    BY DEF Booleans
  <2>2. Numerals
    BY DEF Numerals
  <2>3. Names
    BY DEF Names
  <2>4. QED
    BY <2>1, <2>2, <2>3
<1>2. Shape
  BY DEF Shape, Loading, Unloading, NothingPending
<1>3. LoadsLeft /\ PendingIsLoaded /\ LevelsInOrder /\ TablesBelow
  BY DEF LoadsLeft, PendingIsLoaded, Loading, LevelsInOrder, TablesBelow
<1>4. LoadedBelow /\ KnownIsLoaded /\ BindingIsDown /\ ConnectionsStored
  BY DEF LoadedBelow, KnownIsLoaded, BindingIsDown, ConnectionsStored, IsConnected
<1>5. TidyLife
  BY DEF TidyLife, SingletonThere
<1>6. QED
  BY <1>1, <1>2, <1>3, <1>4, <1>5, TypeParts DEF IInv

LEMMA OpenStep == IInv /\ Open => IInv'
<1> SUFFICES ASSUME IInv, Open PROVE IInv'
  OBVIOUS
<1>1. /\ TypeOK /\ Shape /\ LoadsLeft /\ PendingIsLoaded /\ LevelsInOrder /\ TablesBelow
      /\ LoadedBelow /\ KnownIsLoaded /\ BindingIsDown /\ ConnectionsStored /\ TidyLife
  BY DEF IInv
<1>2. /\ ~isOpen /\ opens < MaxOpens /\ ~twice /\ opens' = opens + 1 /\ isOpen' = TRUE
      /\ up' = Core /\ falling' = FALSE /\ twice' = (twice \/ bound) /\ bound' = TRUE
      /\ UNCHANGED <<editor, phase, todo, pending, coreLoaded, tables, loaded, poisoned,
                     registered, singletons, conn, stored, mishaps>>
  BY DEF Open, InitializeBinding, registry, signals
<1>3. up = Core /\ phase = "idle" /\ todo = <<>> /\ opens \in Nat
  BY <1>1, <1>2, Numbers DEF Shape, TypeOK
<1>4. (\A l : ~Awaited(l)) /\ (\A l : ~Awaited(l)')
  BY <1>2, <1>3, NothingAwaited DEF Awaited
<1>5. TypeOK'
  <2>1. Booleans'
    BY <1>1, <1>2, TypeParts DEF Booleans
  <2>2. Numerals'
    BY <1>1, <1>2, <1>3, Numbers, TypeParts DEF Numerals
  <2>3. Names'
    BY <1>1, <1>2, TypeParts DEF Names
  <2>4. QED
    BY <2>1, <2>2, <2>3 DEF TypeOK, Booleans, Numerals, Names
<1>6. Shape'
  BY <1>1, <1>2, <1>3, <1>4, Numbers DEF Shape, Loading, Unloading, NothingPending
<1>7. LoadsLeft' /\ PendingIsLoaded' /\ LevelsInOrder' /\ TablesBelow'
  BY <1>1, <1>2, <1>3, <1>4, Numbers
  DEF LoadsLeft, PendingIsLoaded, Loading, LevelsInOrder, TablesBelow, TypeOK
<1>8. LoadedBelow' /\ KnownIsLoaded'
  BY <1>1, <1>2, <1>3, <1>4, Numbers DEF LoadedBelow, KnownIsLoaded, Clean
<1>9. BindingIsDown'
  BY <1>1, <1>2, <1>3, <1>4, Numbers DEF BindingIsDown, Clean
<1>10. ConnectionsStored'
  BY <1>1, <1>2 DEF ConnectionsStored, IsConnected, Clean
<1>11. TidyLife'
  BY <1>1, <1>2, <1>3 DEF TidyLife, SingletonThere, BindingIsDown, Tidy, Clean
<1>12. QED
  BY <1>5, <1>6, <1>7, <1>8, <1>9, <1>10, <1>11 DEF IInv

LEMMA CloseStep ==
  ASSUME IInv, NEW keepsStatics \in BOOLEAN, Close(keepsStatics)
  PROVE  IInv'
<1>1. /\ TypeOK /\ Shape /\ LoadsLeft /\ PendingIsLoaded /\ LevelsInOrder /\ TablesBelow
      /\ LoadedBelow /\ KnownIsLoaded /\ BindingIsDown /\ ConnectionsStored /\ TidyLife
  BY DEF IInv
<1>2. /\ isOpen /\ phase = "idle" /\ todo = <<>> /\ falling /\ up = Core /\ isOpen' = FALSE
      /\ UNCHANGED <<opens, editor, up, falling, phase, todo, pending, registered,
                     singletons, conn, mishaps, twice>>
      /\ \/ UNCHANGED <<coreLoaded, bound, tables, loaded, poisoned, stored>>
         \/ /\ coreLoaded' = FALSE /\ bound' = FALSE /\ tables' = {} /\ poisoned' = FALSE
            /\ loaded' = [c \in Classes |-> 0] /\ stored' = {}
  BY DEF Close, At, binding
<1>3. (\A l : ~Awaited(l)) /\ (\A l : ~Awaited(l)')
  BY <1>2, NothingAwaited DEF Awaited
<1>4. Clean => \A c \in Classes : loaded[c] = 0 /\ pending[c] = 0 /\ c \notin registered \cup singletons
  <2> SUFFICES ASSUME Clean, NEW c \in Classes
               PROVE  loaded[c] = 0 /\ pending[c] = 0 /\ c \notin registered \cup singletons
    OBVIOUS
  <2>1. pending[c] = 0
    BY <1>1, <1>2 DEF Shape, NothingPending
  <2>2. ~(loaded[c] > 0)
    BY <1>1, <1>2, Numbers DEF LoadedBelow
  <2>3. loaded[c] = 0
    BY <1>1, <2>2 DEF TypeOK
  <2>4. QED
    BY <1>1, <2>1, <2>3 DEF KnownIsLoaded
<1>5. TypeOK'
  <2>1. Booleans'
    BY <1>1, <1>2, TypeParts DEF Booleans
  <2>2. Numerals'
    BY <1>1, <1>2, Numbers, TypeParts DEF Numerals
  <2>3. Names'
    BY <1>1, <1>2, TypeParts DEF Names
  <2>4. QED
    BY <2>1, <2>2, <2>3 DEF TypeOK, Booleans, Numerals, Names
<1>6. Shape'
  BY <1>1, <1>2, <1>3, Numbers DEF Shape, Loading, Unloading, NothingPending
<1>7. LoadsLeft' /\ PendingIsLoaded' /\ LevelsInOrder' /\ TablesBelow'
  BY <1>1, <1>2, <1>3, Numbers
  DEF LoadsLeft, PendingIsLoaded, Loading, LevelsInOrder, TablesBelow
<1>8. LoadedBelow' /\ KnownIsLoaded'
  BY <1>1, <1>2, <1>3, <1>4, Numbers DEF LoadedBelow, KnownIsLoaded, Clean, TypeOK
<1>9. BindingIsDown'
  BY <1>1, <1>2, <1>3, Numbers DEF BindingIsDown, Clean
<1>10. ConnectionsStored'
  BY <1>1, <1>2, Numbers DEF ConnectionsStored, IsConnected, Clean
<1>11. TidyLife'
  BY <1>1, <1>2, <1>4, Numbers DEF TidyLife, SingletonThere, Tidy, Clean
<1>12. QED
  BY <1>5, <1>6, <1>7, <1>8, <1>9, <1>10, <1>11 DEF IInv

(* The engine starts a level, and the levels that it skipped.                 *)
LEMMA InitializeLayerStep ==
  ASSUME IInv, NEW l \in Levels, InitializeLayer(l)
  PROVE  IInv'
<1>1. /\ TypeOK /\ Shape /\ LoadsLeft /\ PendingIsLoaded /\ LevelsInOrder /\ TablesBelow
      /\ LoadedBelow /\ KnownIsLoaded /\ BindingIsDown /\ ConnectionsStored /\ TidyLife
  BY DEF IInv
<1>2. /\ isOpen /\ phase = "idle" /\ todo = <<>> /\ ~falling
      /\ l = up \/ (up = 0 /\ l = 2)
      /\ up' = l + 1
      /\ UNCHANGED <<opens, editor, isOpen, falling, phase, pending, coreLoaded, bound, tables,
                     twice, loaded, poisoned, registered, singletons, conn, stored, mishaps>>
  BY Numbers DEF InitializeLayer, At, binding, registry, signals
<1>3. up \in 0 .. 4 /\ l \in 0 .. 3
  BY <1>1, Numbers DEF TypeOK
<1>4. \A k : ~Awaited(k)
  BY <1>2, NothingAwaited
<1>5. coreLoaded <=> up > 0
  BY <1>1, <1>2, <1>3, <1>4, Numbers DEF Shape
<1>6. \/ up = l /\ todo' = <<l>>
      \/ up = 0 /\ l = 2 /\ todo' = <<0, 1, 2>>
  <2>0. todo' = IF l = 2 THEN Append(LowerLevels, 2) ELSE <<l>>
    BY Numbers DEF InitializeLayer
  <2>1. CASE l # 2
    BY <1>2, <2>0, <2>1
  <2>2. CASE l = 2 /\ up = 2
    <3>1. LowerLevels = <<>>
      BY <1>5, <2>2 DEF LowerLevels
    <3>2. todo' = <<l>>
      BY <2>0, <2>2, <3>1
    <3>3. QED
      BY <2>2, <3>2
  <2>3. CASE l = 2 /\ up = 0
    <3>1. LowerLevels = <<0, 1>>
      BY <1>5, <2>3, Numbers DEF LowerLevels
    <3>2. Append(<<0, 1>>, 2) = <<0, 1, 2>>
      <4>1. /\ <<0, 1>> \in Seq(Nat) /\ 2 \in Nat /\ <<0, 1, 2>> \in Seq(Nat)
            /\ Len(<<0, 1>>) = 2 /\ Len(<<0, 1, 2>>) = 3
        OBVIOUS
      <4>2. /\ Append(<<0, 1>>, 2) \in Seq(Nat) /\ Len(Append(<<0, 1>>, 2)) = 3
            /\ \A i \in 1 .. 3 : Append(<<0, 1>>, 2)[i] = <<0, 1, 2>>[i]
        BY <4>1
      <4>3. QED
        BY ONLY <4>1, <4>2, SeqEqual
    <3>3. todo' = <<0, 1, 2>>
      BY <2>0, <2>3, <3>1, <3>2
    <3>4. QED
      BY <2>3, <3>3
  <2>4. QED
    BY <1>2, <2>1, <2>2, <2>3
<1>7. \A k \in Levels : Awaited(k)' <=> up <= k /\ k < up'
  <2>1. \A k : Awaited(k)' <=> \E i \in DOMAIN todo' : todo'[i] = k
    BY <1>2 DEF Awaited
  <2>2. CASE up = l /\ todo' = <<l>>
    <3>1. \A k : Awaited(k)' <=> k = l
      BY <2>1, <2>2
    <3>2. QED
      BY <1>2, <1>3, <2>2, <3>1, Numbers
  <2>3. CASE up = 0 /\ l = 2 /\ todo' = <<0, 1, 2>>
    <3>1. \A k : Awaited(k)' <=> k \in {0, 1, 2}
      BY <2>1, <2>3
    <3>2. QED
      BY <1>2, <1>3, <2>3, <3>1, Numbers
  <2>4. QED
    BY <1>6, <2>2, <2>3
<1>8. todo' # <<>> /\ todo' \in Todos' /\ todo' \in Seq(Levels) /\ Len(todo') <= 3
  <2>1. CASE up = l /\ todo' = <<l>>
    <3>1. up' - 1 = l
      BY <1>2, <1>3
    <3>2. QED
      BY <2>1, <3>1 DEF Todos
  <2>2. CASE up = 0 /\ l = 2 /\ todo' = <<0, 1, 2>>
    <3>1. up' = Scene + 1 /\ todo' = <<Core, Servers, Scene>>
      BY <1>2, <2>2, Numbers
    <3>2. todo' \in Todos'
      BY <3>1 DEF Todos
    <3>3. QED
      BY <2>2, <3>2, Numbers
  <2>3. QED
    BY <1>6, <2>1, <2>2
<1> HIDE DEF Todos
<1>9. TypeOK'
  <2>1. Booleans'
    BY <1>1, <1>2, TypeParts DEF Booleans
  <2>2. Numerals'
    BY <1>1, <1>2, <1>3, <1>8, Numbers, TypeParts DEF Numerals
  <2>3. Names'
    BY <1>1, <1>2, TypeParts DEF Names
  <2>4. QED
    BY <2>1, <2>2, <2>3 DEF TypeOK, Booleans, Numerals, Names
<1>10. Shape'
  <2>1. coreLoaded' \/ Awaited(Core)'
    BY <1>2, <1>3, <1>5, <1>7, Numbers
  <2>2. QED
    BY <1>1, <1>2, <1>3, <1>8, <2>1, Numbers DEF Shape, Loading, Unloading, NothingPending
<1>11. LoadsLeft' /\ PendingIsLoaded' /\ LevelsInOrder' /\ TablesBelow'
  <2>1. LoadsLeft'
    BY <1>1, <1>2, <1>3, <1>7, Numbers DEF LoadsLeft
  <2>2. PendingIsLoaded' /\ LevelsInOrder'
    BY <1>1, <1>2 DEF PendingIsLoaded, Loading, LevelsInOrder
  <2>3. TablesBelow'
    BY <1>1, <1>2, <1>3, <1>4, <1>7, Numbers DEF TablesBelow
  <2>4. QED
    BY <2>1, <2>2, <2>3
<1>12. LoadedBelow' /\ KnownIsLoaded'
  BY <1>1, <1>2, <1>3, <1>7, Numbers DEF LoadedBelow, KnownIsLoaded, Clean
<1>13. BindingIsDown'
  BY <1>1, <1>2, <1>3, <1>7, Numbers DEF BindingIsDown, Clean, TypeOK
<1>14. ConnectionsStored'
  BY <1>1, <1>2 DEF ConnectionsStored, IsConnected, Clean
<1>15. TidyLife'
  BY <1>1, <1>2 DEF TidyLife, SingletonThere, Tidy
<1>16. QED
  BY <1>9, <1>10, <1>11, <1>12, <1>13, <1>14, <1>15 DEF IInv

(* The engine takes a level down, from the highest.                           *)
LEMMA DeinitializeLayerStep == IInv /\ DeinitializeLayer => IInv'
<1> SUFFICES ASSUME IInv, DeinitializeLayer PROVE IInv'
  OBVIOUS
<1>1. /\ TypeOK /\ Shape /\ LoadsLeft /\ PendingIsLoaded /\ LevelsInOrder /\ TablesBelow
      /\ LoadedBelow /\ KnownIsLoaded /\ BindingIsDown /\ ConnectionsStored /\ TidyLife
  BY DEF IInv
<1>2. /\ isOpen /\ phase = "idle" /\ todo = <<>> /\ up > 0
      /\ falling \/ up = (IF editor THEN 3 ELSE 2) + 1
      /\ falling' = TRUE /\ up' = up - 1 /\ coreLoaded' = (coreLoaded /\ up' # 0)
      /\ phase' = "stage_deinit"
      /\ UNCHANGED <<opens, editor, isOpen, todo, pending, bound, tables, twice, loaded,
                     poisoned, registered, singletons, conn, stored, mishaps>>
  BY Numbers DEF DeinitializeLayer, At, registry, signals
<1>3. up \in 1 .. 4
  BY <1>1, <1>2, Numbers DEF TypeOK
<1>4. (\A k : ~Awaited(k)) /\ (\A k : ~Awaited(k)')
  BY <1>2, NothingAwaited DEF Awaited
<1>5. TypeOK'
  <2>1. Booleans'
    BY <1>1, <1>2, TypeParts DEF Booleans
  <2>2. Numerals'
    BY <1>1, <1>2, <1>3, Numbers, TypeParts DEF Numerals
  <2>3. Names'
    BY <1>1, <1>2, TypeParts DEF Names
  <2>4. QED
    BY <2>1, <2>2, <2>3 DEF TypeOK, Booleans, Numerals, Names
<1>6. Shape'
  <2>0. coreLoaded' => up' # 0
    BY <1>2
  <2>1. coreLoaded' => up' > 0
    BY <1>2, <1>3, <2>0
  <2>2. falling' => up' <= 3
    BY <1>2, <1>3
  <2>3. QED
    BY <1>1, <1>2, <2>1, <2>2, Numbers DEF Shape, Loading, Unloading, NothingPending
<1>7. LoadsLeft' /\ PendingIsLoaded' /\ LevelsInOrder' /\ TablesBelow'
  BY <1>1, <1>2, <1>4 DEF LoadsLeft, PendingIsLoaded, Loading, LevelsInOrder, TablesBelow
<1>8. LoadedBelow' /\ KnownIsLoaded'
  BY <1>1, <1>2, <1>3, <1>4, Numbers DEF LoadedBelow, KnownIsLoaded, Clean
<1>9. BindingIsDown'
  BY <1>1, <1>2, <1>3, Numbers DEF BindingIsDown, Clean
<1>10. ConnectionsStored'
  BY <1>1, <1>2, <1>3, Numbers DEF ConnectionsStored, IsConnected, Clean
<1>11. TidyLife'
  BY <1>1, <1>2 DEF TidyLife, SingletonThere, Tidy
<1>12. QED
  BY <1>5, <1>6, <1>7, <1>8, <1>9, <1>10, <1>11 DEF IInv
-----------------------------------------------------------------------------
(* Levels are loaded, and user code may panic.                                *)
LEMMA PanicFacts ==
  ASSUME TypeOK, NEW why \in Mishaps, Panic(why)
  PROVE  /\ phase' = "idle" /\ todo' = <<>> /\ pending' = [c \in Classes |-> 0]
         /\ mishaps' \subseteq Mishaps /\ mishaps \subseteq mishaps' /\ why \in mishaps'
         /\ \A k : ~Awaited(k)'
         /\ "cut_short" \notin mishaps' => "cut_short" \notin mishaps /\ ~(Len(todo) > 1)
         /\ Clean' => Clean /\ why \notin {"stage_deinit", "poison"}
         /\ Tidy' => Tidy /\ why \notin {"registration", "stage_deinit"}
         /\ "late_connect" \notin mishaps' => "late_connect" \notin mishaps
         /\ "poison" \in mishaps' => "poison" \in mishaps \/ why = "poison"
<1>1. /\ phase' = "idle" /\ todo' = <<>> /\ pending' = [c \in Classes |-> 0]
      /\ mishaps' = mishaps \cup {why} \cup (IF Len(todo) > 1 THEN {"cut_short"} ELSE {})
  BY DEF Panic
<1>2. \A k : ~Awaited(k)'
  BY <1>1 DEF Awaited
<1>3. "cut_short" \in Mishaps /\ mishaps \subseteq Mishaps
  BY DEF Mishaps, TypeOK
<1>4. /\ mishaps' \subseteq Mishaps /\ mishaps \subseteq mishaps' /\ why \in mishaps'
      /\ "cut_short" \notin mishaps' => "cut_short" \notin mishaps /\ ~(Len(todo) > 1)
      /\ "poison" \in mishaps' => "poison" \in mishaps \/ why = "poison"
  BY <1>1, <1>3
<1>5. QED
  BY <1>1, <1>2, <1>4 DEF Clean, Tidy

(* Every level below up but the head of todo is loaded, unless the loading is *)
(* cut short.                                                                 *)
LEMMA ShortTodo ==
  ASSUME TypeOK, Shape, TablesBelow, todo # <<>>, ~(Len(todo) > 1), "cut_short" \notin mishaps
  PROVE  /\ Len(todo) = 1 /\ Head(todo) = up - 1
         /\ \A l \in Levels : l < up => l \in tables \/ l = up - 1
         /\ phase # "idle" => \A l \in Levels : l < up => l \in tables
<1>1. todo = <<up - 1>>
  <2>1. Len(<<0, 1, 2>>) > 1 /\ Len(<<1, 2>>) > 1
    OBVIOUS
  <2>2. QED
    BY <2>1, TodoForms
<1>2. \A l : Awaited(l) => l = up - 1 /\ phase = "idle"
  BY <1>1 DEF Awaited
<1>3. ~falling /\ Len(todo) = 1 /\ Head(todo) = up - 1
  BY <1>1, TodoForms
<1>4. \A l \in Levels : l < up => l \in tables \/ Awaited(l)
  BY <1>3 DEF TablesBelow
<1>5. QED
  BY <1>2, <1>3, <1>4

LEMMA PanicWhileLoading ==
  ASSUME IInv, Loading, NEW why \in {"registration", "stage_init"}, Panic(why),
         why = "stage_init" => phase = "singletons" /\ NothingPending,
         UNCHANGED <<opens, editor, isOpen, up, falling, coreLoaded, bound, tables, twice,
                     loaded, poisoned, conn, stored>>,
         registered' \subseteq Classes, singletons' = singletons,
         \A c \in registered' : c \in registered \/ pending[c] > 0
  PROVE  IInv'
<1>1. /\ TypeOK /\ Shape /\ LoadsLeft /\ PendingIsLoaded /\ LevelsInOrder /\ TablesBelow
      /\ LoadedBelow /\ KnownIsLoaded /\ BindingIsDown /\ ConnectionsStored /\ TidyLife
  BY DEF IInv
<1>2. why \in Mishaps
  BY DEF Mishaps
<1>3. /\ phase' = "idle" /\ todo' = <<>> /\ pending' = [c \in Classes |-> 0]
      /\ mishaps' \subseteq Mishaps /\ mishaps \subseteq mishaps'
      /\ \A k : ~Awaited(k)'
      /\ "cut_short" \notin mishaps' => "cut_short" \notin mishaps /\ ~(Len(todo) > 1)
      /\ Clean' => Clean
      /\ Tidy' => Tidy /\ why = "stage_init"
      /\ "late_connect" \notin mishaps' => "late_connect" \notin mishaps
      /\ "poison" \in mishaps' => "poison" \in mishaps
  BY <1>1, <1>2, PanicFacts
<1>4. /\ todo # <<>> /\ phase # "idle" /\ isOpen /\ ~falling /\ up \in 1 .. 4
      /\ Head(todo) \in Levels /\ \A l \in Levels : l <= Head(todo) => ~Awaited(l)
  <2>1. todo # <<>> /\ phase # "idle"
    BY <1>1 DEF Shape, Loading
  <2>2. QED
    BY <1>1, <2>1, TodoForms, TodoFacts, Numbers
<1>5. coreLoaded
  <2>1. ~Awaited(Core)
    BY <1>4, Numbers
  <2>2. up > Core
    BY <1>4, Numbers
  <2>3. QED
    BY <1>1, <1>4, <2>1, <2>2 DEF Shape
<1>6. \A c \in Classes : pending[c] > 0 => loaded[c] > 0
  BY <1>1 DEF PendingIsLoaded
<1>7. TypeOK'
  <2>1. Booleans'
    BY <1>1, TypeParts DEF Booleans
  <2>2. Numerals'
    BY <1>1, <1>3, Numbers, TypeParts DEF Numerals
  <2>3. Names'
    BY <1>1, <1>3, TypeParts DEF Names
  <2>4. QED
    BY <2>1, <2>2, <2>3 DEF TypeOK, Booleans, Numerals, Names
<1>8. Shape'
  BY <1>1, <1>3, <1>4, <1>5, Numbers DEF Shape, Loading, Unloading, NothingPending
<1>9. LoadsLeft' /\ PendingIsLoaded' /\ LevelsInOrder'
  BY <1>1, <1>3, <1>4 DEF LoadsLeft, PendingIsLoaded, Loading, LevelsInOrder
<1>10. TablesBelow'
  BY <1>1, <1>3, <1>4, ShortTodo DEF TablesBelow
<1>11. LoadedBelow'
  BY <1>1, <1>3, <1>4 DEF LoadedBelow, Loading
<1>12. KnownIsLoaded'
  <2>1. ASSUME Clean', NEW c \in registered' \cup singletons' PROVE loaded[c] > 0
    <3>1. c \in Classes /\ Clean
      BY <1>1, <1>3, <2>1, Numbers DEF TypeOK
    <3>2. loaded[c] \in Nat /\ pending[c] \in Nat
      BY <1>1, <3>1 DEF TypeOK
    <3>3. loaded[c] + pending[c] > 0 \/ pending[c] > 0
      BY <1>1, <2>1, <3>1 DEF KnownIsLoaded
    <3>4. QED
      BY <1>6, <3>1, <3>2, <3>3
  <2>2. ASSUME Clean', NEW c \in registered' \cup singletons' PROVE loaded'[c] + pending'[c] > 0
    <3>1. pending'[c] = 0 /\ loaded'[c] \in Nat
      BY <1>1, <1>3, <2>2, Numbers DEF TypeOK
    <3>2. QED
      BY <2>1, <2>2, <3>1
  <2>3. QED
    BY <2>2 DEF KnownIsLoaded
<1>13. BindingIsDown'
  BY <1>1, <1>3, <1>4 DEF BindingIsDown
<1>14. ConnectionsStored'
  BY <1>1, <1>3, <1>4 DEF ConnectionsStored, IsConnected
<1>15. TidyLife'
  <2> SUFFICES ASSUME Tidy' PROVE TidyLife'
    BY DEF TidyLife
  <2>1. Tidy /\ phase = "singletons" /\ \A c \in Classes : pending[c] = 0
    BY <1>3 DEF NothingPending
  <2>2. /\ ~poisoned /\ ~twice /\ "poison" \notin mishaps'
    BY <1>1, <1>3, <2>1 DEF TidyLife
  <2>3. \A c \in Classes : loaded'[c] <= 1 /\ pending'[c] <= 1
    BY <1>1, <1>3, <2>1 DEF TidyLife
  <2>4. \A c \in Singletons : loaded[c] > 0 => c \in singletons
    BY <1>1, <2>1, Numbers DEF TidyLife, SingletonThere
  <2>5. QED
    BY <1>3, <2>2, <2>3, <2>4 DEF TidyLife, SingletonThere
<1>16. QED
  BY <1>7, <1>8, <1>9, <1>10, <1>11, <1>12, <1>13, <1>14, <1>15 DEF IInv

(* The classes of a level are about to be registered, or the level fails to   *)
(* load.                                                                      *)
LEMMA LoadLevelStep ==
  ASSUME IInv, NEW ok \in BOOLEAN, LoadLevel(ok)
  PROVE  IInv'
<1> DEFINE h == Head(todo)
<1>1. /\ TypeOK /\ Shape /\ LoadsLeft /\ PendingIsLoaded /\ LevelsInOrder /\ TablesBelow
      /\ LoadedBelow /\ KnownIsLoaded /\ BindingIsDown /\ ConnectionsStored /\ TidyLife
  BY DEF IInv
<1>2. /\ isOpen /\ phase = "idle" /\ todo # <<>> /\ coreLoaded' = (coreLoaded \/ h = Core)
      /\ twice' = (twice \/ h \in tables) /\ tables' = tables \cup {h}
      /\ UNCHANGED <<opens, editor, isOpen, up, falling, bound, poisoned, registered,
                     singletons, conn, stored>>
  BY DEF LoadLevel, At, LoadClassMethodTable, engine, signals
<1>3. /\ h \in Levels /\ h < up /\ Awaited(h) /\ ~falling /\ up \in 1 .. 4
      /\ \A l : l < h => ~Awaited(l)
      /\ opens \in Nat /\ opens > 0
  BY <1>1, <1>2, TodoFacts, TodoForms DEF TypeOK, Shape
<1>4. coreLoaded'
  <2>1. CASE h = Core
    BY <1>2, <2>1
  <2>2. CASE h # Core
    <3>1. Core < h /\ Core < up
      BY <1>3, <2>2, Numbers
    <3>2. QED
      BY <1>1, <1>2, <1>3, <3>1 DEF Shape
  <2>3. QED
    BY <2>1, <2>2
<1>5. "cut_short" \notin mishaps => \A l \in Levels : l < h => l \in tables
  BY <1>1, <1>3, Numbers DEF TablesBelow
<1>7. Tidy => ~twice'
  <2>1. Tidy => Clean /\ ~twice
    BY <1>1 DEF TidyLife, Tidy, Clean
  <2>2. Clean => h \notin tables
    BY <1>1, <1>3 DEF BindingIsDown
  <2>3. QED
    BY <1>2, <2>1, <2>2
<1>9. \A l, k \in Levels : l \in tables' /\ k < l /\ "cut_short" \notin mishaps => k \in tables'
  <2> SUFFICES ASSUME NEW l \in Levels, NEW k \in Levels, l \in tables', k < l,
                      "cut_short" \notin mishaps
               PROVE  k \in tables'
    OBVIOUS
  <2>1. CASE l = h
    BY <1>2, <1>5, <2>1
  <2>2. CASE l # h
    BY <1>1, <1>2, <2>2 DEF LevelsInOrder
  <2>3. QED
    BY <2>1, <2>2
<1>10. CASE ~(ok /\ ~poisoned)
  <2> DEFINE why == IF ok THEN "poison" ELSE "load"
  <2>1. /\ Panic(why) /\ UNCHANGED loaded /\ why \in Mishaps
        /\ why = "poison" => poisoned
        /\ why \notin {"registration", "stage_deinit", "stage_init"}
    BY <1>10 DEF LoadLevel, Mishaps
  <2> HIDE DEF why
  <2>2. /\ phase' = "idle" /\ todo' = <<>> /\ pending' = [c \in Classes |-> 0]
        /\ mishaps' \subseteq Mishaps /\ mishaps \subseteq mishaps'
        /\ \A k : ~Awaited(k)'
        /\ "cut_short" \notin mishaps' => "cut_short" \notin mishaps /\ ~(Len(todo) > 1)
        /\ Clean' => Clean
        /\ Tidy' => Tidy
        /\ "late_connect" \notin mishaps' => "late_connect" \notin mishaps
        /\ "poison" \in mishaps' => "poison" \in mishaps \/ poisoned
    BY <1>1, <2>1, PanicFacts
  <2>3. \A c \in Classes : pending[c] = 0 /\ pending'[c] = 0
    BY <1>1, <1>2, <2>2 DEF Shape, NothingPending
  <2>4. TypeOK'
    <3>1. Booleans'
      BY <1>1, <1>2, TypeParts DEF Booleans
    <3>2. Numerals'
      BY <1>1, <1>2, <2>1, <2>2, Numbers, TypeParts DEF Numerals
    <3>3. Names'
      BY <1>1, <1>2, <1>3, <2>2, TypeParts DEF Names
    <3>4. QED
      BY <3>1, <3>2, <3>3 DEF TypeOK, Booleans, Numerals, Names
  <2>5. Shape'
    BY <1>1, <1>2, <1>3, <1>4, <2>2, Numbers DEF Shape, Loading, Unloading, NothingPending
  <2>6. LoadsLeft' /\ PendingIsLoaded'
    BY <1>1, <1>2, <2>1, <2>2 DEF LoadsLeft, PendingIsLoaded, Loading
  <2>7. LevelsInOrder'
    BY <1>1, <1>2, <1>9, <2>2 DEF LevelsInOrder, TypeOK
  <2>8. TablesBelow'
    BY <1>1, <1>2, <2>2, ShortTodo DEF TablesBelow
  <2>9. LoadedBelow'
    BY <1>1, <1>2, <2>1, <2>2 DEF LoadedBelow
  <2>10. KnownIsLoaded'
    <3>1. registered \cup singletons \subseteq Classes
      BY <1>1, Numbers DEF TypeOK
    <3>2. QED
      BY <1>1, <1>2, <2>1, <2>2, <2>3, <3>1 DEF KnownIsLoaded
  <2>11. BindingIsDown'
    BY <1>1, <1>2, <1>3, <2>2 DEF BindingIsDown
  <2>12. ConnectionsStored'
    BY <1>1, <1>2, <1>3, <2>2 DEF ConnectionsStored, IsConnected
  <2>13. TidyLife'
    <3> SUFFICES ASSUME Tidy' PROVE TidyLife'
      BY DEF TidyLife
    <3>1. Tidy /\ ~poisoned' /\ ~twice' /\ "poison" \notin mishaps'
      BY <1>1, <1>2, <1>7, <2>2 DEF TidyLife
    <3>2. \A c \in Classes : loaded'[c] <= 1 /\ pending'[c] <= 1
      BY <1>1, <2>1, <2>3, <3>1 DEF TidyLife
    <3>3. \A c \in Singletons : loaded[c] > 0 => c \in singletons
      BY <1>1, <1>2, <3>1 DEF TidyLife, SingletonThere
    <3>4. QED
      BY <1>2, <2>1, <2>2, <3>1, <3>2, <3>3 DEF TidyLife, SingletonThere
  <2>14. QED
    BY <2>4, <2>5, <2>6, <2>7, <2>8, <2>9, <2>10, <2>11, <2>12, <2>13 DEF IInv
<1>11. CASE ok /\ ~poisoned
  <2>1. /\ pending' = [c \in Classes |-> IF LevelOf[c] = h THEN 1 ELSE 0]
        /\ loaded' = [c \in Classes |-> loaded[c] + pending'[c]]
        /\ phase' = "classes" /\ UNCHANGED <<todo, mishaps>>
    BY <1>11 DEF LoadLevel, RegisterLoaded
  <2>2. \A l : Awaited(l)' <=> Awaited(l) /\ l # h
    BY <1>1, <1>2, <2>1, HeadIsLoaded
  <2>3. \A c \in Classes : /\ LevelOf[c] = h => loaded'[c] = loaded[c] + 1 /\ pending'[c] = 1
                           /\ LevelOf[c] # h => loaded'[c] = loaded[c] /\ pending'[c] = 0
                           /\ loaded[c] \in Nat
    BY <1>1, <2>1 DEF TypeOK
  <2>4. \A c \in Classes : LevelOf[c] = h => loaded[c] < opens
    BY <1>1, <1>2, <1>3 DEF LoadsLeft
  <2>5. TypeOK'
    <3>1. Booleans'
      BY <1>1, <1>2, TypeParts DEF Booleans
    <3>2. loaded' \in [Classes -> 0 .. opens] /\ pending' \in [Classes -> 0 .. opens]
      <4>1. \A c \in Classes : loaded[c] + pending'[c] \in 0 .. opens
        BY <1>1, <1>3, <2>3, <2>4 DEF TypeOK
      <4>2. QED
        BY <1>3, <2>1, <4>1
    <3>3. Numerals'
      BY <1>1, <1>2, <2>1, <3>2, Numbers, TypeParts DEF Numerals
    <3>4. Names'
      BY <1>1, <1>2, <1>3, <2>1, TypeParts DEF Names
    <3>5. QED
      BY <3>1, <3>3, <3>4 DEF TypeOK, Booleans, Numerals, Names
  <2>6. Shape'
    <3>1. todo' \in Todos'
      BY <1>1, <1>2, <2>1 DEF Shape, Todos
    <3>2. QED
      BY <1>1, <1>2, <1>3, <1>4, <2>1, <3>1 DEF Shape, Loading, Unloading
  <2>7. LoadsLeft' /\ PendingIsLoaded'
    <3>1. LoadsLeft'
      BY <1>1, <1>2, <1>3, <2>2, <2>3, Numbers DEF LoadsLeft
    <3>2. PendingIsLoaded'
      BY <2>1, <2>3 DEF PendingIsLoaded
    <3>3. QED
      BY <3>1, <3>2
  <2>8. LevelsInOrder'
    BY <1>1, <1>2, <1>3, <1>9, <2>1 DEF LevelsInOrder, TypeOK
  <2>9. TablesBelow'
    BY <1>1, <1>2, <2>1, <2>2 DEF TablesBelow
  <2>10. LoadedBelow' /\ KnownIsLoaded'
    <3>1. LoadedBelow'
      BY <1>1, <1>2, <1>3, <2>1, <2>2, <2>3 DEF LoadedBelow, Clean
    <3>2. ASSUME Clean', NEW c \in registered' \cup singletons' PROVE loaded'[c] + pending'[c] > 0
      <4>1. c \in Classes /\ pending[c] = 0 /\ loaded[c] + pending[c] > 0
        BY <1>1, <1>2, <2>1, <3>2, Numbers DEF KnownIsLoaded, Clean, TypeOK, Shape, NothingPending
      <4>2. QED
        BY <2>3, <4>1
    <3>3. QED
      BY <3>1, <3>2 DEF KnownIsLoaded
  <2>11. BindingIsDown'
    BY <1>1, <1>2, <1>3, <2>1, <2>2 DEF BindingIsDown, Clean
  <2>12. ConnectionsStored'
    BY <1>1, <1>2, <1>3, <2>1 DEF ConnectionsStored, IsConnected, Clean
  <2>13. TidyLife'
    <3> SUFFICES ASSUME Tidy' PROVE TidyLife'
      BY DEF TidyLife
    <3>1. Tidy /\ Clean /\ ~poisoned' /\ ~twice' /\ "poison" \notin mishaps'
      BY <1>1, <1>2, <1>7, <2>1 DEF Tidy, TidyLife, Clean
    <3>2. \A c \in Classes : LevelOf[c] = h => ~(loaded[c] > 0)
      BY <1>1, <1>3, <3>1 DEF LoadedBelow
    <3>3. \A c \in Classes : loaded'[c] <= 1 /\ pending'[c] <= 1
      BY <1>1, <2>3, <3>1, <3>2 DEF TidyLife
    <3>4. \A c \in Singletons : loaded'[c] > 0 => c \in singletons \/ LevelOf[c] = h
      <4>1. \A c \in Singletons : pending[c] = 0 /\ (loaded[c] > 0 => c \in singletons)
        BY <1>1, <1>2, <3>1, Numbers DEF TidyLife, SingletonThere, Shape, NothingPending
      <4>2. QED
        BY <2>3, <4>1, Numbers
    <3>5. QED
      BY <1>2, <2>1, <3>1, <3>3, <3>4 DEF TidyLife, SingletonThere
  <2>14. QED
    BY <2>5, <2>6, <2>7, <2>8, <2>9, <2>10, <2>11, <2>12, <2>13 DEF IInv
<1>12. QED
  BY <1>10, <1>11

(* A class or a singleton is registered.                                      *)
LEMMA RegisterKeeps ==
  ASSUME IInv, NEW c \in Classes, pending[c] > 0, pending' = [pending EXCEPT ![c] = 0],
         UNCHANGED <<engine, binding, loaded, poisoned, signals, phase, todo, mishaps>>,
         \/ /\ phase = "classes" /\ registered' \subseteq registered \cup {c}
            /\ UNCHANGED singletons
         \/ phase = "singletons" /\ singletons' = singletons \cup {c} /\ UNCHANGED registered
  PROVE  IInv'
<1>1. /\ TypeOK /\ Shape /\ LoadsLeft /\ PendingIsLoaded /\ LevelsInOrder /\ TablesBelow
      /\ LoadedBelow /\ KnownIsLoaded /\ BindingIsDown /\ ConnectionsStored /\ TidyLife
  BY DEF IInv
<1>2. /\ UNCHANGED <<opens, editor, isOpen, up, falling, coreLoaded, bound, tables, twice,
                     loaded, poisoned, conn, stored, phase, todo, mishaps>>
      /\ Loading /\ phase \in {"classes", "singletons"}
  BY DEF engine, binding, signals, Loading
<1>3. \A k : Awaited(k)' <=> Awaited(k)
  BY <1>2, AwaitedSame
<1>4. /\ pending'[c] = 0 /\ \A d \in Classes \ {c} : pending'[d] = pending[d]
      /\ \A d \in Classes : pending'[d] > 0 => pending[d] > 0 /\ d # c
  BY <1>1 DEF TypeOK
<1>5. /\ registered' \subseteq Classes /\ singletons' \subseteq Singletons
      /\ registered' \cup singletons' \subseteq registered \cup singletons \cup {c}
      /\ singletons \subseteq singletons' /\ (phase = "singletons" => c \in singletons')
  BY <1>1, <1>2 DEF TypeOK, PendingIsLoaded
<1>6. TypeOK'
  <2>1. Booleans'
    BY <1>1, <1>2, TypeParts DEF Booleans
  <2>2. pending' \in [Classes -> 0 .. opens]
    BY <1>1 DEF TypeOK
  <2>3. Numerals'
    BY <1>1, <1>2, <2>2, TypeParts DEF Numerals
  <2>4. Names'
    BY <1>1, <1>2, <1>5, TypeParts DEF Names
  <2>5. QED
    BY <2>1, <2>3, <2>4 DEF TypeOK, Booleans, Numerals, Names
<1>7. Shape'
  BY <1>1, <1>2, <1>3 DEF Shape, Loading, Unloading, Todos
<1>8. LoadsLeft' /\ PendingIsLoaded' /\ LevelsInOrder' /\ TablesBelow'
  BY <1>1, <1>2, <1>3, <1>4
  DEF LoadsLeft, PendingIsLoaded, Loading, LevelsInOrder, TablesBelow
<1>9. LoadedBelow' /\ BindingIsDown' /\ ConnectionsStored'
  BY <1>1, <1>2, <1>3 DEF LoadedBelow, BindingIsDown, ConnectionsStored, IsConnected, Clean
<1>10. KnownIsLoaded'
  <2>1. ASSUME Clean', NEW d \in registered' \cup singletons' PROVE loaded'[d] + pending'[d] > 0
    <3>1. d \in Classes /\ Clean
      BY <1>2, <1>5, <2>1, Numbers DEF Clean
    <3>2. loaded[d] \in Nat /\ pending[d] \in Nat /\ pending'[d] \in Nat
      BY <1>1, <1>4, <3>1 DEF TypeOK
    <3>3. loaded[d] + pending[d] > 0 \/ pending[d] > 0
      BY <1>1, <1>5, <2>1, <3>1 DEF KnownIsLoaded
    <3>4. pending[d] > 0 => loaded[d] > 0
      BY <1>1, <1>2, <3>1 DEF PendingIsLoaded
    <3>5. QED
      BY <1>2, <3>2, <3>3, <3>4
  <2>2. QED
    BY <2>1 DEF KnownIsLoaded
<1>11. TidyLife'
  <2> SUFFICES ASSUME Tidy' PROVE TidyLife'
    BY DEF TidyLife
  <2>1. Tidy /\ ~poisoned' /\ ~twice' /\ "poison" \notin mishaps'
    BY <1>1, <1>2 DEF Tidy, TidyLife
  <2>2. \A d \in Classes : loaded'[d] <= 1 /\ pending'[d] <= 1
    BY <1>1, <1>2, <1>4, <2>1 DEF TidyLife
  <2>3. ASSUME NEW d \in Singletons, loaded[d] > 0
        PROVE  \/ d \in singletons'
               \/ phase = "classes" /\ LevelOf[d] = Head(todo)
               \/ phase = "singletons" /\ pending'[d] > 0
    <3>1. \/ d \in singletons
          \/ phase = "classes" /\ LevelOf[d] = Head(todo)
          \/ phase = "singletons" /\ pending[d] > 0
      BY <1>1, <2>1, <2>3 DEF TidyLife, SingletonThere
    <3>2. QED
      BY <1>4, <1>5, <3>1, Numbers
  <2>4. QED
    BY <1>2, <2>1, <2>2, <2>3 DEF TidyLife, SingletonThere
<1>12. QED
  BY <1>6, <1>7, <1>8, <1>9, <1>10, <1>11 DEF IInv

LEMMA RegisterStep ==
  ASSUME IInv, NEW c \in Classes, NEW accepted \in BOOLEAN, NEW ok \in BOOLEAN,
         RegisterClass(c, accepted, ok) \/ RegisterSingleton(c, ok)
  PROVE  IInv'
<1>1. CASE ok
  BY <1>1, RegisterKeeps DEF RegisterClass, RegisterSingleton, Registers, At
<1>2. CASE ~ok
  <2>1. registered \subseteq Classes
    BY DEF IInv, TypeOK
  <2>2. Loading /\ Panic("registration") /\ pending[c] > 0
        /\ UNCHANGED <<engine, binding, loaded, poisoned, signals>>
        /\ singletons' = singletons /\ registered' \subseteq registered \cup {c}
    BY <1>2 DEF RegisterClass, RegisterSingleton, Registers, At, Loading
  <2>3. UNCHANGED <<opens, editor, isOpen, up, falling, coreLoaded, bound, tables, twice,
                    loaded, poisoned, conn, stored>>
    BY <2>2 DEF engine, binding, signals
  <2>4. registered' \subseteq Classes /\ \A d \in registered' : d \in registered \/ pending[d] > 0
    BY <2>1, <2>2
  <2>5. "registration" \in {"registration", "stage_init"} /\ "registration" # "stage_init"
    OBVIOUS
  <2>6. QED
    BY <2>2, <2>3, <2>4, <2>5, PanicWhileLoading
<1>3. QED
  BY <1>1, <1>2

(* All classes of the level are registered, and its singletons are next.      *)
LEMMA ClassesRegisteredStep == IInv /\ ClassesRegistered => IInv'
<1> SUFFICES ASSUME IInv, ClassesRegistered PROVE IInv'
  OBVIOUS
<1> DEFINE h == Head(todo)
<1>1. /\ TypeOK /\ Shape /\ LoadsLeft /\ PendingIsLoaded /\ LevelsInOrder /\ TablesBelow
      /\ LoadedBelow /\ KnownIsLoaded /\ BindingIsDown /\ ConnectionsStored /\ TidyLife
  BY DEF IInv
<1>2. /\ phase = "classes" /\ phase' = "singletons" /\ todo # <<>> /\ opens > 0
      /\ \A c \in Classes : pending[c] = 0
      /\ pending' = [c \in Classes |-> IF c \in SingletonsOf(h) THEN 1 ELSE 0]
      /\ UNCHANGED <<opens, editor, isOpen, up, falling, todo, coreLoaded, bound, tables, twice,
                     loaded, poisoned, registered, singletons, conn, stored, mishaps>>
  BY <1>1, TodoForms
  DEF ClassesRegistered, At, NothingPending, engine, binding, registry, signals, Shape, Loading
<1>3. \A k : Awaited(k)' <=> Awaited(k)
  BY <1>2, AwaitedSame
<1>4. \A c \in Classes : /\ pending'[c] = 0 \/ pending'[c] = 1
                         /\ pending'[c] > 0 <=> c \in Singletons /\ LevelOf[c] = h
  BY <1>2 DEF SingletonsOf
<1>5. TypeOK'
  <2>1. Booleans'
    BY <1>1, <1>2, TypeParts DEF Booleans
  <2>2. pending' \in [Classes -> 0 .. opens]
    BY <1>1, <1>2 DEF TypeOK
  <2>3. Numerals'
    BY <1>1, <1>2, <2>2, TypeParts DEF Numerals
  <2>4. Names'
    BY <1>1, <1>2, TypeParts DEF Names
  <2>5. QED
    BY <2>1, <2>3, <2>4 DEF TypeOK, Booleans, Numerals, Names
<1>6. Shape'
  BY <1>1, <1>2, <1>3 DEF Shape, Loading, Unloading, Todos
<1>7. LoadsLeft' /\ PendingIsLoaded' /\ LevelsInOrder' /\ TablesBelow'
  BY <1>1, <1>2, <1>3, <1>4
  DEF LoadsLeft, PendingIsLoaded, Loading, LevelsInOrder, TablesBelow
<1>8. LoadedBelow' /\ BindingIsDown' /\ ConnectionsStored'
  BY <1>1, <1>2, <1>3 DEF LoadedBelow, BindingIsDown, ConnectionsStored, IsConnected, Clean
<1>9. KnownIsLoaded'
  <2>1. ASSUME Clean', NEW d \in registered' \cup singletons' PROVE loaded'[d] + pending'[d] > 0
    <3>1. d \in Classes /\ pending[d] = 0 /\ loaded[d] + pending[d] > 0
      BY <1>1, <1>2, <2>1, Numbers DEF TypeOK, KnownIsLoaded, Clean
    <3>2. loaded[d] \in Nat /\ pending'[d] \in {0, 1}
      BY <1>1, <1>4, <3>1 DEF TypeOK
    <3>3. QED
      BY <1>2, <3>1, <3>2
  <2>2. QED
    BY <2>1 DEF KnownIsLoaded
<1>10. TidyLife'
  <2> SUFFICES ASSUME Tidy' PROVE TidyLife'
    BY DEF TidyLife
  <2>1. Tidy /\ ~poisoned' /\ ~twice' /\ "poison" \notin mishaps'
    BY <1>1, <1>2 DEF Tidy, TidyLife
  <2>2. \A d \in Classes : loaded'[d] <= 1 /\ pending'[d] <= 1
    BY <1>1, <1>2, <1>4, <2>1 DEF TidyLife
  <2>3. \A d \in Singletons : loaded[d] > 0 => d \in singletons \/ pending'[d] > 0
    BY <1>1, <1>2, <1>4, <2>1, Numbers DEF TidyLife, SingletonThere
  <2>4. QED
    BY <1>2, <2>1, <2>2, <2>3 DEF TidyLife, SingletonThere
<1>11. QED
  BY <1>5, <1>6, <1>7, <1>8, <1>9, <1>10 DEF IInv

(* on_stage_init, the last step of a level.                                   *)
LEMMA OnStageInitStep ==
  ASSUME IInv, NEW ok \in BOOLEAN, OnStageInit(ok)
  PROVE  IInv'
<1>1. /\ TypeOK /\ Shape /\ LoadsLeft /\ PendingIsLoaded /\ LevelsInOrder /\ TablesBelow
      /\ LoadedBelow /\ KnownIsLoaded /\ BindingIsDown /\ ConnectionsStored /\ TidyLife
  BY DEF IInv
<1>2. /\ phase = "singletons" /\ NothingPending /\ todo # <<>>
      /\ UNCHANGED <<opens, editor, isOpen, up, falling, coreLoaded, bound, tables, twice,
                     loaded, poisoned, registered, singletons, conn, stored>>
  BY <1>1 DEF OnStageInit, At, engine, binding, registry, signals, Shape, Loading
<1>3. CASE ~ok
  <2>1. Loading /\ Panic("stage_init") /\ registered' \subseteq Classes
        /\ \A d \in registered' : d \in registered
    BY <1>1, <1>2, <1>3 DEF OnStageInit, Loading, TypeOK
  <2>2. "stage_init" \in {"registration", "stage_init"}
    OBVIOUS
  <2>3. QED
    BY <1>2, <2>1, <2>2, PanicWhileLoading
<1>4. CASE ok
  <2>1. phase' = "idle" /\ todo' = Tail(todo) /\ UNCHANGED <<pending, mishaps>>
    BY <1>4 DEF OnStageInit
  <2>2. /\ \A k : Awaited(k)' <=> Awaited(k)
        /\ todo' \in Seq(Levels) /\ Len(todo') <= 3
        /\ todo' # <<>> => todo' \in Todos'
    BY <1>1, <1>2, <2>1, HeadIsDone
  <2>3. TypeOK'
    <3>1. Booleans'
      BY <1>1, <1>2, TypeParts DEF Booleans
    <3>2. Numerals'
      BY <1>1, <1>2, <2>1, <2>2, TypeParts DEF Numerals
    <3>3. Names'
      BY <1>1, <1>2, <2>1, TypeParts DEF Names
    <3>4. QED
      BY <3>1, <3>2, <3>3 DEF TypeOK, Booleans, Numerals, Names
  <2>4. Shape'
    BY <1>1, <1>2, <2>1, <2>2, TodoForms DEF Shape, Loading, Unloading, NothingPending
  <2>5. LoadsLeft' /\ PendingIsLoaded' /\ LevelsInOrder' /\ TablesBelow'
    BY <1>1, <1>2, <2>1, <2>2
    DEF LoadsLeft, PendingIsLoaded, Loading, LevelsInOrder, TablesBelow
  <2>6. LoadedBelow' /\ KnownIsLoaded' /\ BindingIsDown' /\ ConnectionsStored'
    BY <1>1, <1>2, <2>1, <2>2, TodoForms
    DEF LoadedBelow, KnownIsLoaded, BindingIsDown, ConnectionsStored, IsConnected, Clean
  <2>7. TidyLife'
    BY <1>1, <1>2, <2>1, Numbers DEF TidyLife, SingletonThere, Tidy, NothingPending
  <2>8. QED
    BY <2>3, <2>4, <2>5, <2>6, <2>7 DEF IInv
<1>5. QED
  BY <1>3, <1>4
-----------------------------------------------------------------------------
(* Levels are unloaded, and user code or the registry may panic.              *)
LEMMA PanicWhileUnloading ==
  ASSUME IInv, Unloading, NEW why \in {"stage_deinit", "poison"}, Panic(why), ~Tidy \/ ~Tidy',
         UNCHANGED <<opens, editor, isOpen, up, falling, coreLoaded, bound, tables, twice,
                     loaded, registered, singletons>>,
         poisoned' = poisoned \/ (poisoned' = TRUE /\ why = "poison"),
         conn' \in [Connections -> {"none", "live", "disconnected", "freed"}],
         stored' \subseteq Connections
  PROVE  IInv'
<1>1. /\ TypeOK /\ Shape /\ LoadsLeft /\ PendingIsLoaded /\ LevelsInOrder /\ TablesBelow
      /\ LoadedBelow /\ KnownIsLoaded /\ BindingIsDown /\ ConnectionsStored /\ TidyLife
  BY DEF IInv
<1>2. why \in Mishaps /\ falling /\ isOpen
  BY <1>1 DEF Mishaps, Shape
<1>3. /\ phase' = "idle" /\ todo' = <<>> /\ pending' = [c \in Classes |-> 0]
      /\ mishaps' \subseteq Mishaps /\ mishaps \subseteq mishaps' /\ why \in mishaps'
      /\ \A k : ~Awaited(k)'
      /\ "cut_short" \notin mishaps' => "cut_short" \notin mishaps
      /\ ~Clean'
      /\ Tidy' => Tidy
  BY <1>1, <1>2, PanicFacts
<1>4. ~Tidy'
  BY <1>3
<1>5. TypeOK'
  <2>1. Booleans'
    BY <1>1, TypeParts DEF Booleans
  <2>2. Numerals'
    BY <1>1, <1>3, Numbers, TypeParts DEF Numerals
  <2>3. Names'
    BY <1>1, <1>3, TypeParts DEF Names
  <2>4. QED
    BY <2>1, <2>2, <2>3 DEF TypeOK, Booleans, Numerals, Names
<1>6. Shape'
  BY <1>1, <1>2, <1>3 DEF Shape, Loading, Unloading, NothingPending
<1>7. LoadsLeft' /\ PendingIsLoaded' /\ LevelsInOrder' /\ TablesBelow'
  BY <1>1, <1>2, <1>3 DEF LoadsLeft, PendingIsLoaded, Loading, LevelsInOrder, TablesBelow
<1>8. LoadedBelow' /\ KnownIsLoaded' /\ ConnectionsStored' /\ TidyLife'
  BY <1>3, <1>4 DEF LoadedBelow, KnownIsLoaded, ConnectionsStored, TidyLife
<1>9. BindingIsDown'
  BY <1>1, <1>3 DEF BindingIsDown
<1>10. QED
  BY <1>5, <1>6, <1>7, <1>8, <1>9 DEF IInv

LEMMA OnStageDeinitPanicsStep == IInv /\ OnStageDeinitPanics => IInv'
<1> SUFFICES ASSUME IInv, OnStageDeinitPanics PROVE IInv'
  OBVIOUS
<1>1. /\ Unloading /\ Panic("stage_deinit") /\ TypeOK /\ "stage_deinit" \in Mishaps
      /\ UNCHANGED <<opens, editor, isOpen, up, falling, coreLoaded, bound, tables, twice,
                     loaded, poisoned, registered, singletons, conn, stored>>
  BY DEF IInv, OnStageDeinitPanics, At, Unloading, Mishaps, engine, binding, registry, signals
<1>2. "stage_deinit" \in {"stage_deinit", "poison"}
  OBVIOUS
<1>3. ~Tidy'
  BY <1>1, PanicFacts
<1>4. QED
  BY <1>1, <1>2, <1>3, PanicWhileUnloading DEF TypeOK

(* The connections are pruned at the editor level, and the classes of the     *)
(* level taken out of the registry.                                            *)
LEMMA OnStageDeinitStep == IInv /\ OnStageDeinit => IInv'
<1> SUFFICES ASSUME IInv, OnStageDeinit PROVE IInv'
  OBVIOUS
<1>1. /\ TypeOK /\ Shape /\ LoadsLeft /\ PendingIsLoaded /\ LevelsInOrder /\ TablesBelow
      /\ LoadedBelow /\ KnownIsLoaded /\ BindingIsDown /\ ConnectionsStored /\ TidyLife
  BY DEF IInv
<1>2. /\ phase = "stage_deinit" /\ isOpen /\ falling /\ todo = <<>>
      /\ UNCHANGED <<opens, editor, isOpen, up, falling, coreLoaded, bound, tables, twice,
                     poisoned, registered, singletons>>
      /\ IF up = Editor THEN PruneStored ELSE UNCHANGED <<conn, stored>>
  BY <1>1 DEF OnStageDeinit, At, engine, binding, signals, Shape, Unloading
<1>3. /\ conn' \in [Connections -> {"none", "live", "disconnected", "freed"}]
      /\ stored' \subseteq Connections
  BY <1>1, <1>2 DEF PruneStored, TypeOK
<1>4. editor /\ Clean /\ "late_connect" \notin mishaps => \A x \in Connections : conn'[x] # "live"
  <2> SUFFICES ASSUME editor, Clean, "late_connect" \notin mishaps, NEW x \in Connections
               PROVE  conn'[x] # "live"
    OBVIOUS
  <2>1. CASE IsConnected(x)
    <3>1. x \in stored /\ up = Editor
      BY <1>1, <1>2, <2>1 DEF ConnectionsStored
    <3>2. QED
      BY <1>2, <2>1, <3>1 DEF PruneStored
  <2>2. CASE ~IsConnected(x)
    BY <1>2, <2>2 DEF PruneStored, IsConnected
  <2>3. QED
    BY <2>1, <2>2
<1>5. CASE poisoned
  <2>1. Unloading /\ Panic("poison") /\ UNCHANGED loaded /\ ~Tidy
    BY <1>1, <1>2, <1>5 DEF OnStageDeinit, Unloading, TidyLife
  <2>2. "poison" \in {"stage_deinit", "poison"}
    OBVIOUS
  <2>3. QED
    BY <1>2, <1>3, <2>1, <2>2, PanicWhileUnloading
<1>6. CASE ~poisoned
  <2>1. /\ pending' = [c \in Classes |-> IF LevelOf[c] = up THEN loaded[c] ELSE 0]
        /\ loaded' = [c \in Classes |-> IF LevelOf[c] = up THEN 0 ELSE loaded[c]]
        /\ phase' = "unregister" /\ UNCHANGED <<todo, mishaps>>
    BY <1>6 DEF OnStageDeinit, Removed
  <2>2. (\A k : ~Awaited(k)) /\ (\A k : ~Awaited(k)')
    BY <1>2, <2>1, NothingAwaited DEF Awaited
  <2>3. \A c \in Classes :
          /\ pending[c] = 0 /\ loaded[c] \in Nat
          /\ LevelOf[c] = up => pending'[c] = loaded[c] /\ loaded'[c] = 0
          /\ LevelOf[c] # up => pending'[c] = 0 /\ loaded'[c] = loaded[c]
          /\ loaded'[c] + pending'[c] = loaded[c]
    BY <1>1, <1>2, <2>1 DEF TypeOK, Shape, NothingPending
  <2>4. TypeOK'
    <3>1. Booleans'
      BY <1>1, <1>2, TypeParts DEF Booleans
    <3>2. loaded' \in [Classes -> 0 .. opens] /\ pending' \in [Classes -> 0 .. opens]
      BY <1>1, <2>1 DEF TypeOK
    <3>3. Numerals'
      BY <1>1, <1>2, <2>1, <3>2, TypeParts DEF Numerals
    <3>4. Names'
      BY <1>1, <1>2, <1>3, <2>1, TypeParts DEF Names
    <3>5. QED
      BY <3>1, <3>3, <3>4 DEF TypeOK, Booleans, Numerals, Names
  <2>5. Shape'
    BY <1>1, <1>2, <2>1 DEF Shape, Loading, Unloading
  <2>6. LoadsLeft' /\ PendingIsLoaded' /\ LevelsInOrder' /\ TablesBelow'
    BY <1>1, <1>2, <2>1, <2>2 DEF LoadsLeft, PendingIsLoaded, Loading, LevelsInOrder, TablesBelow
  <2>7. LoadedBelow'
    BY <1>1, <1>2, <2>1, <2>2, <2>3 DEF LoadedBelow, Clean
  <2>8. KnownIsLoaded'
    <3>1. \A d \in registered \cup singletons : d \in Classes
      BY <1>1, Numbers DEF TypeOK
    <3>2. ASSUME Clean, NEW d \in registered \cup singletons PROVE loaded'[d] + pending'[d] > 0
      BY <1>1, <2>3, <3>1, <3>2 DEF KnownIsLoaded
    <3>3. QED
      BY <1>2, <2>1, <3>2 DEF KnownIsLoaded, Clean
  <2>9. BindingIsDown'
    BY <1>1, <1>2, <2>1 DEF BindingIsDown, Clean
  <2>10. ConnectionsStored'
    BY <1>2, <1>4, <2>1 DEF ConnectionsStored, IsConnected, Clean
  <2>11. TidyLife'
    <3> SUFFICES ASSUME Tidy' PROVE TidyLife'
      BY DEF TidyLife
    <3>1. Tidy /\ ~poisoned' /\ ~twice' /\ "poison" \notin mishaps'
      BY <1>1, <1>2, <2>1 DEF Tidy, TidyLife
    <3>2. \A d \in Classes : loaded[d] <= 1
      BY <1>1, <3>1 DEF TidyLife
    <3>3. \A d \in Classes : loaded'[d] <= 1 /\ pending'[d] <= 1 /\ loaded'[d] + pending'[d] <= 1
      BY <2>3, <3>2
    <3>4. \A d \in Singletons : loaded[d] > 0 => d \in singletons
      BY <1>1, <1>2, <3>1 DEF TidyLife, SingletonThere
    <3>5. \A d \in Singletons : (loaded'[d] > 0 => d \in singletons) /\ (pending'[d] > 0 => d \in singletons)
      BY <2>3, <3>4, Numbers
    <3>6. QED
      BY <1>2, <2>1, <3>1, <3>3, <3>5 DEF TidyLife, SingletonThere
  <2>12. QED
    BY <2>4, <2>5, <2>6, <2>7, <2>8, <2>9, <2>10, <2>11 DEF IInv
<1>7. QED
  BY <1>5, <1>6

(* A class of the level leaves the engine.                                    *)
LEMMA UnregisterClassStep ==
  ASSUME IInv, NEW c \in Classes, UnregisterClass(c)
  PROVE  IInv'
<1>1. /\ TypeOK /\ Shape /\ LoadsLeft /\ PendingIsLoaded /\ LevelsInOrder /\ TablesBelow
      /\ LoadedBelow /\ KnownIsLoaded /\ BindingIsDown /\ ConnectionsStored /\ TidyLife
  BY DEF IInv
<1>2. /\ phase = "unregister" /\ Unloading /\ pending[c] > 0
      /\ UNCHANGED <<opens, editor, isOpen, up, falling, coreLoaded, bound, tables, twice,
                     loaded, conn, stored>>
  BY DEF UnregisterClass, At, engine, binding, signals, Unloading
<1>3. CASE SingletonGone(c)
  <2>1. Panic("poison") /\ poisoned' = TRUE /\ UNCHANGED <<registered, singletons>>
    BY <1>3 DEF UnregisterClass
  <2>2. ~Tidy
    BY <1>1, <1>2, <1>3 DEF SingletonGone, TidyLife, SingletonThere
  <2>3. "poison" \in {"stage_deinit", "poison"}
    OBVIOUS
  <2>4. QED
    BY <1>1, <1>2, <2>1, <2>2, <2>3, PanicWhileUnloading DEF TypeOK
<1>4. CASE ~SingletonGone(c)
  <2>1. /\ singletons' = singletons \ {c} /\ registered' = registered \ {c}
        /\ pending' = [pending EXCEPT ![c] = pending[c] - 1]
        /\ UNCHANGED <<phase, todo, poisoned, mishaps>>
    BY <1>4 DEF UnregisterClass
  <2>2. \A k : Awaited(k)' <=> Awaited(k)
    BY <2>1, AwaitedSame
  <2>3. /\ pending'[c] = pending[c] - 1 /\ \A d \in Classes \ {c} : pending'[d] = pending[d]
        /\ pending[c] \in Nat /\ pending[c] \in 0 .. opens /\ opens \in Nat
    <3>1. /\ pending \in [Classes -> 0 .. opens] /\ opens \in 0 .. MaxOpens
      BY <1>1 DEF TypeOK
    <3>2. pending[c] \in 0 .. opens /\ opens \in Nat
      BY <3>1, Numbers
    <3>3. /\ pending'[c] = pending[c] - 1
          /\ \A d \in Classes \ {c} : pending'[d] = pending[d]
      BY <2>1, <3>1
    <3>4. QED
      BY <3>2, <3>3
  <2>4. TypeOK'
    <3>1. Booleans'
      BY <1>1, <1>2, <2>1, TypeParts DEF Booleans
    <3>2. pending' \in [Classes -> 0 .. opens]
      <4>1. pending[c] - 1 \in 0 .. opens
        BY <1>2, <2>3
      <4>2. QED
        BY <1>1, <2>1, <4>1 DEF TypeOK
    <3>3. Numerals'
      BY <1>1, <1>2, <2>1, <3>2, TypeParts DEF Numerals
    <3>4. Names'
      BY <1>1, <1>2, <2>1, TypeParts DEF Names
    <3>5. QED
      BY <3>1, <3>3, <3>4 DEF TypeOK, Booleans, Numerals, Names
  <2>5. Shape'
    BY <1>1, <1>2, <2>1, <2>2 DEF Shape, Loading, Unloading, Todos
  <2>6. LoadsLeft' /\ PendingIsLoaded' /\ LevelsInOrder' /\ TablesBelow'
    BY <1>1, <1>2, <2>1, <2>2 DEF LoadsLeft, PendingIsLoaded, Loading, LevelsInOrder, TablesBelow
  <2>7. LoadedBelow' /\ BindingIsDown' /\ ConnectionsStored'
    BY <1>1, <1>2, <2>1, <2>2 DEF LoadedBelow, BindingIsDown, ConnectionsStored, IsConnected, Clean
  <2>8. KnownIsLoaded'
    <3>1. ASSUME Clean, NEW d \in registered' \cup singletons' PROVE loaded[d] + pending'[d] > 0
      <4>1. d \in registered \cup singletons /\ d \in Classes /\ d # c
        BY <1>1, <2>1, <3>1, Numbers DEF TypeOK
      <4>2. loaded[d] + pending[d] > 0
        BY <1>1, <3>1, <4>1 DEF KnownIsLoaded
      <4>3. QED
        BY <2>3, <4>1, <4>2
    <3>2. QED
      BY <1>2, <2>1, <3>1 DEF KnownIsLoaded, Clean
  <2>9. TidyLife'
    <3> SUFFICES ASSUME Tidy' PROVE TidyLife'
      BY DEF TidyLife
    <3>1. Tidy /\ ~poisoned' /\ ~twice' /\ "poison" \notin mishaps'
      BY <1>1, <1>2, <2>1 DEF Tidy, TidyLife
    <3>2. \A d \in Classes : /\ loaded[d] <= 1 /\ pending[d] <= 1 /\ loaded[d] + pending[d] <= 1
                             /\ loaded[d] \in Nat /\ pending[d] \in Nat
      BY <1>1, <1>2, <3>1 DEF TidyLife, TypeOK
    <3>3. pending'[c] = 0 /\ loaded[c] = 0
      BY <1>2, <2>3, <3>2
    <3>4. \A d \in Classes : pending'[d] <= 1 /\ loaded[d] + pending'[d] <= 1
      BY <2>3, <3>2, <3>3
    <3>5. ASSUME NEW d \in Singletons, loaded[d] > 0 \/ pending'[d] > 0 PROVE d \in singletons'
      <4>1. d # c
        BY <3>3, <3>5
      <4>2. d \in Classes /\ pending'[d] = pending[d]
        BY <2>3, <4>1, Numbers
      <4>3. d \in singletons
        BY <1>1, <1>2, <3>1, <3>5, <4>2 DEF TidyLife, SingletonThere
      <4>4. QED
        BY <2>1, <4>1, <4>3
    <3>6. QED
      BY <1>2, <2>1, <3>1, <3>2, <3>4, <3>5 DEF TidyLife, SingletonThere
  <2>10. QED
    BY <2>4, <2>5, <2>6, <2>7, <2>8, <2>9 DEF IInv
<1>5. QED
  BY <1>3, <1>4

(* All classes of the level are gone; at Core, the binding goes too.          *)
LEMMA LevelDeinitializedStep == IInv /\ LevelDeinitialized => IInv'
<1> SUFFICES ASSUME IInv, LevelDeinitialized PROVE IInv'
  OBVIOUS
<1>1. /\ TypeOK /\ Shape /\ LoadsLeft /\ PendingIsLoaded /\ LevelsInOrder /\ TablesBelow
      /\ LoadedBelow /\ KnownIsLoaded /\ BindingIsDown /\ ConnectionsStored /\ TidyLife
  BY DEF IInv
<1>2. /\ phase = "unregister" /\ isOpen /\ falling /\ todo = <<>> /\ NothingPending
      /\ phase' = "idle"
      /\ IF up = Core THEN bound' = FALSE /\ tables' = {} ELSE UNCHANGED <<bound, tables>>
      /\ UNCHANGED <<opens, editor, isOpen, up, falling, todo, pending, coreLoaded, twice,
                     loaded, poisoned, registered, singletons, conn, stored, mishaps>>
  BY <1>1 DEF LevelDeinitialized, DeinitializeBinding, At, engine, registry, signals,
              Shape, Unloading
<1>3. (\A k : ~Awaited(k)) /\ (\A k : ~Awaited(k)')
  BY <1>2, NothingAwaited DEF Awaited
<1>4. TypeOK'
  <2>1. Booleans'
    BY <1>1, <1>2, TypeParts DEF Booleans
  <2>2. Numerals'
    BY <1>1, <1>2, TypeParts DEF Numerals
  <2>3. Names'
    BY <1>1, <1>2, TypeParts DEF Names
  <2>4. QED
    BY <2>1, <2>2, <2>3 DEF TypeOK, Booleans, Numerals, Names
<1>5. Shape'
  BY <1>1, <1>2 DEF Shape, Loading, Unloading, NothingPending
<1>6. LoadsLeft' /\ PendingIsLoaded' /\ LevelsInOrder' /\ TablesBelow'
  BY <1>1, <1>2, <1>3 DEF LoadsLeft, PendingIsLoaded, Loading, LevelsInOrder, TablesBelow
<1>7. LoadedBelow' /\ KnownIsLoaded'
  BY <1>1, <1>2, <1>3 DEF LoadedBelow, KnownIsLoaded, Clean
<1>8. BindingIsDown'
  BY <1>1, <1>2, <1>3 DEF BindingIsDown, Clean
<1>9. ConnectionsStored'
  BY <1>1, <1>2 DEF ConnectionsStored, IsConnected, Clean
<1>10. TidyLife'
  BY <1>1, <1>2 DEF TidyLife, SingletonThere, Tidy
<1>11. QED
  BY <1>4, <1>5, <1>6, <1>7, <1>8, <1>9, <1>10 DEF IInv

(* Connections are made and end.                                              *)
LEMMA ConnectionKeeps ==
  ASSUME IInv,
         conn' \in [Connections -> {"none", "live", "disconnected", "freed"}],
         stored' \subseteq Connections, mishaps' = mishaps \/ mishaps' = mishaps \cup {"late_connect"},
         ConnectionsStored',
         UNCHANGED <<opens, editor, isOpen, up, falling, phase, todo, pending, coreLoaded, bound,
                     tables, twice, loaded, poisoned, registered, singletons>>
  PROVE  IInv'
<1>1. /\ TypeOK /\ Shape /\ LoadsLeft /\ PendingIsLoaded /\ LevelsInOrder /\ TablesBelow
      /\ LoadedBelow /\ KnownIsLoaded /\ BindingIsDown /\ TidyLife
  BY DEF IInv
<1>2. \A k : Awaited(k)' <=> Awaited(k)
  BY AwaitedSame
<1>3. /\ Clean' => Clean
      /\ Tidy' => Tidy
      /\ "cut_short" \notin mishaps' => "cut_short" \notin mishaps
      /\ "poison" \in mishaps' <=> "poison" \in mishaps
      /\ mishaps' \subseteq Mishaps
  BY <1>1 DEF Clean, Tidy, TypeOK, Mishaps
<1>4. TypeOK'
  <2>1. Booleans'
    BY <1>1, TypeParts DEF Booleans
  <2>2. Numerals'
    BY <1>1, TypeParts DEF Numerals
  <2>3. Names'
    BY <1>1, <1>3, TypeParts DEF Names
  <2>4. QED
    BY <2>1, <2>2, <2>3 DEF TypeOK, Booleans, Numerals, Names
<1>5. Shape'
  BY <1>1, <1>2 DEF Shape, Loading, Unloading, NothingPending, Todos
<1>6. LoadsLeft' /\ PendingIsLoaded' /\ LevelsInOrder' /\ TablesBelow'
  BY <1>1, <1>2, <1>3 DEF LoadsLeft, PendingIsLoaded, Loading, LevelsInOrder, TablesBelow
<1>7. LoadedBelow' /\ KnownIsLoaded' /\ BindingIsDown'
  BY <1>1, <1>2, <1>3 DEF LoadedBelow, KnownIsLoaded, BindingIsDown
<1>8. TidyLife'
  BY <1>1, <1>3 DEF TidyLife, SingletonThere
<1>9. QED
  BY <1>4, <1>5, <1>6, <1>7, <1>8 DEF IInv

LEMMA ConnectStep ==
  ASSUME IInv, NEW x \in Connections, Connect(x)
  PROVE  IInv'
<1>1. /\ TypeOK /\ ConnectionsStored /\ isOpen /\ conn[x] = "none"
      /\ conn' = [conn EXCEPT ![x] = "live"] /\ stored' = StoreConnection(x)
      /\ mishaps' = mishaps \cup (IF IsLate THEN {"late_connect"} ELSE {})
      /\ UNCHANGED <<opens, editor, isOpen, up, falling, phase, todo, pending, coreLoaded, bound,
                     tables, twice, loaded, poisoned, registered, singletons>>
  BY DEF IInv, Connect, UserRuns, At, engine, binding, registry
<1>2. /\ conn' \in [Connections -> {"none", "live", "disconnected", "freed"}]
      /\ stored' \subseteq Connections
      /\ mishaps' = mishaps \/ mishaps' = mishaps \cup {"late_connect"}
  BY <1>1 DEF TypeOK, StoreConnection
<1>3. ConnectionsStored'
  <2> SUFFICES ASSUME editor, Clean', "late_connect" \notin mishaps', NEW y \in Connections,
                      conn'[y] = "live"
               PROVE  /\ y \in stored' /\ isOpen
                      /\ falling => up = Editor /\ phase = "stage_deinit"
    BY <1>1 DEF ConnectionsStored, IsConnected
  <2>1. ~IsLate /\ Clean /\ "late_connect" \notin mishaps
    BY <1>1 DEF Clean
  <2>2. y = x \/ conn[y] = "live"
    BY <1>1 DEF TypeOK
  <2>3. y = x \/ (y \in stored /\ conn[y] # "freed")
    BY <1>1, <2>1, <2>2 DEF ConnectionsStored, IsConnected
  <2>4. QED
    BY <1>1, <2>1, <2>3 DEF StoreConnection, IsLate
<1>4. QED
  BY <1>1, <1>2, <1>3, ConnectionKeeps

LEMMA EndConnectionStep ==
  ASSUME IInv, NEW x \in Connections, NEW how \in {"disconnected", "freed"}, EndConnection(x, how)
  PROVE  IInv'
<1>1. /\ TypeOK /\ ConnectionsStored /\ conn' = [conn EXCEPT ![x] = how]
      /\ UNCHANGED <<opens, editor, isOpen, up, falling, phase, todo, pending, coreLoaded, bound,
                     tables, twice, loaded, poisoned, registered, singletons, stored, mishaps>>
  BY DEF IInv, EndConnection, UserRuns, At, engine, binding, registry
<1>2. /\ conn' \in [Connections -> {"none", "live", "disconnected", "freed"}]
      /\ \A y \in Connections : conn'[y] = "live" => conn[y] = "live"
      /\ stored' \subseteq Connections
  BY <1>1 DEF TypeOK
<1>3. ConnectionsStored'
  BY <1>1, <1>2 DEF ConnectionsStored, IsConnected, Clean
<1>4. QED
  BY <1>1, <1>2, <1>3, ConnectionKeeps
-----------------------------------------------------------------------------
(* The invariant holds in every behavior.                                     *)
LEMMA NextIInv == IInv /\ [Next]_vars => IInv'
<1> SUFFICES ASSUME IInv, [Next]_vars PROVE IInv'
  OBVIOUS
<1>1. ASSUME Open \/ \E keepsStatics \in BOOLEAN : Close(keepsStatics) PROVE IInv'
  BY <1>1, OpenStep, CloseStep
<1>2. ASSUME NEW l \in Levels, InitializeLayer(l) PROVE IInv'
  BY <1>2, InitializeLayerStep
<1>3. ASSUME ClassesRegistered PROVE IInv'
  BY <1>3, ClassesRegisteredStep
<1>4. ASSUME NEW c \in Classes, NEW accepted \in BOOLEAN, NEW ok \in BOOLEAN,
             RegisterClass(c, accepted, ok) \/ RegisterSingleton(c, ok)
      PROVE  IInv'
  BY <1>4, RegisterStep
<1>5. ASSUME NEW ok \in BOOLEAN, LoadLevel(ok) \/ OnStageInit(ok) PROVE IInv'
  BY <1>5, LoadLevelStep, OnStageInitStep
<1>6. ASSUME DeinitializeLayer \/ OnStageDeinitPanics \/ OnStageDeinit PROVE IInv'
  BY <1>6, DeinitializeLayerStep, OnStageDeinitPanicsStep, OnStageDeinitStep
<1>7. ASSUME NEW c \in Classes, UnregisterClass(c) PROVE IInv'
  BY <1>7, UnregisterClassStep
<1>8. ASSUME LevelDeinitialized PROVE IInv'
  BY <1>8, LevelDeinitializedStep
<1>9. ASSUME NEW x \in Connections, Connect(x) PROVE IInv'
  BY <1>9, ConnectStep
<1>10. ASSUME NEW x \in Connections, NEW how \in {"disconnected", "freed"}, EndConnection(x, how)
       PROVE  IInv'
  BY <1>10, EndConnectionStep
<1>11. ASSUME UNCHANGED vars PROVE IInv'
  <2>1. UNCHANGED <<opens, editor, isOpen, up, falling, phase, todo, pending, coreLoaded, bound,
                    tables, twice, loaded, poisoned, registered, singletons, conn, stored, mishaps>>
    BY <1>11 DEF vars, engine, binding, registry, signals
  <2>2. IInv' = IInv
    BY <2>1 DEF IInv, TypeOK, Shape, LoadsLeft, PendingIsLoaded, LevelsInOrder, TablesBelow,
                LoadedBelow, KnownIsLoaded, BindingIsDown, ConnectionsStored, TidyLife, Awaited,
                Todos, Loading, Unloading, NothingPending, Clean, Tidy, IsConnected, SingletonThere
  <2>3. QED
    BY <2>2
<1>12. QED
  BY <1>1, <1>2, <1>3, <1>4, <1>5, <1>6, <1>7, <1>8, <1>9, <1>10, <1>11 DEF Next

LEMMA SpecIInv == Spec => []IInv
BY InitIInv, NextIInv, PTL DEF Spec
-----------------------------------------------------------------------------
(* For any classes, and however often the library is opened, every variable   *)
(* keeps its type: a class has at most as many entries as there were openings. *)
THEOREM SpecTypeOK == Spec => []TypeOK
<1>1. IInv => TypeOK
  BY DEF IInv
<1>2. QED
  BY <1>1, SpecIInv, PTL

(* The method tables are loaded from the lowest level up, whichever level the *)
(* engine starts with, unless a panic cut the loading of lower levels short.  *)
THEOREM SpecLevelsInOrder == Spec => []LevelsInOrder
<1>1. IInv => LevelsInOrder
  BY DEF IInv
<1>2. QED
  BY <1>1, SpecIInv, PTL

(* While the library is open, a class or singleton that the engine knows has  *)
(* an entry, or is about to be unregistered, wherever registration panicked.  *)
THEOREM SpecRegisteredIsLoaded == Spec => []RegisteredIsLoaded
<1>1. IInv => RegisteredIsLoaded
  BY DEF IInv, KnownIsLoaded, Clean, RegisteredIsLoaded
<1>2. QED
  BY <1>1, SpecIInv, PTL

(* Poisoned locks and double initialization come from a panic of registration *)
(* code or of on_stage_deinit; and a closed library left nothing behind,      *)
(* whatever panicked while levels were loaded, if nothing panicked while they *)
(* were unloaded and no connection was made after the editor level fell.      *)
THEOREM SpecCleanUnload == Spec => []CleanUnload
<1>1. IInv => CleanUnload
  <2> SUFFICES ASSUME IInv PROVE CleanUnload
    OBVIOUS
  <2>1. poisoned \/ twice => mishaps \cap {"registration", "stage_deinit"} # {}
    BY DEF IInv, TidyLife, Tidy
  <2>2. ASSUME ~isOpen, mishaps \subseteq {"stage_init", "cut_short", "load", "registration"}
        PROVE  /\ registered = {} /\ singletons = {}
               /\ editor => \A x \in Connections : ~IsConnected(x)
               /\ ~bound /\ ~coreLoaded /\ tables = {} /\ ~poisoned
               /\ \A c \in Classes : loaded[c] = 0
    <3>1. /\ TypeOK /\ Shape /\ LoadedBelow /\ KnownIsLoaded /\ BindingIsDown
          /\ ConnectionsStored /\ Clean /\ "late_connect" \notin mishaps
          /\ "poison" \notin mishaps
      BY <2>2 DEF IInv, Clean
    <3>2. up = Core /\ phase = "idle" /\ \A c \in Classes : pending[c] = 0
      BY <2>2, <3>1 DEF Shape, NothingPending
    <3>3. \A c \in Classes : loaded[c] = 0
      <4> SUFFICES ASSUME NEW c \in Classes PROVE loaded[c] = 0
        OBVIOUS
      <4>1. loaded \in [Classes -> 0 .. opens] /\ opens \in 0 .. MaxOpens
        BY <3>1 DEF TypeOK
      <4>2. loaded[c] \in 0 .. opens /\ opens \in Nat
        BY <4>1, Numbers
      <4>3. LevelOf[c] \in 0 .. 3 /\ up = 0
        BY <3>2, Numbers
      <4>4. ~(LevelOf[c] < up)
        BY <4>3
      <4>5. phase # "stage_deinit"
        BY <3>2
      <4>6. ~(loaded[c] > 0)
        BY <3>1, <4>4, <4>5 DEF LoadedBelow
      <4>7. QED
        BY <4>2, <4>6
    <3>4. registered \cup singletons \subseteq Classes
      BY <3>1, Numbers DEF TypeOK
    <3>5. registered = {} /\ singletons = {}
      BY <3>1, <3>2, <3>3, <3>4 DEF KnownIsLoaded
    <3>6. editor => \A x \in Connections : ~IsConnected(x)
      BY <2>2, <3>1 DEF ConnectionsStored
    <3>7. ~bound /\ tables = {} /\ ~poisoned
      BY <2>2, <3>1 DEF BindingIsDown
    <3>8. ~coreLoaded
      BY <3>1, <3>2, Numbers DEF Shape
    <3>9. QED
      BY <3>3, <3>5, <3>6, <3>7, <3>8
  <2>3. QED
    BY <2>1, <2>2 DEF CleanUnload
<1>2. QED
  BY <1>1, SpecIInv, PTL
=============================================================================
