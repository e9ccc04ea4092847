--------------------------- MODULE ObjectLifeProofs ---------------------------
(* For any objects and any nesting of calls: reference counts are exact, a    *)
(* strong reference keeps its object alive, also while it is constructed, and *)
(* no method runs on an object whose storage is gone.                          *)
EXTENDS ObjectLife, FiniteSetTheorems, SequenceTheorems, TLAPS

(* An object that was not constructed yet has no references.                  *)
Unborn == \A o \in Objects : life[o] = "none" =>
            freed[o] = "no" /\ gds[o] = 0 /\ engine[o] = 0 /\ o \notin pending

(* What a frame in progress says of the life of its object, and which         *)
(* reference keeps an object alive while its constructor or first             *)
(* notification runs: the unclaimed one, or the surplus one of to_init_gd.    *)
FrameHolds(f) ==
  /\ f.kind = "init" => life[f.obj] \in {"base", "dead"}
  /\ f.kind = "init" /\ f.obj \in Counted => life[f.obj] = "base"
  /\ f.kind \in {"postinit", "method"} => life[f.obj] = "whole"
  /\ f.kind = "method" /\ f.obj \in Counted => ~unclaimed[f.obj]
  /\ f.kind = "drop" => life[f.obj] = "dying"
  /\ f.kind \in {"init", "postinit"} =>
       /\ gds[f.obj] <= MaxRefs + 1 /\ engine[f.obj] <= 1
       /\ f.obj \in Counted => unclaimed[f.obj] \/ f.obj \in pending

FramesHold == \A i \in DOMAIN stack : FrameHolds(stack[i])

(* An object is constructed once, and destroyed once.                         *)
OnceEach ==
  \A i, j \in DOMAIN stack :
    /\ stack[i].obj = stack[j].obj
    /\ {stack[i].kind, stack[j].kind} \subseteq {"init", "postinit", "drop"}
    => i = j

(* A live object was not destroyed before, and one that is counted has        *)
(* references; nobody but its constructor has it before the first is claimed. *)
Referenced ==
  crash = "none" =>
    \A o \in Objects : IsValid(o) =>
      /\ freed[o] = "no"
      /\ o \in Counted => /\ count[o] >= 1
                          /\ unclaimed[o] => gds[o] = 0 /\ engine[o] = 0 /\ o \notin pending

(* A call through a Gd borrows it until it returns.                           *)
Pinned == \A o \in Objects : Pins(o) <= gds[o]

IInv == /\ TypeOK /\ Unborn /\ FramesHold /\ OnceEach /\ Referenced /\ Pinned
        /\ CountMatchesRefs /\ StrongGdIsValid /\ BoundCrashHasCause
-----------------------------------------------------------------------------
(* Stacks: s is what a step leaves of the frames, below one it may add.       *)
Once == {"init", "postinit", "drop"}
Below(s) ==
  /\ s \in Seq(Frames)
  /\ \A i \in DOMAIN s : s[i].kind = "unref" \/ (i \in DOMAIN stack /\ s[i] = stack[i])

Remains(f, s) == \E i \in DOMAIN s : s[i] = f

PinsIn(s, o) ==
  {i \in DOMAIN s : s[i].kind = "method" /\ s[i].obj = o /\ s[i].by = "rust"}

LEMMA TopFacts ==
  ASSUME TypeOK, stack # <<>>
  PROVE  /\ Len(stack) \in Nat \ {0} /\ Top = stack[Len(stack)] /\ Top \in Frames
         /\ Front(stack) \in Seq(Frames) /\ Len(Front(stack)) = Len(stack) - 1
         /\ \A i \in 1 .. Len(stack) - 1 : Front(stack)[i] = stack[i]
         /\ Below(Front(stack))
<1>1. /\ stack \in Seq(Frames) /\ Len(stack) \in Nat \ {0} /\ Top = stack[Len(stack)]
      /\ Top \in Frames /\ \A i \in 1 .. Len(stack) : stack[i] \in Frames
  BY DEF TypeOK, Top, Last
<1>2. /\ Front(stack) \in Seq(Frames) /\ Len(Front(stack)) = Len(stack) - 1
      /\ \A i \in 1 .. Len(stack) - 1 : Front(stack)[i] = stack[i]
  <2>1. /\ 1 \in Int /\ Len(stack) - 1 \in Int
        /\ \A i \in 1 .. Len(stack) - 1 : stack[i] \in Frames
    BY <1>1
  <2>2. /\ SubSeq(stack, 1, Len(stack) - 1) \in Seq(Frames)
        /\ Len(SubSeq(stack, 1, Len(stack) - 1))
             = IF 1 <= Len(stack) - 1 THEN Len(stack) - 1 - 1 + 1 ELSE 0
        /\ \A i \in 1 .. Len(stack) - 1 - 1 + 1 :
             SubSeq(stack, 1, Len(stack) - 1)[i] = stack[1 + i - 1]
    BY ONLY <2>1, SubSeqProperties
  <2>3. Len(stack) - 1 - 1 + 1 = Len(stack) - 1 /\ \A i \in 1 .. Len(stack) - 1 : 1 + i - 1 = i
    BY <1>1
  <2>4. QED
    BY <1>1, <2>2, <2>3 DEF Front
<1>3. Below(Front(stack))
  <2>1. DOMAIN Front(stack) = 1 .. Len(stack) - 1 /\ DOMAIN stack = 1 .. Len(stack)
    BY <1>1, <1>2
  <2>2. QED
    BY <1>1, <1>2, <2>1 DEF Below
<1>4. QED
  BY <1>1, <1>2, <1>3

LEMMA PinsFacts ==
  ASSUME NEW s \in Seq(Frames), NEW o
  PROVE  IsFiniteSet(PinsIn(s, o)) /\ Cardinality(PinsIn(s, o)) \in Nat
<1>1. PinsIn(s, o) \in SUBSET (1 .. Len(s)) /\ Len(s) \in Nat
  BY DEF PinsIn
<1>2. 1 \in Int /\ Len(s) \in Int
  BY <1>1
<1>3. IsFiniteSet(1 .. Len(s))
  BY <1>2, FS_Interval
<1>4. QED
  BY <1>1, <1>3, FS_Subset, FS_CardinalityType

LEMMA PinsAppend ==
  ASSUME NEW s \in Seq(Frames), NEW f \in Frames, NEW o
  PROVE  Cardinality(PinsIn(Append(s, f), o)) =
           Cardinality(PinsIn(s, o)) +
             (IF f.kind = "method" /\ f.obj = o /\ f.by = "rust" THEN 1 ELSE 0)
<1>1. /\ Len(s) \in Nat /\ DOMAIN Append(s, f) = DOMAIN s \cup {Len(s) + 1}
      /\ \A i \in DOMAIN s : Append(s, f)[i] = s[i]
      /\ Append(s, f)[Len(s) + 1] = f /\ Len(s) + 1 \notin DOMAIN s
  OBVIOUS
<1>2. PinsIn(Append(s, f), o) =
        IF f.kind = "method" /\ f.obj = o /\ f.by = "rust"
        THEN PinsIn(s, o) \cup {Len(s) + 1} ELSE PinsIn(s, o)
  BY <1>1 DEF PinsIn
<1>3. Len(s) + 1 \notin PinsIn(s, o)
  BY <1>1 DEF PinsIn
<1>4. Cardinality(PinsIn(s, o) \cup {Len(s) + 1}) = Cardinality(PinsIn(s, o)) + 1
  BY <1>3, PinsFacts, FS_AddElement
<1>5. QED
  BY <1>2, <1>4, PinsFacts

LEMMA PinsBelow ==
  ASSUME TypeOK, NEW s, Below(s), NEW o
  PROVE  Cardinality(PinsIn(s, o)) <= Cardinality(PinsIn(stack, o))
<1>1. PinsIn(s, o) \in SUBSET PinsIn(stack, o)
  BY DEF PinsIn, Below
<1>2. IsFiniteSet(PinsIn(stack, o))
  BY PinsFacts DEF TypeOK
<1>3. QED
  BY <1>1, <1>2, FS_Subset

LEMMA PinsAre == \A o : Pins(o) = Cardinality(PinsIn(stack, o))
<1> SUFFICES ASSUME NEW o
             PROVE  PinsIn(stack, o) = {i \in FramesOf({"method"}, o) : stack[i].by = "rust"}
  BY DEF Pins
<1>1. QED
  BY DEF PinsIn, FramesOf

LEMMA NextPinsAre == \A o : Pins(o)' = Cardinality(PinsIn(stack', o))
<1> SUFFICES ASSUME NEW o
             PROVE  PinsIn(stack', o)
                      = {i \in FramesOf({"method"}, o)' : stack'[i].by = "rust"}
  BY DEF Pins
<1>1. QED
  BY DEF PinsIn, FramesOf

LEMMA BoundAre ==
  \A o : IsBound(o) <=> \E i \in DOMAIN stack :
                          stack[i].kind \in {"method", "postinit"} /\ stack[i].obj = o
BY DEF IsBound, FramesOf

LEMMA NextBoundAre ==
  \A o : IsBound(o)' <=> \E i \in DOMAIN stack' :
                           stack'[i].kind \in {"method", "postinit"} /\ stack'[i].obj = o
BY DEF IsBound, FramesOf

(* What a step that leaves s, or adds a frame to it, does to the stack's part *)
(* of the invariant.                                                           *)
StackParts ==
  /\ stack' \in Seq(Frames) /\ FramesHold' /\ OnceEach'

LEMMA StackLeft ==
  ASSUME TypeOK, FramesHold, OnceEach, NEW s, Below(s), stack' = s,
         \A f \in Frames : Remains(f, s) /\ FrameHolds(f) => FrameHolds(f)'
  PROVE  /\ StackParts
         /\ \A o : Pins(o)' \in Nat /\ Pins(o)' <= Pins(o) /\ (IsBound(o)' => IsBound(o))
<1>0. s \in Seq(Frames) /\ stack \in Seq(Frames)
  BY DEF Below, TypeOK
<1>1. FramesHold'
  <2> SUFFICES ASSUME NEW i \in DOMAIN s, NEW f \in Frames, f = s[i] PROVE FrameHolds(f)'
    BY <1>0 DEF FramesHold
  <2>1. FrameHolds(f)
    BY DEF Below, FramesHold, FrameHolds
  <2>2. QED
    BY <2>1 DEF Remains
<1>2. OnceEach'
  BY DEF OnceEach, Below
<1>3. \A o : Pins(o)' \in Nat /\ Pins(o)' <= Pins(o)
  BY <1>0, PinsBelow, PinsFacts, PinsAre, NextPinsAre
<1>4. \A o : IsBound(o)' => IsBound(o)
  BY BoundAre, NextBoundAre DEF Below
<1>5. QED
  BY <1>0, <1>1, <1>2, <1>3, <1>4 DEF StackParts

LEMMA StackAdded ==
  ASSUME TypeOK, FramesHold, OnceEach, NEW s, Below(s), NEW g \in Frames,
         stack' = Append(s, g),
         \A f \in Frames : Remains(f, s) /\ FrameHolds(f) => FrameHolds(f)',
         FrameHolds(g)',
         g.kind \in Once => \A f \in Frames : Remains(f, s) /\ f.kind \in Once => f.obj # g.obj
  PROVE  /\ StackParts
         /\ \A o : /\ Pins(o)' \in Nat
                   /\ Pins(o)' <= Pins(o) +
                        (IF g.kind = "method" /\ g.obj = o /\ g.by = "rust" THEN 1 ELSE 0)
                   /\ IsBound(o)' => \/ IsBound(o)
                                     \/ g.kind \in {"method", "postinit"} /\ g.obj = o
<1>0. s \in Seq(Frames) /\ stack \in Seq(Frames) /\ stack' \in Seq(Frames)
  BY DEF Below, TypeOK
<1>a. /\ Len(s) \in Nat /\ DOMAIN stack' = DOMAIN s \cup {Len(s) + 1}
      /\ \A i \in DOMAIN s : stack'[i] = s[i] /\ s[i] \in Frames
      /\ stack'[Len(s) + 1] = g /\ Len(s) + 1 \notin DOMAIN s
  BY <1>0
<1>1. FramesHold'
  <2>1. ASSUME NEW i \in DOMAIN s, NEW f \in Frames, f = s[i] PROVE FrameHolds(f)'
    <3>1. FrameHolds(f)
      BY <2>1 DEF Below, FramesHold, FrameHolds
    <3>2. QED
      BY <2>1, <3>1 DEF Remains
  <2>2. ASSUME NEW i \in DOMAIN stack', NEW f \in Frames, f = stack'[i] PROVE FrameHolds(f)'
    BY <1>a, <2>1, <2>2
  <2>3. \A i \in DOMAIN stack' : stack'[i] \in Frames
    BY <1>0
  <2>4. QED
    BY <2>2, <2>3 DEF FramesHold
<1>2. OnceEach'
  <2>1. \A i \in DOMAIN s : Remains(s[i], s)
    BY DEF Remains
  <2>2. ASSUME g.kind \in Once PROVE \A i \in DOMAIN s : s[i].kind \in Once => s[i].obj # g.obj
    BY <1>a, <2>1, <2>2
  <2>3. QED
    BY <1>a, <2>2 DEF OnceEach, Below, Once
<1>3. \A o : /\ Pins(o)' \in Nat
             /\ Pins(o)' <= Pins(o) +
                  (IF g.kind = "method" /\ g.obj = o /\ g.by = "rust" THEN 1 ELSE 0)
  <2> SUFFICES ASSUME NEW o
               PROVE  LET c == Cardinality(PinsIn(stack', o))
                      IN  /\ c \in Nat
                          /\ c <= Cardinality(PinsIn(stack, o)) +
                              (IF g.kind = "method" /\ g.obj = o /\ g.by = "rust" THEN 1 ELSE 0)
    BY PinsAre, NextPinsAre
  <2>1. /\ Cardinality(PinsIn(s, o)) \in Nat /\ Cardinality(PinsIn(stack', o)) \in Nat
        /\ Cardinality(PinsIn(stack, o)) \in Nat
    BY <1>0, PinsFacts
  <2>2. QED
    BY <1>0, <2>1, PinsBelow, PinsAppend
<1>4. ASSUME NEW o, IsBound(o)'
      PROVE  IsBound(o) \/ (g.kind \in {"method", "postinit"} /\ g.obj = o)
  <2>1. PICK i \in DOMAIN stack' : stack'[i].kind \in {"method", "postinit"} /\ stack'[i].obj = o
    BY <1>4, NextBoundAre
  <2>2. QED
    BY <1>a, <2>1, BoundAre DEF Below
<1>5. QED
  BY <1>0, <1>1, <1>2, <1>3, <1>4 DEF StackParts
LEMMA RemainsBelow ==
  ASSUME NEW s, Below(s), NEW f \in Frames, Remains(f, s), f.kind # "unref"
  PROVE  \E i \in DOMAIN stack : stack[i] = f
BY DEF Below, Remains

LEMMA TopOnce ==
  ASSUME TypeOK, OnceEach, stack # <<>>, Top.kind \in Once
  PROVE  \A f \in Frames : Remains(f, Front(stack)) /\ f.kind \in Once => f.obj # Top.obj
<1>1. /\ Len(stack) \in Nat \ {0} /\ Top = stack[Len(stack)]
      /\ Front(stack) \in Seq(Frames) /\ Len(Front(stack)) = Len(stack) - 1
      /\ \A i \in 1 .. Len(stack) - 1 : Front(stack)[i] = stack[i]
  BY TopFacts
<1> SUFFICES ASSUME NEW f \in Frames, NEW i \in DOMAIN Front(stack), Front(stack)[i] = f,
                    f.kind \in Once, f.obj = Top.obj
             PROVE  FALSE
  BY DEF Remains
<1>2. /\ i \in DOMAIN stack /\ Len(stack) \in DOMAIN stack /\ i # Len(stack)
      /\ stack[i] = f
  <2>1. DOMAIN Front(stack) = 1 .. Len(stack) - 1 /\ DOMAIN stack = 1 .. Len(stack)
    BY <1>1 DEF TypeOK
  <2>2. QED
    BY <1>1, <2>1
<1>3. QED
  BY <1>1, <1>2 DEF OnceEach, Once

(* The stack as it is, as what a step leaves.                                 *)
LEMMA BelowFacts ==
  ASSUME TypeOK
  PROVE  /\ Below(stack) /\ Len(stack) \in Nat /\ Len(stack) <= MaxFrames
         /\ \A o : Pins(o) \in Nat
         /\ \A f : Remains(f, stack) <=> \E i \in DOMAIN stack : stack[i] = f
<1>1. \A o : Pins(o) \in Nat
  BY PinsAre, PinsFacts DEF TypeOK
<1>2. QED
  BY <1>1 DEF TypeOK, Below, Remains

(* No method runs on an object that was destroyed before the process died.    *)
LEMMA BoundNotFreed ==
  ASSUME TypeOK, FramesHold, Referenced, crash = "none", NEW o \in Objects, IsBound(o)
  PROVE  life[o] = "whole" /\ freed[o] = "no"
<1>1. PICK i \in DOMAIN stack : stack[i].kind \in {"method", "postinit"} /\ stack[i].obj = o
  BY BoundAre
<1>2. life[o] = "whole"
  BY <1>1 DEF FramesHold, FrameHolds
<1>3. QED
  BY <1>2 DEF Referenced, IsValid

NoCrash == crash = "none"

LEMMA NoCrashNeedsNoCause ==
  TypeOK /\ FramesHold /\ Referenced /\ NoCrash => BoundCrashHasCause
BY BoundNotFreed DEF BoundCrashHasCause, NoCrash

(* What every step does to the references: their types, and that only one     *)
(* object's change.                                                           *)
RefsTyped ==
  /\ panicking' \in BOOLEAN /\ manual' = manual /\ pending' \subseteq Counted
  /\ count' \in [Objects -> Nat] /\ unclaimed' \in [Objects -> BOOLEAN]
  /\ gds' \in [Objects -> 0..(MaxRefs + 2)] /\ engine' \in [Objects -> 0..2]
  /\ deferred' \in [Objects -> Nat]

OnlyRefsOf(o) ==
  \A p \in Objects \ {o} :
    /\ gds'[p] = gds[p] /\ engine'[p] = engine[p] /\ count'[p] = count[p]
    /\ unclaimed'[p] = unclaimed[p] /\ (p \in pending' <=> p \in pending)

Causes == {"unref", "init", "engine", "free", "upcast"}
-----------------------------------------------------------------------------
(* Destroying an object keeps the invariant, if its other references are gone *)
(* or its constructor panicked.                                               *)
LEMMA DestroyKeeps ==
  ASSUME IInv, crash = "none", NEW o \in Objects, IsValid(o), NEW s, Below(s),
         Len(s) <= MaxFrames, NEW why \in Causes, Destroy(o, s, why),
         RefsTyped, OnlyRefsOf(o), gds'[o] <= gds[o], engine'[o] <= engine[o],
         unclaimed'[o] = unclaimed[o], Pins(o) <= gds'[o],
         o \in Counted => gds'[o] = 0 \/ why = "init",
         \A f \in Frames :
           Remains(f, s) /\ f.kind \in {"init", "postinit"} /\ f.obj = o /\ o \in Counted =>
             life[o] = "whole" /\ pending' = pending,
         IsBound(o) => \/ o \in manual /\ why \in {"engine", "upcast"}
                       \/ o \in Counted /\ Pins(o) = 0
  PROVE  IInv'
<1> USE DEF Causes
<1>1. TypeOK /\ FramesHold /\ OnceEach /\ Referenced
  BY DEF IInv
<1>2. Counted' = Counted /\ Counted \subseteq Objects
  BY <1>1 DEF Counted, RefsTyped, TypeOK
<1>3. /\ freed' = [freed EXCEPT ![o] = why]
      /\ \A p \in Objects \ {o} : life'[p] = life[p] /\ freed'[p] = freed[p]
      /\ freed'[o] = why /\ life' \in [Objects -> {"none", "base", "whole", "dying", "dead"}]
      /\ freed' \in [Objects -> {"no", "unref", "init", "engine", "free", "upcast"}]
  BY <1>1 DEF Destroy, TypeOK
<1>4. \/ /\ crash' = "bound" /\ life' = life /\ life[o] = "whole" /\ IsBound(o) /\ stack' = s
      \/ /\ crash' = "none" /\ life[o] = "whole" /\ ~IsBound(o) /\ life'[o] = "dying"
         /\ Len(s) < MaxFrames /\ stack' = Append(s, Frame("drop", o, "engine"))
      \/ crash' = "none" /\ life[o] = "base" /\ life'[o] = "dead" /\ stack' = s
  BY <1>1 DEF Destroy, StorageInUse, TypeOK, Push, IsValid
<1>5. \A f \in Frames : Remains(f, s) /\ FrameHolds(f) => FrameHolds(f)'
  <2> SUFFICES ASSUME NEW f \in Frames, Remains(f, s), FrameHolds(f) PROVE FrameHolds(f)'
    OBVIOUS
  <2>1. CASE f.kind = "unref"
    BY <2>1 DEF FrameHolds
  <2>2. CASE f.obj # o
    BY <1>2, <1>3, <2>2 DEF FrameHolds, OnlyRefsOf, Frames
  <2>3. CASE f.kind # "unref" /\ f.obj = o
    <3>1. PICK i \in DOMAIN stack : stack[i] = f
      BY <2>3, RemainsBelow
    <3>2. f.kind \in {"method", "postinit"} => IsBound(o)
      BY <2>3, <3>1, BoundAre
    <3>3. f.kind \in {"init", "postinit"} => gds'[o] <= MaxRefs + 1 /\ engine'[o] <= 1
      <4>1. /\ gds[o] \in Int /\ gds'[o] \in Int /\ engine[o] \in Int /\ engine'[o] \in Int
            /\ MaxRefs \in Nat
        BY <1>1, ObjectLifeAssumption DEF RefsTyped, TypeOK
      <4>2. QED
        BY <2>3, <4>1 DEF FrameHolds
    <3>4. f.kind \in {"init", "postinit"} /\ o \in Counted =>
            /\ life[o] = "whole" /\ pending' = pending
            /\ unclaimed'[o] \/ o \in pending'
      BY <2>3 DEF FrameHolds
    <3>5. QED
      BY <1>2, <1>4, <2>3, <3>2, <3>3, <3>4 DEF FrameHolds
  <2>4. QED
    BY <2>1, <2>2, <2>3
<1>6. /\ StackParts /\ Len(stack') <= MaxFrames
      /\ \A p : Pins(p)' \in Nat /\ Pins(p)' <= Pins(p) /\ (IsBound(p)' => IsBound(p))
  <2>1. CASE stack' = s
    BY <1>1, <1>5, <2>1, StackLeft
  <2>2. CASE /\ life[o] = "whole" /\ ~IsBound(o) /\ life'[o] = "dying"
             /\ Len(s) < MaxFrames /\ stack' = Append(s, Frame("drop", o, "engine"))
    <3> DEFINE g == Frame("drop", o, "engine")
    <3>1. g \in Frames /\ g.kind = "drop" /\ g.obj = o
      BY DEF Frame, Frames, Callers
    <3>2. FrameHolds(g)'
      BY <2>2, <3>1 DEF FrameHolds
    <3>3. ASSUME NEW f \in Frames, Remains(f, s), f.kind \in Once, f.obj = o PROVE FALSE
      <4>1. PICK i \in DOMAIN stack : stack[i] = f
        BY <3>3, RemainsBelow DEF Once
      <4>2. f.kind = "postinit" => IsBound(o)
        BY <3>3, <4>1, BoundAre
      <4>3. FrameHolds(f)
        BY <1>1, <4>1 DEF FramesHold, FrameHolds
      <4>4. QED
        BY <2>2, <3>3, <4>2, <4>3 DEF Once, FrameHolds
    <3> HIDE DEF g
    <3>4. stack' = Append(s, g)
      BY <2>2 DEF g
    <3>5. /\ StackParts
          /\ \A p : /\ Pins(p)' \in Nat
                    /\ Pins(p)' <= Pins(p) +
                         (IF g.kind = "method" /\ g.obj = p /\ g.by = "rust" THEN 1 ELSE 0)
                    /\ IsBound(p)' => \/ IsBound(p)
                                      \/ g.kind \in {"method", "postinit"} /\ g.obj = p
      BY <1>1, <1>5, <3>1, <3>2, <3>3, <3>4, StackAdded
    <3>6. \A p : Pins(p) \in Nat
      BY <1>1, PinsAre, PinsFacts DEF TypeOK
    <3>7. Len(stack') <= MaxFrames
      BY <2>2, ObjectLifeAssumption DEF Below
    <3>8. \A p : Pins(p)' \in Nat /\ Pins(p)' <= Pins(p) /\ (IsBound(p)' => IsBound(p))
      <4> SUFFICES ASSUME NEW p
                   PROVE  Pins(p)' \in Nat /\ Pins(p)' <= Pins(p) /\ (IsBound(p)' => IsBound(p))
        OBVIOUS
      <4>1. /\ Pins(p)' \in Nat /\ Pins(p)' <= Pins(p) + 0
            /\ IsBound(p)' => IsBound(p)
        BY <3>1, <3>5
      <4>2. QED
        BY <3>6, <4>1
    <3>9. QED
      BY <3>5, <3>7, <3>8
  <2>3. QED
    BY <1>4, <2>1, <2>2
<1>7. TypeOK'
  BY <1>1, <1>2, <1>3, <1>4, <1>6 DEF TypeOK, RefsTyped, StackParts
<1>8. Unborn' /\ Referenced' /\ CountMatchesRefs' /\ StrongGdIsValid'
  <2>1. Unborn /\ Referenced /\ CountMatchesRefs /\ StrongGdIsValid
    BY DEF IInv
  <2>2. Unborn'
    BY <1>3, <1>4, <2>1 DEF Unborn, OnlyRefsOf
  <2>3. Referenced'
    BY <1>2, <1>3, <1>4, <2>1 DEF Referenced, OnlyRefsOf, IsValid
  <2>4. CountMatchesRefs'
    BY <1>2, <1>3, <1>4, <2>1 DEF CountMatchesRefs, OnlyRefsOf, IsValid, One
  <2>5. StrongGdIsValid'
    BY <1>2, <1>3, <1>4, <2>1 DEF StrongGdIsValid, OnlyRefsOf, IsValid
  <2>6. QED
    BY <2>2, <2>3, <2>4, <2>5
<1>9. Pinned'
  <2> SUFFICES ASSUME NEW p \in Objects PROVE Pins(p)' <= gds'[p]
    BY DEF Pinned
  <2>1. /\ Pins(p) \in Nat /\ Pins(p)' \in Nat /\ gds'[p] \in Int
    <3>1. Pins(p) \in Nat /\ Pins(p)' \in Nat
      BY <1>1, <1>6, BelowFacts
    <3>2. gds'[p] \in Int
      BY DEF RefsTyped
    <3>3. QED
      BY <3>1, <3>2
  <2>2. Pins(p)' <= Pins(p) /\ Pins(p) <= gds'[p]
    BY <1>6 DEF IInv, Pinned, OnlyRefsOf
  <2>3. QED
    BY <2>1, <2>2
<1>10. BoundCrashHasCause'
  <2> SUFFICES ASSUME NEW p \in Objects, IsBound(p)', freed'[p] # "no"
               PROVE  \/ p \in manual' /\ freed'[p] \in {"engine", "upcast"}
                      \/ p \in Counted' /\ Pins(p)' = 0
    BY DEF BoundCrashHasCause
  <2>1. IsBound(p)
    BY <1>6
  <2>2. p = o
    BY <1>1, <1>3, <2>1, BoundNotFreed
  <2>3. Pins(p) = 0 => Pins(p)' = 0
    BY <1>6
  <2>4. QED
    BY <1>2, <1>3, <2>1, <2>2, <2>3 DEF RefsTyped
<1>11. QED
  BY <1>6, <1>7, <1>8, <1>9, <1>10 DEF IInv, StackParts

(* Steps that change references only, and steps that change none and remove   *)
(* frames only, keep the invariant.                                           *)
LEMMA RefsKeep ==
  ASSUME IInv, crash = "none", NEW o \in Objects, NEW s, Below(s),
         Len(s) <= MaxFrames, stack' = s, UNCHANGED <<life, freed, crash>>,
         RefsTyped, OnlyRefsOf(o), Pins(o) <= gds'[o],
         o \in Counted /\ unclaimed'[o] => unclaimed[o],
         life[o] = "none" => gds'[o] = 0 /\ engine'[o] = 0 /\ o \notin pending',
         \A f \in Frames :
           Remains(f, s) /\ FrameHolds(f) /\ f.obj = o /\ f.kind \in {"init", "postinit"} =>
             /\ gds'[o] <= MaxRefs + 1 /\ engine'[o] <= 1
             /\ o \in Counted => unclaimed'[o] \/ o \in pending',
         o \in Counted /\ IsValid(o) =>
           /\ count'[o] = gds'[o] + engine'[o] + One(o \in pending') + One(unclaimed'[o])
           /\ count'[o] >= 1
           /\ unclaimed'[o] => gds'[o] = 0 /\ engine'[o] = 0 /\ o \notin pending',
         o \in Counted /\ gds'[o] > 0 => IsValid(o) \/ freed[o] = "init"
  PROVE  IInv'
<1>1. /\ TypeOK /\ FramesHold /\ OnceEach /\ Referenced /\ Unborn /\ CountMatchesRefs
      /\ StrongGdIsValid /\ Pinned
  BY DEF IInv
<1>2. Counted' = Counted /\ Counted \subseteq Objects
  BY <1>1 DEF Counted, RefsTyped, TypeOK
<1>3. \A f \in Frames : Remains(f, s) /\ FrameHolds(f) => FrameHolds(f)'
  <2> SUFFICES ASSUME NEW f \in Frames, Remains(f, s), FrameHolds(f) PROVE FrameHolds(f)'
    OBVIOUS
  <2>1. CASE f.obj = o
    BY <1>2, <2>1 DEF FrameHolds
  <2>2. CASE f.obj # o
    BY <1>2, <2>2 DEF FrameHolds, OnlyRefsOf, Frames
  <2>3. QED
    BY <2>1, <2>2
<1>4. /\ StackParts
      /\ \A p : Pins(p)' \in Nat /\ Pins(p)' <= Pins(p) /\ (IsBound(p)' => IsBound(p))
  BY <1>1, <1>3, StackLeft
<1>5. TypeOK'
  BY <1>1, <1>2, <1>4 DEF TypeOK, RefsTyped, StackParts
<1>6. Unborn'
  BY <1>1 DEF Unborn, OnlyRefsOf
<1>7. Referenced'
  <2> SUFFICES ASSUME NEW p \in Objects, IsValid(p)
               PROVE  /\ freed[p] = "no"
                      /\ p \in Counted =>
                           /\ count'[p] >= 1
                           /\ unclaimed'[p] => gds'[p] = 0 /\ engine'[p] = 0 /\ p \notin pending'
    BY <1>2 DEF Referenced, IsValid
  <2>1. CASE p = o
    BY <1>1, <2>1 DEF Referenced
  <2>2. CASE p # o
    BY <1>1, <2>2 DEF Referenced, OnlyRefsOf
  <2>3. QED
    BY <2>1, <2>2
<1>8. CountMatchesRefs'
  <2> SUFFICES ASSUME NEW p \in Counted, IsValid(p)
               PROVE  count'[p] = gds'[p] + engine'[p] + One(p \in pending') + One(unclaimed'[p])
    BY <1>2 DEF CountMatchesRefs, IsValid
  <2>1. CASE p = o
    BY <2>1
  <2>2. CASE p # o
    <3>1. count[p] = gds[p] + engine[p] + One(p \in pending) + One(unclaimed[p])
      BY <1>1 DEF CountMatchesRefs
    <3>2. QED
      BY <1>2, <2>2, <3>1 DEF OnlyRefsOf, One
  <2>3. QED
    BY <2>1, <2>2
<1>9. StrongGdIsValid'
  BY <1>1, <1>2 DEF StrongGdIsValid, OnlyRefsOf, IsValid
<1>10. Pinned'
  <2> SUFFICES ASSUME NEW p \in Objects PROVE Pins(p)' <= gds'[p]
    BY DEF Pinned
  <2>1. /\ Pins(p) \in Nat /\ Pins(p)' \in Nat /\ gds'[p] \in Int
    <3>1. Pins(p) \in Nat /\ Pins(p)' \in Nat
      BY <1>1, <1>4, BelowFacts
    <3>2. gds'[p] \in Int
      BY DEF RefsTyped
    <3>3. QED
      BY <3>1, <3>2
  <2>2. Pins(p)' <= Pins(p) /\ Pins(p) <= gds'[p]
    BY <1>1, <1>4 DEF Pinned, OnlyRefsOf
  <2>3. QED
    BY <2>1, <2>2
<1>11. BoundCrashHasCause'
  <2>1. NoCrash' /\ FramesHold'
    BY <1>4 DEF NoCrash, StackParts
  <2>2. QED
    BY <1>5, <1>7, <2>1, NoCrashNeedsNoCause, PTL
<1>12. QED
  BY <1>4, <1>5, <1>6, <1>7, <1>8, <1>9, <1>10, <1>11 DEF IInv, StackParts

LEMMA FramesKeep ==
  ASSUME IInv, crash = "none", NEW s, Below(s), Len(s) <= MaxFrames, stack' = s,
         UNCHANGED <<manual, life, freed, refs>>,
         panicking' \in BOOLEAN, crash' \in {"none", "bound", "unwound", "twice"}
  PROVE  IInv'
<1>1. /\ TypeOK /\ FramesHold /\ OnceEach /\ Referenced /\ Unborn /\ CountMatchesRefs
      /\ StrongGdIsValid /\ Pinned
  BY DEF IInv
<1>2. /\ count' = count /\ unclaimed' = unclaimed /\ gds' = gds /\ engine' = engine
      /\ pending' = pending /\ deferred' = deferred /\ Counted' = Counted
  BY DEF refs, Counted
<1>3. \A f \in Frames : Remains(f, s) /\ FrameHolds(f) => FrameHolds(f)'
  BY <1>2 DEF FrameHolds
<1>4. /\ StackParts
      /\ \A p : Pins(p)' \in Nat /\ Pins(p)' <= Pins(p) /\ (IsBound(p)' => IsBound(p))
  BY <1>1, <1>3, StackLeft
<1>5. TypeOK'
  BY <1>1, <1>2, <1>4 DEF TypeOK, StackParts
<1>6. Unborn' /\ Referenced' /\ CountMatchesRefs' /\ StrongGdIsValid'
  BY <1>1, <1>2 DEF Unborn, Referenced, CountMatchesRefs, StrongGdIsValid, IsValid
<1>7. Pinned'
  <2> SUFFICES ASSUME NEW p \in Objects PROVE Pins(p)' <= gds[p]
    BY <1>2 DEF Pinned
  <2>1. /\ Pins(p) \in Nat /\ Pins(p)' \in Nat /\ gds[p] \in Int
    <3>1. Pins(p) \in Nat /\ Pins(p)' \in Nat
      BY <1>1, <1>4, BelowFacts
    <3>2. gds[p] \in Int
      BY <1>1 DEF TypeOK
    <3>3. QED
      BY <3>1, <3>2
  <2>2. Pins(p)' <= Pins(p) /\ Pins(p) <= gds[p]
    BY <1>1, <1>4 DEF Pinned
  <2>3. QED
    BY <2>1, <2>2
<1>8. BoundCrashHasCause'
  <2> SUFFICES ASSUME NEW p \in Objects, IsBound(p)', freed[p] # "no" PROVE FALSE
    BY DEF BoundCrashHasCause
  <2>1. IsBound(p)
    BY <1>4
  <2>2. QED
    BY <1>1, <2>1, BoundNotFreed
<1>9. QED
  BY <1>4, <1>5, <1>6, <1>7, <1>8 DEF IInv, StackParts
-----------------------------------------------------------------------------
(* Every action keeps the invariant.                                          *)
LEMMA InitIInv == Init => IInv
<1> SUFFICES ASSUME Init PROVE IInv
  OBVIOUS
<1>1. /\ MaxFrames \in Nat /\ MaxRefs \in Nat /\ manual \subseteq Objects
  BY ObjectLifeAssumption DEF Init
<1>2. TypeOK
  <2>1. stack \in Seq(Frames) /\ Len(stack) = 0 /\ 0 <= MaxFrames
    BY <1>1 DEF Init
  <2>2. 0 \in 0..(MaxRefs + 2) /\ 0 \in 0..2 /\ 0 \in Nat
    BY <1>1
  <2>3. /\ gds \in [Objects -> 0..(MaxRefs + 2)] /\ engine \in [Objects -> 0..2]
        /\ deferred \in [Objects -> Nat] /\ count \in [Objects -> Nat]
    BY <2>2 DEF Init
  <2>4. QED
    BY <1>1, <2>1, <2>3 DEF Init, TypeOK
<1>3. FramesHold /\ OnceEach /\ BoundCrashHasCause
  BY DEF Init, FramesHold, OnceEach, BoundCrashHasCause, IsBound, FramesOf
<1>4. Unborn /\ Referenced /\ CountMatchesRefs /\ StrongGdIsValid
  BY DEF Init, Unborn, Referenced, CountMatchesRefs, StrongGdIsValid, IsValid, Counted
<1>5. Pinned
  <2> SUFFICES ASSUME NEW o \in Objects PROVE Pins(o) <= 0
    BY DEF Init, Pinned
  <2>1. PinsIn(stack, o) = {}
    BY DEF Init, PinsIn
  <2>2. QED
    BY <2>1, PinsAre, FS_EmptySet
<1>6. QED
  BY <1>2, <1>3, <1>4, <1>5 DEF IInv

LEMMA UserPanicsStep == IInv /\ UserPanics => IInv'
<1> SUFFICES ASSUME IInv, UserPanics PROVE IInv'
  OBVIOUS
<1>1. TypeOK
  BY DEF IInv
<1>2. QED
  BY <1>1, BelowFacts, FramesKeep DEF UserPanics, UserRuns, Panic

LEMMA CallReturnsStep == IInv /\ CallReturns => IInv'
<1> SUFFICES ASSUME IInv, CallReturns PROVE IInv'
  OBVIOUS
<1>1. TypeOK /\ stack # <<>> /\ crash = "none"
  BY DEF IInv, CallReturns, At, UserRuns
<1>2. /\ Below(Front(stack)) /\ Len(Front(stack)) <= MaxFrames
      /\ panicking' \in BOOLEAN /\ crash' \in {"none", "bound", "unwound", "twice"}
  BY <1>1, TopFacts, ObjectLifeAssumption DEF TypeOK, CallReturns
<1>3. QED
  BY <1>1, <1>2, FramesKeep DEF CallReturns

(* A reference is added to an object that has one.                            *)
LEMMA CloneGdStep ==
  ASSUME IInv, NEW o \in Objects, CloneGd(o)
  PROVE  IInv'
<1>1. TypeOK /\ crash = "none" /\ MaxRefs \in Nat
  BY ObjectLifeAssumption DEF IInv, CloneGd, UserRuns
<1>2. /\ IsValid(o) /\ gds[o] \in 0..MaxRefs /\ gds' = [gds EXCEPT ![o] = gds[o] + 1]
      /\ UNCHANGED <<stack, panicking, crash, manual, life, freed, engine, pending, deferred>>
      /\ gds[o] \in Int /\ engine[o] \in Int /\ count[o] \in Nat
  BY <1>1 DEF CloneGd, More, TypeOK
<1>3. /\ o \notin Counted => count' = count /\ unclaimed' = unclaimed
      /\ o \in Counted => /\ unclaimed[o] = FALSE /\ unclaimed' = unclaimed
                          /\ count' = [count EXCEPT ![o] = count[o] + 1]
                          /\ count[o] = gds[o] + engine[o] + One(o \in pending) + One(unclaimed[o])
  <2>0. o \in Counted /\ FramesOf({"method"}, o) # {} => ~unclaimed[o]
    BY DEF IInv, FramesHold, FrameHolds, FramesOf
  <2>1. o \in Counted => unclaimed[o] = FALSE
    BY <1>1, <1>2, <2>0 DEF CloneGd, IInv, Referenced, TypeOK
  <2>2. unclaimed[o] = FALSE => [unclaimed EXCEPT ![o] = FALSE] = unclaimed
    BY <1>1 DEF TypeOK
  <2>3. QED
    BY <1>1, <1>2, <2>1, <2>2 DEF IInv, CountMatchesRefs, CloneGd, InitRef, IsRefCounted, Counted, More
<1>4. RefsTyped
  <2>1. gds[o] + 1 \in 0..(MaxRefs + 2) /\ count[o] + 1 \in Nat
    BY <1>1, <1>2
  <2>2. gds' \in [Objects -> 0..(MaxRefs + 2)]
    BY <1>1, <1>2, <2>1 DEF TypeOK
  <2>3. count' \in [Objects -> Nat] /\ unclaimed' = unclaimed
    BY <1>1, <1>3, <2>1 DEF TypeOK
  <2>4. QED
    BY <1>1, <1>2, <2>2, <2>3 DEF RefsTyped, TypeOK
<1>5. OnlyRefsOf(o)
  BY <1>1, <1>2, <1>3 DEF OnlyRefsOf, TypeOK
<1>6. /\ gds'[o] = gds[o] + 1 /\ engine'[o] = engine[o] /\ pending' = pending
      /\ unclaimed'[o] = unclaimed[o] /\ (o \in Counted => count'[o] = count[o] + 1)
  BY <1>1, <1>2, <1>3 DEF TypeOK
<1>7. ASSUME NEW f \in Frames, FrameHolds(f), f.obj = o, f.kind \in {"init", "postinit"}
      PROVE  /\ gds'[o] <= MaxRefs + 1 /\ engine'[o] <= 1
             /\ o \in Counted => unclaimed'[o] \/ o \in pending'
  BY <1>1, <1>2, <1>6, <1>7 DEF FrameHolds
<1>8. Pins(o) <= gds'[o] /\ life[o] # "none"
  BY <1>1, <1>2, <1>6, BelowFacts DEF IInv, Pinned, IsValid
<1>9. o \in Counted => /\ count'[o] = gds'[o] + engine'[o] + One(o \in pending') + One(unclaimed'[o])
                       /\ count'[o] >= 1 /\ ~unclaimed'[o]
  BY <1>2, <1>3, <1>6 DEF One
<1>10. QED
  BY <1>1, <1>2, <1>4, <1>5, <1>7, <1>8, <1>9, BelowFacts, RefsKeep

LEMMA EngineRefStep ==
  ASSUME IInv, NEW o \in Objects, EngineRef(o)
  PROVE  IInv'
<1>1. TypeOK /\ crash = "none" /\ MaxRefs \in Nat
  BY ObjectLifeAssumption DEF IInv, EngineRef, UserRuns
<1>2. /\ IsValid(o) /\ gds[o] > 0 /\ engine[o] = 0
      /\ engine' = [engine EXCEPT ![o] = engine[o] + 1]
      /\ UNCHANGED <<stack, panicking, crash, manual, life, freed, gds, pending, deferred>>
      /\ gds[o] \in Int /\ engine[o] \in Int /\ count[o] \in Nat
  BY <1>1 DEF EngineRef, More, TypeOK
<1>3. /\ o \notin Counted => count' = count /\ unclaimed' = unclaimed
      /\ o \in Counted => /\ unclaimed[o] = FALSE /\ unclaimed' = unclaimed
                          /\ count' = [count EXCEPT ![o] = count[o] + 1]
                          /\ count[o] = gds[o] + engine[o] + One(o \in pending) + One(unclaimed[o])
  <2>1. o \in Counted => unclaimed[o] = FALSE
    BY <1>1, <1>2 DEF IInv, Referenced, TypeOK
  <2>2. unclaimed[o] = FALSE => [unclaimed EXCEPT ![o] = FALSE] = unclaimed
    BY <1>1 DEF TypeOK
  <2>3. QED
    BY <1>1, <1>2, <2>1, <2>2 DEF IInv, CountMatchesRefs, EngineRef, InitRef, IsRefCounted, Counted, More
<1>4. RefsTyped
  <2>1. engine[o] + 1 \in 0..2 /\ count[o] + 1 \in Nat
    BY <1>1, <1>2
  <2>2. engine' \in [Objects -> 0..2]
    BY <1>1, <1>2, <2>1 DEF TypeOK
  <2>3. count' \in [Objects -> Nat] /\ unclaimed' = unclaimed
    BY <1>1, <1>3, <2>1 DEF TypeOK
  <2>4. QED
    BY <1>1, <1>2, <2>2, <2>3 DEF RefsTyped, TypeOK
<1>5. OnlyRefsOf(o)
  BY <1>1, <1>2, <1>3 DEF OnlyRefsOf, TypeOK
<1>6. /\ gds'[o] = gds[o] /\ engine'[o] = 1 /\ pending' = pending
      /\ unclaimed'[o] = unclaimed[o] /\ (o \in Counted => count'[o] = count[o] + 1)
  BY <1>1, <1>2, <1>3 DEF TypeOK
<1>7. ASSUME NEW f \in Frames, FrameHolds(f), f.obj = o, f.kind \in {"init", "postinit"}
      PROVE  /\ gds'[o] <= MaxRefs + 1 /\ engine'[o] <= 1
             /\ o \in Counted => unclaimed'[o] \/ o \in pending'
  BY <1>1, <1>2, <1>6, <1>7 DEF FrameHolds
<1>8. Pins(o) <= gds'[o] /\ life[o] # "none"
  BY <1>1, <1>2, <1>6, BelowFacts DEF IInv, Pinned, IsValid
<1>9. o \in Counted => /\ count'[o] = gds'[o] + engine'[o] + One(o \in pending') + One(unclaimed'[o])
                       /\ count'[o] >= 1 /\ ~unclaimed'[o]
  BY <1>2, <1>3, <1>6 DEF One
<1>10. QED
  BY <1>1, <1>2, <1>4, <1>5, <1>7, <1>8, <1>9, BelowFacts, RefsKeep

(* One reference of o, of user code, of the engine or the surplus one, goes.  *)
RefTypes ==
  /\ pending' \subseteq Counted /\ deferred' \in [Objects -> Nat]
  /\ gds' \in [Objects -> 0..(MaxRefs + 2)] /\ engine' \in [Objects -> 0..2]

OneLess(o) ==
  /\ gds'[o] <= gds[o] /\ engine'[o] <= engine[o] /\ Pins(o) <= gds'[o]
  /\ gds'[o] + engine'[o] + One(o \in pending') + 1 = gds[o] + engine[o] + One(o \in pending)

OthersSame(o) ==
  \A p \in Objects \ {o} :
    gds'[p] = gds[p] /\ engine'[p] = engine[p] /\ (p \in pending' <=> p \in pending)

(* A reference is dropped: the last one destroys the object, which then is    *)
(* neither under construction nor bound through a Gd.                         *)
LEMMA ReleaseKeeps ==
  ASSUME IInv, crash = "none", NEW o \in Counted, IsValid(o), NEW s, Below(s),
         Len(s) <= MaxFrames, ReleaseRef(o, s), panicking' \in BOOLEAN,
         UNCHANGED <<manual, unclaimed>>, ~unclaimed[o],
         RefTypes, OneLess(o), OthersSame(o),
         \A f \in Frames : Remains(f, s) /\ f.kind \in {"init", "postinit"} /\ f.obj = o =>
                             o \in pending'
  PROVE  IInv'
<1>1. /\ TypeOK /\ MaxRefs \in Nat /\ o \in Objects /\ Referenced /\ CountMatchesRefs
      /\ Pins(o) \in Nat
  BY ObjectLifeAssumption, BelowFacts DEF IInv, Counted
<1>a. /\ gds[o] \in Nat /\ engine[o] \in Nat /\ gds'[o] \in Nat /\ engine'[o] \in Nat
      /\ count[o] \in Nat
  BY <1>1 DEF TypeOK, RefTypes
<1>2. /\ count[o] = gds[o] + engine[o] + One(o \in pending)
      /\ One(o \in pending) \in Nat /\ One(o \in pending') \in Nat
  <2>1. One(unclaimed[o]) = 0 /\ One(o \in pending) \in Nat /\ One(o \in pending') \in Nat
    BY DEF One
  <2>2. count[o] = gds[o] + engine[o] + One(o \in pending) + One(unclaimed[o])
    BY <1>1 DEF CountMatchesRefs
  <2>3. QED
    BY <1>a, <2>1, <2>2
<1>3. /\ count[o] >= 1 /\ count[o] - 1 \in Nat /\ count' = [count EXCEPT ![o] = count[o] - 1]
  <2>1. count[o] >= 1
    BY <1>1 DEF Referenced
  <2>2. QED
    BY <1>a, <2>1 DEF ReleaseRef, Less
<1>4. RefsTyped
  BY <1>1, <1>3 DEF RefsTyped, RefTypes, TypeOK
<1>5. OnlyRefsOf(o)
  BY <1>1, <1>3 DEF OnlyRefsOf, OthersSame, TypeOK
<1>b. gds'[o] <= gds[o] /\ engine'[o] <= engine[o] /\ Pins(o) <= gds'[o]
  BY DEF OneLess
<1>6. CASE count[o] = 1
  <2>1. gds'[o] = 0 /\ o \notin pending' /\ Pins(o) = 0
    <3>1. gds'[o] + engine'[o] + One(o \in pending') = 0
      BY <1>a, <1>2, <1>6 DEF OneLess
    <3>2. gds'[o] = 0 /\ One(o \in pending') = 0
      BY <1>a, <1>2, <3>1
    <3>3. QED
      BY <1>1, <1>b, <3>2 DEF One
  <2>2. Destroy(o, s, "unref")
    BY <1>6 DEF ReleaseRef
  <2>3. \A f \in Frames :
          ~(Remains(f, s) /\ f.kind \in {"init", "postinit"} /\ f.obj = o)
    BY <2>1
  <2>4. "unref" \in Causes
    BY DEF Causes
  <2>5. unclaimed'[o] = unclaimed[o]
    OBVIOUS
  <2>6. QED
    BY <1>1, <1>4, <1>5, <1>b, <2>1, <2>2, <2>3, <2>4, <2>5, DestroyKeeps
<1>7. CASE count[o] # 1
  <2>1. stack' = s /\ UNCHANGED <<life, freed, crash>>
    BY <1>7 DEF ReleaseRef
  <2>2. /\ count'[o] = gds'[o] + engine'[o] + One(o \in pending') + One(unclaimed'[o])
        /\ count'[o] >= 1 /\ ~unclaimed'[o]
    <3>1. count'[o] = count[o] - 1
      BY <1>1, <1>3 DEF TypeOK
    <3>2. One(unclaimed'[o]) = 0 /\ ~unclaimed'[o]
      BY DEF One
    <3>3. QED
      <4>1. gds'[o] + engine'[o] + One(o \in pending') + 1 = count[o]
        BY <1>2 DEF OneLess
      <4>2. gds'[o] + engine'[o] + One(o \in pending') = count[o] - 1 /\ count[o] - 1 >= 1
        BY <1>a, <1>2, <1>3, <1>7, <4>1
      <4>3. QED
        BY <1>a, <1>2, <3>1, <3>2, <4>2
  <2>3. ASSUME NEW f \in Frames, Remains(f, s), FrameHolds(f), f.obj = o,
               f.kind \in {"init", "postinit"}
        PROVE  gds'[o] <= MaxRefs + 1 /\ engine'[o] <= 1 /\ o \in pending'
    <3>1. gds[o] <= MaxRefs + 1 /\ engine[o] <= 1
      BY <2>3 DEF FrameHolds
    <3>2. QED
      BY <1>1, <1>a, <1>b, <2>3, <3>1
  <2>4. life[o] # "none" /\ (IsValid(o) \/ freed[o] = "init")
    BY DEF IsValid
  <2>5. QED
    BY <1>1, <1>4, <1>5, <1>b, <2>1, <2>2, <2>3, <2>4, RefsKeep
<1>8. QED
  BY <1>6, <1>7

(* References are dropped that count nothing: the object is manual, or gone.  *)
LEMMA ForgetKeeps ==
  ASSUME IInv, crash = "none", NEW o \in Objects, o \in manual \/ ~IsValid(o),
         UNCHANGED <<stack, crash, manual, life, freed, count, unclaimed>>,
         panicking' \in BOOLEAN, RefTypes, OthersSame(o),
         gds'[o] <= gds[o], engine'[o] <= engine[o], Pins(o) <= gds'[o],
         o \in pending' => o \in pending
  PROVE  IInv'
<1>1. /\ TypeOK /\ MaxRefs \in Nat /\ Unborn /\ StrongGdIsValid
  BY ObjectLifeAssumption DEF IInv
<1>2. /\ gds[o] \in Nat /\ engine[o] \in Nat /\ gds'[o] \in Nat /\ engine'[o] \in Nat
  <2>1. gds[o] \in 0..(MaxRefs + 2) /\ gds'[o] \in 0..(MaxRefs + 2)
    BY <1>1 DEF TypeOK, RefTypes
  <2>2. engine[o] \in 0..2 /\ engine'[o] \in 0..2
    BY <1>1 DEF TypeOK, RefTypes
  <2>3. QED
    BY <1>1, <2>1, <2>2
<1>3. RefsTyped
  BY <1>1 DEF RefsTyped, RefTypes, TypeOK
<1>4. OnlyRefsOf(o)
  BY DEF OnlyRefsOf, OthersSame
<1>5. life[o] = "none" => gds'[o] = 0 /\ engine'[o] = 0 /\ o \notin pending'
  BY <1>1, <1>2 DEF Unborn
<1>6. ASSUME NEW f \in Frames, FrameHolds(f), f.obj = o, f.kind \in {"init", "postinit"}
      PROVE  gds'[o] <= MaxRefs + 1 /\ engine'[o] <= 1 /\ o \notin Counted
  <2>1. gds[o] <= MaxRefs + 1 /\ engine[o] <= 1
    BY <1>6 DEF FrameHolds
  <2>2. o \in Counted => IsValid(o)
    BY <1>6 DEF FrameHolds, IsValid
  <2>3. QED
    BY <1>1, <1>2, <2>1, <2>2 DEF Counted
<1>7. ~(o \in Counted /\ IsValid(o))
  BY DEF Counted
<1>8. o \in Counted /\ gds'[o] > 0 => IsValid(o) \/ freed[o] = "init"
  BY <1>1, <1>2 DEF StrongGdIsValid
<1>9. QED
  BY <1>1, <1>3, <1>4, <1>5, <1>6, <1>7, <1>8, BelowFacts, RefsKeep

LEMMA RemainingHolds ==
  ASSUME FramesHold, NEW s, Below(s), NEW f \in Frames, Remains(f, s), f.kind # "unref"
  PROVE  FrameHolds(f)
<1>1. PICK i \in DOMAIN stack : stack[i] = f
  BY RemainsBelow
<1>2. QED
  BY <1>1 DEF FramesHold, FrameHolds

LEMMA DropGdStep ==
  ASSUME IInv, NEW o \in Objects, DropGd(o)
  PROVE  IInv'
<1>1. /\ TypeOK /\ crash = "none" /\ MaxRefs \in Nat /\ FramesHold /\ Referenced
      /\ Pins(o) \in Nat
  BY ObjectLifeAssumption, BelowFacts DEF IInv, DropGd, UserRuns
<1>2. /\ gds[o] > Pins(o) /\ gds' = [gds EXCEPT ![o] = gds[o] - 1]
      /\ UNCHANGED <<manual, unclaimed, engine, pending, deferred>>
      /\ gds[o] \in 0..(MaxRefs + 2) /\ engine[o] \in Nat
  BY <1>1 DEF DropGd, Less, TypeOK
<1>3. gds[o] - 1 \in 0..(MaxRefs + 2) /\ gds'[o] = gds[o] - 1
  BY <1>1, <1>2 DEF TypeOK
<1>4. gds'[o] <= gds[o] /\ engine'[o] <= engine[o] /\ Pins(o) <= gds'[o]
  BY <1>1, <1>2, <1>3
<1>5. RefTypes /\ OthersSame(o)
  BY <1>1, <1>2, <1>3 DEF RefTypes, OthersSame, TypeOK, Counted
<1>6. panicking' \in BOOLEAN
  BY <1>1 DEF DropGd, Panic, TypeOK
<1>7. CASE o \in manual \/ ~IsValid(o)
  <2>1. UNCHANGED <<stack, crash, life, freed, count>>
    BY <1>7 DEF DropGd, IsRefCounted
  <2>2. QED
    BY <1>1, <1>2, <1>4, <1>5, <1>6, <1>7, <2>1, ForgetKeeps
<1>8. CASE o \notin manual /\ IsValid(o)
  <2>1. o \in Counted /\ ReleaseRef(o, stack)
    BY <1>8 DEF DropGd, IsRefCounted, Counted
  <2>2. ~unclaimed[o]
    BY <1>1, <1>2, <1>8, <2>1 DEF Referenced
  <2>3. OneLess(o)
    <3>1. One(o \in pending) \in Nat /\ One(o \in pending') = One(o \in pending)
      BY <1>2 DEF One
    <3>2. QED
      BY <1>2, <1>3, <1>4, <3>1 DEF OneLess
  <2>4. ASSUME NEW f \in Frames, Remains(f, stack), f.kind \in {"init", "postinit"}, f.obj = o
        PROVE  o \in pending'
    BY <1>1, <1>2, <2>1, <2>2, <2>4, BelowFacts, RemainingHolds DEF FrameHolds
  <2>5. QED
    BY <1>1, <1>2, <1>5, <1>6, <1>8, <2>1, <2>2, <2>3, <2>4, BelowFacts, ReleaseKeeps
<1>9. QED
  BY <1>7, <1>8

LEMMA EngineUnrefStep ==
  ASSUME IInv, NEW o \in Objects, EngineUnref(o)
  PROVE  IInv'
<1>1. /\ TypeOK /\ crash = "none" /\ MaxRefs \in Nat /\ FramesHold /\ Referenced
      /\ Pins(o) \in Nat /\ Pins(o) <= gds[o]
  BY ObjectLifeAssumption, BelowFacts DEF IInv, EngineUnref, UserRuns, Pinned
<1>2. /\ engine[o] > 0 /\ engine' = [engine EXCEPT ![o] = engine[o] - 1]
      /\ UNCHANGED <<panicking, manual, unclaimed, gds, pending, deferred>>
      /\ gds[o] \in Nat /\ engine[o] \in 0..2
  BY <1>1 DEF EngineUnref, Less, TypeOK
<1>3. engine[o] - 1 \in 0..2 /\ engine'[o] = engine[o] - 1
  BY <1>1, <1>2 DEF TypeOK
<1>4. gds'[o] <= gds[o] /\ engine'[o] <= engine[o] /\ Pins(o) <= gds'[o]
  BY <1>1, <1>2, <1>3
<1>5. RefTypes /\ OthersSame(o) /\ panicking' \in BOOLEAN
  BY <1>1, <1>2, <1>3 DEF RefTypes, OthersSame, TypeOK, Counted
<1>7. CASE o \in manual \/ ~IsValid(o)
  <2>1. UNCHANGED <<stack, crash, life, freed, count>>
    BY <1>7 DEF EngineUnref, IsRefCounted
  <2>2. QED
    BY <1>1, <1>2, <1>4, <1>5, <1>7, <2>1, ForgetKeeps
<1>8. CASE o \notin manual /\ IsValid(o)
  <2>1. o \in Counted /\ ReleaseRef(o, stack)
    BY <1>8 DEF EngineUnref, IsRefCounted, Counted
  <2>2. ~unclaimed[o]
    BY <1>1, <1>2, <1>8, <2>1 DEF Referenced
  <2>3. OneLess(o)
    <3>1. One(o \in pending) \in Nat /\ One(o \in pending') = One(o \in pending)
      BY <1>2 DEF One
    <3>2. QED
      BY <1>2, <1>3, <1>4, <3>1 DEF OneLess
  <2>4. ASSUME NEW f \in Frames, Remains(f, stack), f.kind \in {"init", "postinit"}, f.obj = o
        PROVE  o \in pending'
    BY <1>1, <1>2, <2>1, <2>2, <2>4, BelowFacts, RemainingHolds DEF FrameHolds
  <2>5. QED
    BY <1>1, <1>2, <1>5, <1>8, <2>1, <2>2, <2>3, <2>4, BelowFacts, ReleaseKeeps
<1>9. QED
  BY <1>7, <1>8

LEMMA EngineDeletesStep ==
  ASSUME IInv, NEW o \in Objects, EngineDeletes(o)
  PROVE  IInv'
<1>1. /\ TypeOK /\ crash = "none" /\ life[o] = "whole" /\ FramesHold
      /\ Pins(o) \in Nat /\ Pins(o) <= gds[o] /\ Destroy(o, stack, "engine")
      /\ engine' = [engine EXCEPT ![o] = 0]
      /\ UNCHANGED <<panicking, manual, count, unclaimed, gds, pending, deferred>>
      /\ o \in manual \/ (gds[o] = 0 /\ ~IsBound(o))
  BY BelowFacts DEF IInv, EngineDeletes, UserRuns, Pinned
<1>2. RefsTyped /\ OnlyRefsOf(o) /\ engine'[o] <= engine[o]
  <2>1. 0 \in 0..2 /\ engine[o] \in 0..2
    BY <1>1 DEF TypeOK
  <2>2. engine' \in [Objects -> 0..2] /\ engine'[o] = 0
        /\ \A p \in Objects \ {o} : engine'[p] = engine[p]
    BY <1>1, <2>1 DEF TypeOK
  <2>3. QED
    BY <1>1, <2>1, <2>2 DEF RefsTyped, OnlyRefsOf, TypeOK
<1>3. /\ gds'[o] <= gds[o] /\ Pins(o) <= gds'[o] /\ unclaimed'[o] = unclaimed[o]
      /\ o \in Counted => gds'[o] = 0
  <2>1. gds[o] \in 0..(MaxRefs + 2) /\ MaxRefs \in Nat
    BY <1>1, ObjectLifeAssumption DEF TypeOK
  <2>2. QED
    BY <1>1, <2>1 DEF Counted
<1>4. IsValid(o) /\ "engine" \in Causes
  BY <1>1 DEF IsValid, Causes
<1>5. IsBound(o) => o \in manual
  BY <1>1
<1>6. QED
  BY <1>1, <1>2, <1>3, <1>4, <1>5, BelowFacts, DestroyKeeps

LEMMA FreeGdStep ==
  ASSUME IInv, NEW o \in Objects, NEW upcast \in BOOLEAN, FreeGd(o, upcast)
  PROVE  IInv'
<1>1. /\ TypeOK /\ crash = "none" /\ MaxRefs \in Nat /\ Pins(o) \in Nat
      /\ o \in manual /\ o \notin Counted
  BY ObjectLifeAssumption, BelowFacts DEF IInv, FreeGd, UserRuns, IsRefCounted, Counted
<1>2. /\ gds[o] > Pins(o) /\ gds' = [gds EXCEPT ![o] = gds[o] - 1]
      /\ UNCHANGED <<manual, count, unclaimed, engine, pending, deferred>>
      /\ gds[o] \in 0..(MaxRefs + 2) /\ engine[o] \in 0..2
  BY <1>1 DEF FreeGd, Less, TypeOK
<1>3. gds[o] - 1 \in 0..(MaxRefs + 2) /\ gds'[o] = gds[o] - 1
  BY <1>1, <1>2 DEF TypeOK
<1>4. gds'[o] <= gds[o] /\ engine'[o] <= engine[o] /\ Pins(o) <= gds'[o]
  BY <1>1, <1>2, <1>3
<1>5. RefTypes /\ OthersSame(o) /\ panicking' \in BOOLEAN
  <2>1. panicking' \in BOOLEAN
    BY <1>1 DEF FreeGd, Panic, TypeOK
  <2>2. QED
    BY <1>1, <1>2, <1>3, <2>1 DEF RefTypes, OthersSame, TypeOK, Counted
<1>6. CASE IsValid(o) /\ ~SeesBound(o, upcast)
  <2> DEFINE why == IF upcast THEN "upcast" ELSE "free"
  <2>1. Destroy(o, stack, why) /\ why \in Causes /\ (IsBound(o) => why = "upcast")
    BY <1>6 DEF FreeGd, SeesBound, Causes
  <2>2. RefsTyped /\ OnlyRefsOf(o) /\ unclaimed'[o] = unclaimed[o]
    BY <1>1, <1>2, <1>5 DEF RefsTyped, RefTypes, OnlyRefsOf, OthersSame, TypeOK
  <2> HIDE DEF why
  <2>3. QED
    BY <1>1, <1>4, <1>6, <2>1, <2>2, BelowFacts, DestroyKeeps
<1>7. CASE ~(IsValid(o) /\ ~SeesBound(o, upcast))
  <2>1. UNCHANGED <<stack, crash, life, freed>>
    BY <1>7 DEF FreeGd
  <2>2. QED
    BY <1>1, <1>2, <1>4, <1>5, <2>1, ForgetKeeps
<1>8. QED
  BY <1>6, <1>7

LEMMA FreeDyingStep ==
  ASSUME IInv, NEW o \in Objects, FreeDying(o)
  PROVE  IInv'
<1>1. TypeOK /\ crash = "none"
  BY DEF IInv, FreeDying, UserRuns
<1>2. QED
  BY <1>1, BelowFacts, FramesKeep DEF FreeDying, DestroyAgain, TypeOK

LEMMA RunDeferredStep ==
  ASSUME IInv, NEW o \in Objects, RunDeferred(o)
  PROVE  IInv'
<1>1. /\ TypeOK /\ crash = "none" /\ MaxFrames \in Nat /\ Pins(o) \in Nat
      /\ Pins(o) <= gds[o] /\ stack = <<>> /\ Referenced
  BY ObjectLifeAssumption, BelowFacts DEF IInv, RunDeferred, UserRuns, Pinned
<1>2. /\ deferred[o] > 0 /\ deferred' = [deferred EXCEPT ![o] = deferred[o] - 1]
      /\ pending' = pending \ {o}
      /\ UNCHANGED <<panicking, manual, unclaimed, gds, engine>>
  BY DEF RunDeferred, Less
<1>3. /\ deferred[o] \in Nat /\ deferred[o] - 1 \in Nat
      /\ gds[o] \in 0..(MaxRefs + 2) /\ engine[o] \in 0..2 /\ MaxRefs \in Nat
  BY <1>1, <1>2, ObjectLifeAssumption DEF TypeOK
<1>4. gds'[o] <= gds[o] /\ engine'[o] <= engine[o] /\ Pins(o) <= gds'[o]
  BY <1>1, <1>2, <1>3
<1>5. RefTypes /\ OthersSame(o) /\ panicking' \in BOOLEAN
  BY <1>1, <1>2, <1>3 DEF RefTypes, OthersSame, TypeOK, Counted
<1>6. CASE o \in pending /\ IsValid(o)
  <2> DEFINE g == Frame("unref", o, "engine")
             s == IF count[o] = 1 /\ life[o] = "whole" THEN <<g>> ELSE <<>>
  <2>1. o \in Counted /\ ReleaseRef(o, s)
    BY <1>1, <1>6 DEF RunDeferred, TypeOK
  <2>2. ~unclaimed[o]
    BY <1>1, <1>6, <2>1 DEF Referenced, Counted
  <2>3. g \in Frames /\ g.kind = "unref"
    BY DEF Frame, Frames, Callers
  <2>4. OneLess(o)
    <3>1. One(o \in pending) = 1 /\ One(o \in pending') = 0
      BY <1>2, <1>6 DEF One
    <3>2. QED
      BY <1>2, <1>3, <1>4, <3>1 DEF OneLess
  <2>5. CASE count[o] = 1 /\ life[o] = "whole"
    <3>0. s = <<g>>
      BY <2>5
    <3> HIDE DEF g, s
    <3>1. Below(s) /\ \A f \in Frames : Remains(f, s) => f = g
      BY <2>3, <3>0 DEF Below, Remains
    <3>2. Len(s) <= MaxFrames
      <4>1. Destroy(o, s, "unref")
        BY <2>1, <2>5 DEF ReleaseRef
      <4>2. ~IsBound(o)
        BY <1>1, BoundAre
      <4>3. Len(s) < MaxFrames
        BY <2>5, <4>1, <4>2 DEF Destroy, StorageInUse, Push
      <4>4. QED
        BY <1>1, <3>0, <4>3
    <3>3. QED
      BY <1>1, <1>2, <1>5, <1>6, <2>1, <2>2, <2>3, <2>4, <3>1, <3>2, ReleaseKeeps
  <2>6. CASE ~(count[o] = 1 /\ life[o] = "whole")
    <3>0. s = <<>>
      BY <2>6
    <3> HIDE DEF g, s
    <3>1. Below(s) /\ Len(s) <= MaxFrames /\ \A f \in Frames : ~Remains(f, s)
      BY <1>1, <3>0 DEF Below, Remains
    <3>2. QED
      BY <1>1, <1>2, <1>5, <1>6, <2>1, <2>2, <2>4, <3>1, ReleaseKeeps
  <2>7. QED
    BY <2>5, <2>6
<1>7. CASE ~(o \in pending /\ IsValid(o))
  <2>1. UNCHANGED <<stack, count, life, freed, crash>>
    BY <1>7 DEF RunDeferred
  <2>2. CASE o \in manual \/ ~IsValid(o)
    BY <1>1, <1>2, <1>4, <1>5, <2>1, <2>2, ForgetKeeps
  <2>3. CASE o \in Counted /\ IsValid(o) /\ o \notin pending
    <3>1. pending' = pending
      BY <1>2, <2>3
    <3>2. RefsTyped /\ OnlyRefsOf(o)
      BY <1>1, <1>2, <1>5, <2>1 DEF RefsTyped, RefTypes, OnlyRefsOf, OthersSame, TypeOK
    <3>3. \A f \in Frames : ~Remains(f, stack)
      BY <1>1 DEF Remains
    <3>4. /\ count[o] = gds[o] + engine[o] + One(o \in pending) + One(unclaimed[o])
          /\ count[o] >= 1
          /\ unclaimed[o] => gds[o] = 0 /\ engine[o] = 0 /\ o \notin pending
      BY <1>1, <2>3 DEF IInv, CountMatchesRefs, Referenced, Counted
    <3>5. life[o] # "none"
      BY <2>3 DEF IsValid
    <3>6. QED
      BY <1>1, <1>2, <1>4, <2>1, <2>3, <3>1, <3>2, <3>3, <3>4, <3>5, BelowFacts, RefsKeep
  <2>4. QED
    BY <1>7, <2>2, <2>3 DEF Counted
<1>8. QED
  BY <1>6, <1>7

(* to_init_gd: the reference it returns comes with a surplus one, that stays  *)
(* until the engine runs the deferred call.                                   *)
LEMMA ToInitGdStep ==
  ASSUME IInv, NEW o \in Objects, ToInitGd(o)
  PROVE  IInv'
<1>1. /\ TypeOK /\ crash = "none" /\ MaxRefs \in Nat /\ Referenced /\ CountMatchesRefs
      /\ Pins(o) \in Nat /\ Pins(o) <= gds[o] /\ IsValid(o) /\ gds[o] < MaxRefs
      /\ UNCHANGED <<stack, crash, manual, life, freed>>
  BY ObjectLifeAssumption, BelowFacts DEF IInv, ToInitGd, UserRuns, Pinned
<1>2. CASE IsBorrowed /\ IsRefCounted(o)
  BY <1>1, <1>2, BelowFacts, FramesKeep DEF ToInitGd, Panic
<1>3. CASE ~(IsBorrowed /\ IsRefCounted(o))
  <2>1. /\ gds' = [gds EXCEPT ![o] = gds[o] + 1] /\ UNCHANGED <<panicking, engine>>
        /\ gds[o] \in 0..(MaxRefs + 2) /\ engine[o] \in 0..2 /\ count[o] \in Nat
        /\ deferred[o] \in Nat
    BY <1>1, <1>3 DEF ToInitGd, More, TypeOK
  <2>2. /\ gds[o] + 1 \in 0..(MaxRefs + 2) /\ gds'[o] = gds[o] + 1 /\ gds[o] + 1 <= MaxRefs + 1
        /\ gds' \in [Objects -> 0..(MaxRefs + 2)]
        /\ \A p \in Objects \ {o} : gds'[p] = gds[p]
    BY <1>1, <2>1 DEF TypeOK
  <2>3. life[o] # "none" /\ Pins(o) <= gds'[o]
    BY <1>1, <2>1, <2>2 DEF IsValid
  <2>4. CASE o \in manual
    <3>1. UNCHANGED <<count, unclaimed, pending, deferred>> /\ o \notin Counted
      BY <1>3, <2>4 DEF ToInitGd, IsRefCounted, Counted
    <3>2. RefsTyped /\ OnlyRefsOf(o)
      BY <1>1, <2>1, <2>2, <3>1 DEF RefsTyped, OnlyRefsOf, TypeOK
    <3>3. ASSUME NEW f \in Frames, FrameHolds(f), f.obj = o, f.kind \in {"init", "postinit"}
          PROVE  gds'[o] <= MaxRefs + 1 /\ engine'[o] <= 1
      BY <2>1, <2>2, <3>3 DEF FrameHolds
    <3>4. QED
      BY <1>1, <2>3, <3>1, <3>2, <3>3, BelowFacts, RefsKeep
  <2>5. CASE o \notin manual
    <3>1. /\ o \in Counted
          /\ IF o \notin pending
             THEN /\ pending' = pending \cup {o}
                  /\ count' = [count EXCEPT ![o] = IF unclaimed[o] THEN count[o] + 1 ELSE count[o] + 2]
                  /\ unclaimed' = [unclaimed EXCEPT ![o] = FALSE]
             ELSE /\ count' = IF unclaimed[o] THEN count ELSE [count EXCEPT ![o] = count[o] + 1]
                  /\ unclaimed' = [unclaimed EXCEPT ![o] = FALSE] /\ pending' = pending
          /\ deferred' = [deferred EXCEPT ![o] = deferred[o] + 1]
      BY <1>3, <2>5 DEF ToInitGd, IsRefCounted, Counted, StoresSurplus, InitRef, Defers, More
    <3>2. /\ count[o] = gds[o] + engine[o] + One(o \in pending) + One(unclaimed[o])
          /\ unclaimed[o] => gds[o] = 0 /\ engine[o] = 0 /\ o \notin pending
          /\ unclaimed[o] \in BOOLEAN
      BY <1>1, <3>1 DEF CountMatchesRefs, Referenced, TypeOK
    <3>3. /\ pending' = pending \cup {o} /\ unclaimed'[o] = FALSE
          /\ unclaimed' \in [Objects -> BOOLEAN]
          /\ \A p \in Objects \ {o} : unclaimed'[p] = unclaimed[p]
      BY <1>1, <3>1 DEF TypeOK
    <3>4. PICK n \in Nat : /\ count' = [count EXCEPT ![o] = n]
                           /\ n = gds[o] + 1 + engine[o] + 1
      <4>1. CASE unclaimed[o]
        <5>1. /\ count' = [count EXCEPT ![o] = count[o] + 1] /\ One(unclaimed[o]) = 1
              /\ One(o \in pending) = 0
          BY <3>1, <3>2, <4>1 DEF One
        <5>2. count[o] + 1 \in Nat /\ count[o] + 1 = gds[o] + 1 + engine[o] + 1
          <6>1. count[o] = gds[o] + engine[o] + 0 + 1
            BY <3>2, <5>1
          <6>2. QED
            BY <2>1, <6>1
        <5>3. QED
          BY <5>1, <5>2
      <4>2. CASE ~unclaimed[o] /\ o \notin pending
        <5>1. /\ count' = [count EXCEPT ![o] = count[o] + 2] /\ One(unclaimed[o]) = 0
              /\ One(o \in pending) = 0
          BY <3>1, <4>2 DEF One
        <5>2. count[o] + 2 \in Nat /\ count[o] + 2 = gds[o] + 1 + engine[o] + 1
          BY <2>1, <3>2, <5>1
        <5>3. QED
          BY <5>1, <5>2
      <4>3. CASE ~unclaimed[o] /\ o \in pending
        <5>1. /\ count' = [count EXCEPT ![o] = count[o] + 1] /\ One(unclaimed[o]) = 0
              /\ One(o \in pending) = 1
          BY <3>1, <4>3 DEF One
        <5>2. count[o] + 1 \in Nat /\ count[o] + 1 = gds[o] + 1 + engine[o] + 1
          BY <2>1, <3>2, <5>1
        <5>3. QED
          BY <5>1, <5>2
      <4>4. QED
        BY <4>1, <4>2, <4>3
    <3>5. /\ count' \in [Objects -> Nat] /\ count'[o] = n
          /\ \A p \in Objects \ {o} : count'[p] = count[p]
      BY <1>1, <3>4 DEF TypeOK
    <3>6. deferred' \in [Objects -> Nat]
      BY <1>1, <2>1, <3>1 DEF TypeOK
    <3>7. RefsTyped /\ OnlyRefsOf(o)
      BY <1>1, <2>1, <2>2, <3>1, <3>3, <3>5, <3>6 DEF RefsTyped, OnlyRefsOf, TypeOK, Counted
    <3>8. /\ count'[o] = gds'[o] + engine'[o] + One(o \in pending') + One(unclaimed'[o])
          /\ count'[o] >= 1 /\ ~unclaimed'[o] /\ o \in pending'
      <4>1. One(o \in pending') = 1 /\ One(unclaimed'[o]) = 0 /\ o \in pending'
        BY <3>3 DEF One
      <4>2. QED
        BY <2>1, <2>2, <3>3, <3>4, <3>5, <4>1
    <3>9. ASSUME NEW f \in Frames, FrameHolds(f), f.obj = o, f.kind \in {"init", "postinit"}
          PROVE  gds'[o] <= MaxRefs + 1 /\ engine'[o] <= 1
      BY <2>1, <2>2, <3>9 DEF FrameHolds
    <3>10. QED
      BY <1>1, <2>3, <3>1, <3>7, <3>8, <3>9, BelowFacts, RefsKeep
  <2>6. QED
    BY <2>4, <2>5
<1>4. QED
  BY <1>2, <1>3

(* The stack without its top, for the actions by which a frame returns.       *)
LEMMA PoppedFacts ==
  ASSUME IInv, stack # <<>>
  PROVE  /\ TypeOK /\ FramesHold /\ OnceEach /\ MaxFrames \in Nat /\ MaxRefs \in Nat
         /\ Top \in Frames /\ Top.obj \in Objects /\ FrameHolds(Top)
         /\ Below(Front(stack)) /\ Len(Front(stack)) \in Nat /\ Len(Front(stack)) < MaxFrames
<1>1. TypeOK /\ FramesHold /\ OnceEach /\ MaxFrames \in Nat /\ MaxRefs \in Nat
  BY ObjectLifeAssumption DEF IInv
<1>2. /\ Len(stack) \in Nat \ {0} /\ Top = stack[Len(stack)] /\ Top \in Frames
      /\ Len(Front(stack)) = Len(stack) - 1 /\ Below(Front(stack))
  BY <1>1, TopFacts
<1>3. Len(stack) \in DOMAIN stack
  BY <1>1, <1>2 DEF TypeOK
<1>4. FrameHolds(Top)
  BY <1>1, <1>2, <1>3 DEF FramesHold, FrameHolds
<1>5. Len(Front(stack)) \in Nat /\ Len(Front(stack)) < MaxFrames
  BY <1>1, <1>2 DEF TypeOK
<1>6. QED
  BY <1>1, <1>2, <1>4, <1>5 DEF Frames

LEMMA PostinitReturnsStep == IInv /\ PostinitReturns => IInv'
<1> SUFFICES ASSUME IInv, PostinitReturns PROVE IInv'
  OBVIOUS
<1> DEFINE o == Top.obj
<1>0. stack # <<>> /\ Top.kind = "postinit" /\ crash = "none"
  BY DEF PostinitReturns, At, UserRuns
<1>1. /\ TypeOK /\ FramesHold /\ OnceEach /\ MaxFrames \in Nat /\ MaxRefs \in Nat
      /\ o \in Objects /\ FrameHolds(Top)
      /\ Below(Front(stack)) /\ Len(Front(stack)) \in Nat /\ Len(Front(stack)) < MaxFrames
  BY <1>0, PoppedFacts
<1>2. /\ life[o] = "whole" /\ gds[o] <= MaxRefs + 1 /\ engine[o] <= 1
      /\ o \in Counted => unclaimed[o] \/ o \in pending
  BY <1>0, <1>1 DEF FrameHolds
<1>3. \A f \in Frames : Remains(f, Front(stack)) /\ f.kind \in {"init", "postinit"} => f.obj # o
  BY <1>0, <1>1, TopOnce DEF Once
<1> HIDE DEF o
<1>4. /\ InitRef(o) /\ stack' = Front(stack)
      /\ UNCHANGED <<panicking, crash, manual, life, freed, pending, deferred>>
      /\ gds[o] \in 0..(MaxRefs + 2) /\ engine[o] \in 0..2 /\ count[o] \in Nat
      /\ unclaimed[o] \in BOOLEAN /\ Pins(o) \in Nat /\ Pins(o) <= gds[o]
  BY <1>1, BelowFacts DEF PostinitReturns, o, TypeOK, IInv, Pinned
<1>5. /\ gds' \in [Objects -> 0..(MaxRefs + 2)] /\ engine' \in [Objects -> 0..2]
      /\ gds'[o] \in Nat /\ engine'[o] \in Nat /\ gds'[o] >= gds[o]
      /\ gds'[o] + engine'[o] = gds[o] + engine[o] + 1
      /\ \A p \in Objects \ {o} : gds'[p] = gds[p] /\ engine'[p] = engine[p]
  <2>1. CASE gds' = More(gds, o) /\ UNCHANGED engine
    <3>1. gds[o] + 1 \in 0..(MaxRefs + 2) /\ gds' = [gds EXCEPT ![o] = gds[o] + 1]
      BY <1>1, <1>2, <1>4, <2>1 DEF More
    <3>2. gds'[o] = gds[o] + 1
      BY <1>1, <3>1 DEF TypeOK
    <3>3. QED
      BY <1>1, <1>4, <2>1, <3>1, <3>2 DEF TypeOK
  <2>2. CASE engine' = More(engine, o) /\ UNCHANGED gds
    <3>1. engine[o] + 1 \in 0..2 /\ engine' = [engine EXCEPT ![o] = engine[o] + 1]
      BY <1>2, <1>4, <2>2 DEF More
    <3>2. engine'[o] = engine[o] + 1
      BY <1>1, <3>1 DEF TypeOK
    <3>3. QED
      BY <1>1, <1>4, <2>2, <3>1, <3>2 DEF TypeOK
  <2>3. QED
    BY <2>1, <2>2 DEF PostinitReturns, o
<1>6. Pins(o) <= gds'[o] /\ IsValid(o)
  BY <1>1, <1>2, <1>4, <1>5 DEF IsValid
<1>7. CASE o \in manual
  <2>1. UNCHANGED <<count, unclaimed>> /\ o \notin Counted
    BY <1>4, <1>7 DEF InitRef, IsRefCounted, Counted
  <2>2. RefsTyped /\ OnlyRefsOf(o)
    BY <1>1, <1>4, <1>5, <2>1 DEF RefsTyped, OnlyRefsOf, TypeOK
  <2>3. QED
    BY <1>0, <1>1, <1>2, <1>3, <1>4, <1>6, <2>1, <2>2, RefsKeep
<1>8. CASE o \notin manual
  <2>1. /\ o \in Counted /\ unclaimed' = [unclaimed EXCEPT ![o] = FALSE]
        /\ count' = IF unclaimed[o] THEN count ELSE [count EXCEPT ![o] = count[o] + 1]
    BY <1>1, <1>4, <1>8 DEF InitRef, IsRefCounted, Counted, More
  <2>2. /\ count[o] = gds[o] + engine[o] + One(o \in pending) + One(unclaimed[o])
    BY <1>0, <1>6, <2>1 DEF IInv, CountMatchesRefs
  <2>3. /\ unclaimed'[o] = FALSE /\ unclaimed' \in [Objects -> BOOLEAN]
        /\ \A p \in Objects \ {o} : unclaimed'[p] = unclaimed[p]
    BY <1>1, <2>1 DEF TypeOK
  <2>4. /\ count' \in [Objects -> Nat] /\ \A p \in Objects \ {o} : count'[p] = count[p]
        /\ count'[o] = gds[o] + engine[o] + One(o \in pending) + 1
    <3>1. One(o \in pending) \in Nat
      BY DEF One
    <3>2. CASE unclaimed[o]
      <4>1. One(unclaimed[o]) = 1 /\ count' = count
        BY <2>1, <3>2 DEF One
      <4>2. QED
        BY <1>1, <2>2, <4>1 DEF TypeOK
    <3>3. CASE ~unclaimed[o]
      <4>1. One(unclaimed[o]) = 0 /\ count' = [count EXCEPT ![o] = count[o] + 1]
        BY <2>1, <3>3 DEF One
      <4>2. count[o] + 1 = gds[o] + engine[o] + One(o \in pending) + 1 /\ count[o] + 1 \in Nat
        BY <1>4, <2>2, <3>1, <4>1
      <4>3. QED
        BY <1>1, <4>1, <4>2 DEF TypeOK
    <3>4. QED
      BY <3>2, <3>3
  <2>5. RefsTyped /\ OnlyRefsOf(o)
    BY <1>1, <1>4, <1>5, <2>3, <2>4 DEF RefsTyped, OnlyRefsOf, TypeOK
  <2>6. /\ count'[o] = gds'[o] + engine'[o] + One(o \in pending') + One(unclaimed'[o])
        /\ count'[o] >= 1 /\ ~unclaimed'[o]
    <3>1. One(o \in pending) \in Nat /\ One(o \in pending') = One(o \in pending)
      BY <1>4 DEF One
    <3>2. One(unclaimed'[o]) = 0
      BY <2>3 DEF One
    <3>3. QED
      BY <1>4, <1>5, <2>3, <2>4, <3>1, <3>2
  <2>7. QED
    BY <1>0, <1>1, <1>2, <1>3, <1>4, <1>6, <2>5, <2>6, RefsKeep
<1>9. QED
  BY <1>7, <1>8

(* A frame of another object stays true when one object's life changes.       *)
LEMMA LifeChanges ==
  ASSUME TypeOK, NEW o \in Objects, NEW f \in Frames, FrameHolds(f), f.obj # o,
         OnlyRefsOf(o), manual' = manual, \A p \in Objects \ {o} : life'[p] = life[p]
  PROVE  FrameHolds(f)'
<1>1. Counted' = Counted /\ f.obj \in Objects \ {o}
  BY DEF Counted, Frames
<1>2. QED
  BY <1>1 DEF FrameHolds, OnlyRefsOf

LEMMA CallStep ==
  ASSUME IInv, NEW o \in Objects, NEW by \in Callers, Call(o, by)
  PROVE  IInv'
<1>1. /\ TypeOK /\ FramesHold /\ OnceEach /\ Referenced /\ crash = "none" /\ life[o] = "whole"
      /\ MaxFrames \in Nat /\ Unborn /\ CountMatchesRefs /\ StrongGdIsValid /\ Pinned
      /\ UNCHANGED <<panicking, crash, manual, life, freed>>
      /\ UNCHANGED <<count, unclaimed, gds, engine, pending, deferred>>
      /\ by = "rust" => gds[o] > Pins(o)
  BY ObjectLifeAssumption DEF IInv, Call, UserRuns, refs
<1>2. PICK g \in Frames : /\ g = Frame("method", o, by) /\ g.kind = "method" /\ g.obj = o
                          /\ g.by = by
  <2>1. Frame("method", o, by) \in Frames
    BY DEF Frame, Frames
  <2>2. QED
    BY <2>1 DEF Frame
<1>3. stack' = Append(stack, g) /\ Len(stack) < MaxFrames /\ Below(stack)
  BY <1>1, <1>2, BelowFacts DEF Call, Push
<1>4. \A f \in Frames : FrameHolds(f) => FrameHolds(f)'
  BY <1>1 DEF FrameHolds, Counted
<1>5. FrameHolds(g)'
  <2>1. gds[o] \in Nat /\ engine[o] \in Nat /\ gds[o] + engine[o] > 0 /\ Pins(o) \in Nat
    BY <1>1, BelowFacts DEF Call, TypeOK
  <2>2. o \in Counted => ~unclaimed[o]
    BY <1>1, <2>1 DEF Referenced, IsValid
  <2>3. QED
    BY <1>1, <1>2, <2>2 DEF FrameHolds, Counted
<1>6. g.kind \notin Once
  BY <1>2 DEF Once
<1>7. /\ StackParts
      /\ \A p : /\ Pins(p)' \in Nat
                /\ Pins(p)' <= Pins(p) +
                     (IF g.kind = "method" /\ g.obj = p /\ g.by = "rust" THEN 1 ELSE 0)
  BY <1>1, <1>3, <1>4, <1>5, <1>6, StackAdded
<1>8. TypeOK'
  <2>1. Len(stack') <= MaxFrames
    BY <1>1, <1>3 DEF TypeOK
  <2>2. QED
    BY <1>1, <1>7, <2>1 DEF TypeOK, StackParts, Counted
<1>9. Unborn' /\ Referenced' /\ CountMatchesRefs' /\ StrongGdIsValid'
  BY <1>1 DEF Unborn, Referenced, CountMatchesRefs, StrongGdIsValid, IsValid, Counted
<1>10. Pinned'
  <2> SUFFICES ASSUME NEW p \in Objects PROVE Pins(p)' <= gds[p]
    BY <1>1 DEF Pinned
  <2>1. Pins(p) \in Nat /\ Pins(p)' \in Nat /\ gds[p] \in Int /\ Pins(p) <= gds[p]
    BY <1>1, <1>7, BelowFacts DEF TypeOK, Pinned
  <2>2. CASE p = o /\ by = "rust"
    <3>1. Pins(p)' <= Pins(p) + 1
      BY <1>2, <1>7, <2>2
    <3>2. QED
      BY <1>1, <2>1, <2>2, <3>1
  <2>3. CASE ~(p = o /\ by = "rust")
    <3>1. Pins(p)' <= Pins(p) + 0
      BY <1>2, <1>7, <2>3
    <3>2. QED
      BY <2>1, <3>1
  <2>4. QED
    BY <2>2, <2>3
<1>11. BoundCrashHasCause'
  <2>1. NoCrash' /\ FramesHold'
    BY <1>1, <1>7 DEF NoCrash, StackParts
  <2>2. QED
    BY <1>8, <1>9, <2>1, NoCrashNeedsNoCause, PTL
<1>12. QED
  BY <1>7, <1>8, <1>9, <1>10, <1>11 DEF IInv, StackParts

LEMMA ConstructStep ==
  ASSUME IInv, NEW o \in Objects, NEW by \in Callers, Construct(o, by)
  PROVE  IInv'
<1>1. /\ TypeOK /\ FramesHold /\ OnceEach /\ Referenced /\ crash = "none" /\ life[o] = "none"
      /\ MaxFrames \in Nat /\ MaxRefs \in Nat /\ Unborn /\ CountMatchesRefs
      /\ StrongGdIsValid /\ Pinned
      /\ life' = [life EXCEPT ![o] = "base"]
      /\ UNCHANGED <<panicking, crash, manual, freed, gds, engine, pending, deferred>>
  BY ObjectLifeAssumption DEF IInv, Construct, UserRuns
<1>2. freed[o] = "no" /\ gds[o] = 0 /\ engine[o] = 0 /\ o \notin pending
  BY <1>1 DEF Unborn
<1>3. PICK g \in Frames : /\ g = Frame("init", o, by) /\ g.kind = "init" /\ g.obj = o
  <2>1. Frame("init", o, by) \in Frames
    BY DEF Frame, Frames
  <2>2. QED
    BY <2>1 DEF Frame
<1>4. stack' = Append(stack, g) /\ Len(stack) < MaxFrames /\ Below(stack)
  BY <1>1, <1>3, BelowFacts DEF Construct, Push
<1>5. /\ o \notin Counted => count' = count /\ unclaimed' = unclaimed
      /\ o \in Counted => /\ count' = [count EXCEPT ![o] = 1]
                          /\ unclaimed' = [unclaimed EXCEPT ![o] = TRUE]
      /\ Counted' = Counted /\ Counted \subseteq Objects
  BY <1>1 DEF Construct, IsRefCounted, Counted
<1>6. /\ life' \in [Objects -> {"none", "base", "whole", "dying", "dead"}] /\ life'[o] = "base"
      /\ \A p \in Objects \ {o} : life'[p] = life[p]
  BY <1>1 DEF TypeOK
<1>7. /\ RefsTyped /\ OnlyRefsOf(o)
      /\ o \in Counted => count'[o] = 1 /\ unclaimed'[o] = TRUE
  <2>1. /\ count' \in [Objects -> Nat] /\ unclaimed' \in [Objects -> BOOLEAN]
        /\ o \in Counted => count'[o] = 1 /\ unclaimed'[o] = TRUE
        /\ \A p \in Objects \ {o} : count'[p] = count[p] /\ unclaimed'[p] = unclaimed[p]
    <3>1. CASE o \in Counted
      <4>1. count' = [count EXCEPT ![o] = 1] /\ 1 \in Nat
        BY <1>5, <3>1
      <4>2. /\ count' \in [Objects -> Nat] /\ count'[o] = 1
            /\ \A p \in Objects \ {o} : count'[p] = count[p]
        BY <1>1, <4>1 DEF TypeOK
      <4>3. unclaimed' = [unclaimed EXCEPT ![o] = TRUE]
        BY <1>5, <3>1
      <4>4. /\ unclaimed' \in [Objects -> BOOLEAN] /\ unclaimed'[o] = TRUE
            /\ \A p \in Objects \ {o} : unclaimed'[p] = unclaimed[p]
        BY <1>1, <4>3 DEF TypeOK
      <4>5. QED
        BY <4>2, <4>4
    <3>2. CASE o \notin Counted
      BY <1>1, <1>5, <3>2 DEF TypeOK
    <3>3. QED
      BY <3>1, <3>2
  <2>2. QED
    BY <1>1, <2>1 DEF RefsTyped, OnlyRefsOf, TypeOK
<1>8. ASSUME NEW f \in Frames, Remains(f, stack), FrameHolds(f) PROVE FrameHolds(f)'
  <2>1. f.obj = o => f.kind = "unref"
    BY <1>1, <1>8 DEF FrameHolds, Frames
  <2>2. CASE f.kind = "unref"
    BY <2>2 DEF FrameHolds
  <2>3. CASE f.kind # "unref"
    BY <1>1, <1>6, <1>7, <1>8, <2>1, <2>3, LifeChanges
  <2>4. QED
    BY <2>2, <2>3
<1>9. FrameHolds(g)'
  BY <1>1, <1>2, <1>3, <1>5, <1>6, <1>7 DEF FrameHolds
<1>10. \A f \in Frames : Remains(f, stack) /\ f.kind \in Once => f.obj # g.obj
  <2> SUFFICES ASSUME NEW f \in Frames, Remains(f, stack), f.kind \in Once, f.obj = o
               PROVE  FALSE
    BY <1>3
  <2>1. FrameHolds(f)
    BY <1>1, <1>4, RemainingHolds DEF Once
  <2>2. QED
    BY <1>1, <2>1 DEF FrameHolds, Once
<1>11. /\ StackParts
       /\ \A p : /\ Pins(p)' \in Nat
                 /\ Pins(p)' <= Pins(p) +
                      (IF g.kind = "method" /\ g.obj = p /\ g.by = "rust" THEN 1 ELSE 0)
  BY <1>1, <1>4, <1>8, <1>9, <1>10, StackAdded
<1>12. TypeOK'
  <2>1. Len(stack') <= MaxFrames
    BY <1>1, <1>4 DEF TypeOK
  <2>2. QED
    BY <1>1, <1>5, <1>6, <1>7, <1>11, <2>1 DEF TypeOK, StackParts, RefsTyped
<1>13. Unborn'
  BY <1>1, <1>6 DEF Unborn
<1>14. Referenced'
  <2> SUFFICES ASSUME NEW p \in Objects, IsValid(p)'
               PROVE  /\ freed[p] = "no"
                      /\ p \in Counted =>
                           /\ count'[p] >= 1
                           /\ unclaimed'[p] => gds[p] = 0 /\ engine[p] = 0 /\ p \notin pending
    BY <1>1, <1>5 DEF Referenced
  <2>1. CASE p = o
    BY <1>2, <1>7, <2>1
  <2>2. CASE p # o
    <3>1. IsValid(p)
      BY <1>6, <2>2 DEF IsValid
    <3>2. QED
      BY <1>1, <1>7, <2>2, <3>1 DEF Referenced, OnlyRefsOf
  <2>3. QED
    BY <2>1, <2>2
<1>15. CountMatchesRefs'
  <2> SUFFICES ASSUME NEW p \in Counted, IsValid(p)'
               PROVE  count'[p] = gds[p] + engine[p] + One(p \in pending) + One(unclaimed'[p])
    BY <1>1, <1>5 DEF CountMatchesRefs
  <2>1. CASE p = o
    BY <1>2, <1>7, <2>1 DEF One
  <2>2. CASE p # o
    <3>1. IsValid(p)
      BY <1>5, <1>6, <2>2 DEF IsValid
    <3>2. count[p] = gds[p] + engine[p] + One(p \in pending) + One(unclaimed[p])
      BY <1>1, <3>1 DEF CountMatchesRefs
    <3>3. count'[p] = count[p] /\ unclaimed'[p] = unclaimed[p]
      BY <1>5, <1>7, <2>2 DEF OnlyRefsOf
    <3>4. QED
      BY <3>2, <3>3
  <2>3. QED
    BY <2>1, <2>2
<1>16. StrongGdIsValid'
  BY <1>1, <1>5, <1>6 DEF StrongGdIsValid, IsValid
<1>17. Pinned'
  <2> SUFFICES ASSUME NEW p \in Objects PROVE Pins(p)' <= gds[p]
    BY <1>1 DEF Pinned
  <2>1. Pins(p) \in Nat /\ Pins(p)' \in Nat /\ gds[p] \in Int /\ Pins(p) <= gds[p]
    BY <1>1, <1>11, BelowFacts DEF TypeOK, Pinned
  <2>2. Pins(p)' <= Pins(p) + 0
    BY <1>3, <1>11
  <2>3. QED
    BY <2>1, <2>2
<1>18. BoundCrashHasCause'
  <2>1. NoCrash' /\ FramesHold'
    BY <1>1, <1>11 DEF NoCrash, StackParts
  <2>2. QED
    BY <1>12, <1>14, <2>1, NoCrashNeedsNoCause, PTL
<1>19. QED
  BY <1>11, <1>12, <1>13, <1>14, <1>15, <1>16, <1>17, <1>18 DEF IInv, StackParts

(* Steps that change one object's life only.                                  *)
LEMMA LifeKeeps ==
  ASSUME IInv, crash = "none", NEW o \in Objects, UNCHANGED <<crash, manual, freed, refs>>,
         panicking' \in BOOLEAN, StackParts, Len(stack') <= MaxFrames,
         \A p : Pins(p)' \in Nat /\ Pins(p)' <= Pins(p),
         life' \in [Objects -> {"none", "base", "whole", "dying", "dead"}],
         \A p \in Objects \ {o} : life'[p] = life[p],
         life[o] # "none", life'[o] # "none", life'[o] \in {"base", "whole"} <=> IsValid(o)
  PROVE  IInv'
<1>1. /\ TypeOK /\ Referenced /\ Unborn /\ CountMatchesRefs /\ StrongGdIsValid /\ Pinned
      /\ UNCHANGED <<count, unclaimed, gds, engine, pending, deferred>> /\ Counted' = Counted
  BY DEF IInv, refs, Counted
<1>2. \A p \in Objects : IsValid(p)' <=> IsValid(p)
  BY DEF IsValid
<1>3. TypeOK'
  BY <1>1 DEF TypeOK, StackParts
<1>4. Unborn'
  BY <1>1 DEF Unborn
<1>5. Referenced' /\ CountMatchesRefs' /\ StrongGdIsValid'
  BY <1>1, <1>2 DEF Referenced, CountMatchesRefs, StrongGdIsValid, Counted
<1>6. Pinned'
  <2> SUFFICES ASSUME NEW p \in Objects PROVE Pins(p)' <= gds[p]
    BY <1>1 DEF Pinned
  <2>1. /\ Pins(p) \in Nat /\ Pins(p)' \in Nat /\ gds[p] \in Int /\ Pins(p) <= gds[p]
        /\ Pins(p)' <= Pins(p)
    BY <1>1, BelowFacts DEF TypeOK, Pinned
  <2>2. QED
    BY <2>1
<1>7. BoundCrashHasCause'
  <2>1. NoCrash' /\ FramesHold'
    BY DEF NoCrash, StackParts
  <2>2. QED
    BY <1>3, <1>5, <2>1, NoCrashNeedsNoCause, PTL
<1>8. QED
  BY <1>3, <1>4, <1>5, <1>6, <1>7 DEF IInv, StackParts

LEMMA InitReturnsStep == IInv /\ InitReturns => IInv'
<1> SUFFICES ASSUME IInv, InitReturns PROVE IInv'
  OBVIOUS
<1> DEFINE o == Top.obj
           by == Top.by
<1>0. stack # <<>> /\ Top.kind = "init" /\ crash = "none"
  BY DEF InitReturns, At, UserRuns
<1>1. /\ TypeOK /\ FramesHold /\ OnceEach /\ MaxFrames \in Nat /\ MaxRefs \in Nat
      /\ Top \in Frames /\ o \in Objects /\ FrameHolds(Top)
      /\ Below(Front(stack)) /\ Len(Front(stack)) \in Nat /\ Len(Front(stack)) < MaxFrames
  BY <1>0, PoppedFacts
<1>2. /\ life[o] \in {"base", "dead"} /\ gds[o] <= MaxRefs + 1 /\ engine[o] <= 1
      /\ o \in Counted => unclaimed[o] \/ o \in pending
  BY <1>0, <1>1 DEF FrameHolds
<1>3. by \in Callers
  BY <1>1 DEF Frames
<1>4. \A f \in Frames : Remains(f, Front(stack)) /\ f.kind \in Once => f.obj # o
  BY <1>0, <1>1, TopOnce DEF Once
<1> HIDE DEF o, by
<1>5. CASE IsValid(o)
  <2>1. /\ life' = [life EXCEPT ![o] = "whole"] /\ life[o] = "base"
        /\ stack' = Append(Front(stack), Frame("postinit", o, by))
        /\ UNCHANGED <<panicking, crash, manual, freed, refs>>
        /\ UNCHANGED <<count, unclaimed, gds, engine, pending, deferred>>
    BY <1>2, <1>5 DEF InitReturns, o, by, IsValid, refs
  <2>2. /\ life' \in [Objects -> {"none", "base", "whole", "dying", "dead"}] /\ life'[o] = "whole"
        /\ \A p \in Objects \ {o} : life'[p] = life[p]
    BY <1>1, <2>1 DEF TypeOK
  <2>3. PICK g \in Frames : /\ g = Frame("postinit", o, by) /\ g.kind = "postinit"
                            /\ g.obj = o
    <3>1. Frame("postinit", o, by) \in Frames
      BY <1>1, <1>3 DEF Frame, Frames
    <3>2. QED
      BY <3>1 DEF Frame
  <2>4. ASSUME NEW f \in Frames, Remains(f, Front(stack)), FrameHolds(f) PROVE FrameHolds(f)'
    <3>1. f.obj = o => f.kind = "unref"
      BY <1>4, <2>1, <2>4 DEF FrameHolds, Frames, Once
    <3>2. CASE f.kind = "unref"
      BY <3>2 DEF FrameHolds
    <3>3. CASE f.kind # "unref"
      <4>1. OnlyRefsOf(o)
        BY <2>1 DEF OnlyRefsOf
      <4>2. QED
        BY <1>1, <2>1, <2>2, <2>4, <3>1, <3>3, <4>1, LifeChanges
    <3>4. QED
      BY <3>2, <3>3
  <2>5. FrameHolds(g)'
    BY <1>2, <2>1, <2>2, <2>3 DEF FrameHolds, Counted
  <2>6. g.kind \in Once => \A f \in Frames : Remains(f, Front(stack)) /\ f.kind \in Once =>
                             f.obj # g.obj
    BY <1>4, <2>3
  <2>7. stack' = Append(Front(stack), g)
    BY <2>1, <2>3
  <2>8. /\ StackParts
        /\ \A p : /\ Pins(p)' \in Nat
                  /\ Pins(p)' <= Pins(p) +
                       (IF g.kind = "method" /\ g.obj = p /\ g.by = "rust" THEN 1 ELSE 0)
    BY <1>1, <2>4, <2>5, <2>6, <2>7, StackAdded
  <2>9. \A p : Pins(p)' \in Nat /\ Pins(p)' <= Pins(p)
    <3> SUFFICES ASSUME NEW p PROVE Pins(p)' \in Nat /\ Pins(p)' <= Pins(p)
      OBVIOUS
    <3>1. Pins(p)' \in Nat /\ Pins(p)' <= Pins(p) + 0 /\ Pins(p) \in Nat
      BY <1>1, <2>3, <2>8, BelowFacts
    <3>2. QED
      BY <3>1
  <2>10. Len(stack') <= MaxFrames
    BY <1>1, <2>7 DEF Below
  <2>11. (life'[o] \in {"base", "whole"} <=> IsValid(o)) /\ life[o] # "none" /\ life'[o] # "none"
    BY <2>1, <2>2 DEF IsValid
  <2>12. panicking' \in BOOLEAN
    BY <1>1, <2>1 DEF TypeOK
  <2>13. QED
    BY <1>0, <1>1, <2>1, <2>2, <2>8, <2>9, <2>10, <2>11, <2>12, LifeKeeps
<1>6. CASE ~IsValid(o)
  <2>1. /\ stack' = Front(stack) /\ UNCHANGED <<manual, life, freed, refs>>
        /\ crash' \in {"none", "bound", "unwound", "twice"} /\ panicking' \in BOOLEAN
    <3>1. TypeOK
      BY <1>1
    <3>2. /\ stack' = Front(stack) /\ UNCHANGED <<manual, life, freed, refs>>
          /\ \/ panicking' = TRUE /\ crash' = crash
             \/ crash' = "unwound" /\ panicking' = panicking
      BY <1>6 DEF InitReturns, o, Panic
    <3>3. QED
      BY <3>1, <3>2 DEF TypeOK
  <2>2. QED
    BY <1>0, <1>1, <2>1, FramesKeep
<1>7. QED
  BY <1>5, <1>6

LEMMA DropReturnsStep == IInv /\ DropReturns => IInv'
<1> SUFFICES ASSUME IInv, DropReturns PROVE IInv'
  OBVIOUS
<1> DEFINE o == Top.obj
<1>0. stack # <<>> /\ Top.kind = "drop" /\ crash = "none"
  BY DEF DropReturns, At, UserRuns
<1>1. /\ TypeOK /\ FramesHold /\ OnceEach /\ MaxFrames \in Nat
      /\ o \in Objects /\ FrameHolds(Top)
      /\ Below(Front(stack)) /\ Len(Front(stack)) \in Nat /\ Len(Front(stack)) < MaxFrames
  BY <1>0, PoppedFacts
<1>2. life[o] = "dying"
  BY <1>0, <1>1 DEF FrameHolds
<1>3. \A f \in Frames : Remains(f, Front(stack)) /\ f.kind \in Once => f.obj # o
  BY <1>0, <1>1, TopOnce DEF Once
<1> HIDE DEF o
<1>4. /\ life' = [life EXCEPT ![o] = "dead"] /\ UNCHANGED <<panicking, crash, manual, freed, refs>>
      /\ UNCHANGED <<count, unclaimed, gds, engine, pending, deferred>>
  BY DEF DropReturns, o, refs
<1>5. /\ life' \in [Objects -> {"none", "base", "whole", "dying", "dead"}] /\ life'[o] = "dead"
      /\ \A p \in Objects \ {o} : life'[p] = life[p]
  BY <1>1, <1>4 DEF TypeOK
<1>6. PICK s : /\ stack' = s /\ Below(s) /\ Len(s) <= MaxFrames
               /\ \A f : Remains(f, s) => Remains(f, Front(stack))
  <2>1. CASE stack' = Front(stack)
    BY <1>1, <2>1
  <2>2. CASE Len(stack) > 1 /\ stack' = Front(Front(stack))
    <3> DEFINE t == Front(stack)
    <3>1. /\ t \in Seq(Frames) /\ Len(t) = Len(stack) - 1 /\ Len(stack) \in Nat
      BY <1>0, <1>1, TopFacts
    <3> HIDE DEF t
    <3>2. /\ 1 \in Int /\ Len(t) - 1 \in Int /\ \A i \in 1 .. Len(t) - 1 : t[i] \in Frames
          /\ Len(t) \in Nat \ {0} /\ DOMAIN t = 1 .. Len(t)
      BY <2>2, <3>1
    <3>3. /\ SubSeq(t, 1, Len(t) - 1) \in Seq(Frames)
          /\ Len(SubSeq(t, 1, Len(t) - 1)) = IF 1 <= Len(t) - 1 THEN Len(t) - 1 - 1 + 1 ELSE 0
          /\ \A i \in 1 .. Len(t) - 1 - 1 + 1 : SubSeq(t, 1, Len(t) - 1)[i] = t[1 + i - 1]
      BY ONLY <3>2, SubSeqProperties
    <3>4. Len(t) - 1 - 1 + 1 = Len(t) - 1 /\ \A i \in 1 .. Len(t) - 1 : 1 + i - 1 = i
      BY <3>2
    <3>5. /\ Front(t) \in Seq(Frames) /\ Len(Front(t)) = Len(t) - 1
          /\ \A i \in 1 .. Len(t) - 1 : Front(t)[i] = t[i]
      BY <3>2, <3>3, <3>4 DEF Front
    <3>6. /\ DOMAIN Front(t) = 1 .. Len(t) - 1
          /\ \A i \in DOMAIN Front(t) : i \in DOMAIN t /\ Front(t)[i] = t[i]
      BY <3>2, <3>5
    <3>7. Below(Front(t)) /\ \A f : Remains(f, Front(t)) => Remains(f, t)
      BY <1>1, <3>5, <3>6 DEF Below, Remains, t
    <3>8. Len(Front(t)) <= MaxFrames
      BY <1>1, <3>2, <3>5 DEF t
    <3>9. stack' = Front(t)
      BY <2>2 DEF t
    <3>10. QED
      BY <3>7, <3>8, <3>9 DEF t
  <2>3. QED
    BY <2>1, <2>2 DEF DropReturns
<1>7. ASSUME NEW f \in Frames, Remains(f, s), FrameHolds(f) PROVE FrameHolds(f)'
  <2>1. f.obj = o => f.kind = "unref"
    BY <1>2, <1>3, <1>6, <1>7 DEF FrameHolds, Frames, Once
  <2>2. CASE f.kind = "unref"
    BY <2>2 DEF FrameHolds
  <2>3. CASE f.kind # "unref"
    <3>1. OnlyRefsOf(o)
      BY <1>4 DEF OnlyRefsOf
    <3>2. QED
      BY <1>1, <1>4, <1>5, <1>7, <2>1, <2>3, <3>1, LifeChanges
  <2>4. QED
    BY <2>2, <2>3
<1>8. /\ StackParts
      /\ \A p : Pins(p)' \in Nat /\ Pins(p)' <= Pins(p)
  BY <1>1, <1>6, <1>7, StackLeft
<1>9. (life'[o] \in {"base", "whole"} <=> IsValid(o)) /\ life[o] # "none" /\ life'[o] # "none"
  BY <1>2, <1>5 DEF IsValid
<1>10. Len(stack') <= MaxFrames /\ panicking' \in BOOLEAN
  BY <1>1, <1>4, <1>6 DEF TypeOK
<1>11. QED
  BY <1>0, <1>1, <1>4, <1>5, <1>8, <1>9, <1>10, LifeKeeps

LEMMA UnwindStep == IInv /\ Unwind => IInv'
<1> SUFFICES ASSUME IInv, Unwind PROVE IInv'
  OBVIOUS
<1>0. TypeOK /\ crash = "none" /\ panicking /\ UNCHANGED <<manual, refs>>
  BY DEF IInv, Unwind
<1>1. CASE stack = <<>> \/ Top.kind \in {"postinit", "drop"}
  <2>1. /\ UNCHANGED <<stack, life, freed>> /\ panicking' \in BOOLEAN
        /\ crash' \in {"none", "bound", "unwound", "twice"}
    BY <1>0, <1>1 DEF Unwind, TypeOK
  <2>2. QED
    BY <1>0, <2>1, BelowFacts, FramesKeep
<1>2. CASE stack # <<>> /\ Top.kind \notin {"postinit", "drop"}
  <2> DEFINE o == Top.obj
  <2>1. /\ FramesHold /\ OnceEach /\ MaxFrames \in Nat /\ MaxRefs \in Nat
        /\ Top \in Frames /\ o \in Objects /\ FrameHolds(Top)
        /\ Below(Front(stack)) /\ Len(Front(stack)) \in Nat /\ Len(Front(stack)) < MaxFrames
    BY <1>2, PoppedFacts
  <2>2. panicking' \in BOOLEAN
    BY <1>2 DEF Unwind
  <2>3. CASE Top.kind = "init" /\ IsValid(o)
    <3>1. life[o] = "base"
      BY <2>1, <2>3 DEF FrameHolds, IsValid
    <3>2. \A f \in Frames : Remains(f, Front(stack)) /\ f.kind \in Once => f.obj # o
      BY <1>0, <1>2, <2>1, <2>3, TopOnce DEF Once
    <3> HIDE DEF o
    <3>3. Destroy(o, Front(stack), "init") /\ "init" \in Causes
      BY <1>2, <2>3 DEF Unwind, o, Causes
    <3>4. UNCHANGED <<count, unclaimed, gds, engine, pending, deferred>>
      BY <1>0 DEF refs
    <3>5. RefsTyped /\ OnlyRefsOf(o)
      BY <1>0, <2>2, <3>4 DEF RefsTyped, OnlyRefsOf, TypeOK
    <3>6. gds'[o] <= gds[o] /\ engine'[o] <= engine[o] /\ Pins(o) <= gds'[o]
      <4>1. gds[o] \in 0..(MaxRefs + 2) /\ engine[o] \in 0..2
        BY <1>0, <2>1 DEF TypeOK
      <4>2. QED
        BY <2>1, <3>4, <4>1 DEF IInv, Pinned
    <3>7. ~IsBound(o)
      BY <1>0, <2>1, <3>1, BoundNotFreed DEF IInv
    <3>8. \A f \in Frames :
            ~(Remains(f, Front(stack)) /\ f.kind \in {"init", "postinit"} /\ f.obj = o)
      BY <3>2 DEF Once
    <3>9. Len(Front(stack)) <= MaxFrames /\ unclaimed'[o] = unclaimed[o]
      BY <2>1, <3>4
    <3>10. QED
      BY <1>0, <2>1, <2>3, <3>3, <3>5, <3>6, <3>7, <3>8, <3>9, DestroyKeeps
  <2>4. CASE ~(Top.kind = "init" /\ IsValid(o))
    <3>1. stack' = Front(stack) /\ (crash' = crash \/ crash' = "twice") /\ UNCHANGED <<life, freed>>
      BY <1>2, <2>4 DEF Unwind, DestroyAgain
    <3>2. QED
      BY <1>0, <2>1, <2>2, <3>1, FramesKeep
  <2>5. QED
    BY <2>3, <2>4
<1>3. QED
  BY <1>1, <1>2

LEMMA NextIInv == IInv /\ [Next]_vars => IInv'
<1> SUFFICES ASSUME IInv, [Next]_vars PROVE IInv'
  OBVIOUS
<1>1. ASSUME NEW o \in Objects, NEW by \in Callers, Construct(o, by) \/ Call(o, by)
      PROVE  IInv'
  BY <1>1, ConstructStep, CallStep
<1>2. ASSUME NEW o \in Objects,
             \/ ToInitGd(o) \/ CloneGd(o) \/ DropGd(o) \/ FreeDying(o)
             \/ EngineRef(o) \/ EngineUnref(o) \/ EngineDeletes(o) \/ RunDeferred(o)
      PROVE  IInv'
  BY <1>2, FreeDyingStep, ToInitGdStep, CloneGdStep, DropGdStep, RunDeferredStep, EngineRefStep,
     EngineUnrefStep, EngineDeletesStep
<1>3. ASSUME NEW o \in Objects, NEW upcast \in BOOLEAN, FreeGd(o, upcast)
      PROVE  IInv'
  BY <1>3, FreeGdStep
<1>4. CASE InitReturns \/ PostinitReturns \/ CallReturns \/ DropReturns \/ UserPanics \/ Unwind
  BY <1>4, InitReturnsStep, PostinitReturnsStep, CallReturnsStep, DropReturnsStep,
     UserPanicsStep, UnwindStep
<1>5. CASE UNCHANGED vars
  <2>1. UNCHANGED <<stack, panicking, crash, manual, life, freed, count, unclaimed, gds,
                    engine, pending, deferred>>
    BY <1>5 DEF vars, refs
  <2>2. /\ TypeOK' /\ Unborn' /\ Counted' = Counted
        /\ \A o : IsBound(o)' = IsBound(o) /\ Pins(o)' = Pins(o)
        /\ \A o : IsValid(o)' = IsValid(o)
        /\ \A f : FrameHolds(f)' = FrameHolds(f)
    BY <2>1 DEF IInv, TypeOK, Unborn, Counted, IsBound, Pins, FramesOf, IsValid, FrameHolds
  <2>3. FramesHold' /\ OnceEach' /\ Referenced' /\ Pinned'
    BY <2>1, <2>2 DEF IInv, FramesHold, OnceEach, Referenced, Pinned
  <2>4. CountMatchesRefs' /\ StrongGdIsValid' /\ BoundCrashHasCause'
    BY <2>1, <2>2 DEF IInv, CountMatchesRefs, StrongGdIsValid, BoundCrashHasCause
  <2>5. QED
    BY <2>2, <2>3, <2>4 DEF IInv
<1>6. QED
  BY <1>1, <1>2, <1>3, <1>4, <1>5 DEF Next

LEMMA SpecIInv == Spec => []IInv
BY InitIInv, NextIInv, PTL DEF Spec
-----------------------------------------------------------------------------
(* Whatever the objects and however deeply calls nest, every variable keeps   *)
(* its type: no counter of references leaves its range.                       *)
THEOREM SpecTypeOK == Spec => []TypeOK
<1>1. IInv => TypeOK
  BY DEF IInv
<1>2. QED
  BY <1>1, SpecIInv, PTL

(* The reference count of a live object is the number of references to it:    *)
(* those of user code and of the engine, the surplus one of to_init_gd, and   *)
(* the initial one that nobody claimed.                                       *)
THEOREM SpecCountMatchesRefs == Spec => []CountMatchesRefs
<1>1. IInv => CountMatchesRefs
  BY DEF IInv
<1>2. QED
  BY <1>1, SpecIInv, PTL

(* A reference-counted object lives while its constructor or its first        *)
(* notification runs, and as long as a strong Gd to it exists, unless its     *)
(* constructor panicked: RawGd's drop and drop_strong_ref never destroy it.   *)
THEOREM SpecStrongRefsKeepAlive == Spec => []StrongRefsKeepAlive
<1>1. IInv => StrongRefsKeepAlive
  <2> SUFFICES ASSUME IInv PROVE AliveThroughInit
    BY DEF StrongRefsKeepAlive, IInv
  <2> SUFFICES ASSUME NEW o \in Counted, NEW i \in DOMAIN stack,
                      stack[i].kind \in {"init", "postinit"}, stack[i].obj = o
               PROVE  IsValid(o)
    BY DEF AliveThroughInit, FramesOf
  <2>1. FrameHolds(stack[i])
    BY DEF IInv, FramesHold
  <2>2. QED
    BY <2>1 DEF FrameHolds, IsValid
<1>2. QED
  BY <1>1, SpecIInv, PTL

(* A method never runs on an object whose storage was dropped, and            *)
(* destroy_storage ends the process for a bound object only if that object is *)
(* manual, or was called without a Gd that lasts for the call.                *)
THEOREM SpecBoundIsSafe == Spec => []BoundIsSafe
<1>1. IInv => BoundIsSafe
  <2> SUFFICES ASSUME IInv PROVE BoundIsWhole
    BY DEF BoundIsSafe, IInv
  <2> SUFFICES ASSUME NEW o \in Objects, IsBound(o) PROVE life[o] = "whole"
    BY DEF BoundIsWhole
  <2>1. PICK i \in DOMAIN stack : stack[i].kind \in {"method", "postinit"} /\ stack[i].obj = o
    BY BoundAre
  <2>2. QED
    BY <2>1 DEF IInv, FramesHold, FrameHolds
<1>2. QED
  BY <1>1, SpecIInv, PTL
=============================================================================
