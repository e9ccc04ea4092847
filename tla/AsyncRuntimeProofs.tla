-------------------------- MODULE AsyncRuntimeProofs --------------------------
(* For any number of tasks and of waiting calls: the slots of the runtime are *)
(* reused without a task ever being polled, parked, cleared or dropped in     *)
(* place of another, and is_pending tells the truth.                          *)
EXTENDS AsyncRuntime, FiniteSetTheorems, FunctionTheorems, SequenceTheorems,
        WellFoundedInduction, TLAPS

(* A slot holds a task that was spawned, a pending one with its own future,   *)
(* and no two tasks in progress have one id.                                  *)
IsLive(k) == tasks[k].value # "Gone"

SlotsOwn ==
  /\ Len(tasks) <= nextTaskId
  /\ \A k \in DOMAIN tasks :
       /\ tasks[k].id < nextTaskId
       /\ tasks[k].value = "Pending" => tasks[k].future = tasks[k].id
  /\ \A j, k \in DOMAIN tasks :
       IsLive(j) /\ IsLive(k) /\ tasks[j].id = tasks[k].id => j = k

(* The polls in progress and the slots marked Polling are one to one.         *)
PollsReserve ==
  /\ \A k \in DOMAIN polling : LET at == polling[k].at IN
       /\ polling[k].future = at.id /\ at.index \in DOMAIN tasks
       /\ tasks[at.index].value = "Polling" /\ tasks[at.index].id = at.id
  /\ \A j, k \in DOMAIN polling : polling[j].at.index = polling[k].at.index => j = k
  /\ \A k \in DOMAIN tasks : tasks[k].value = "Polling" =>
       \E j \in DOMAIN polling : polling[j].at.index = k

(* A task is in progress while a slot that is not Gone has its id.            *)
StatusTells ==
  \A t \in TaskIds :
    /\ status[t] = "unborn" <=> t >= nextTaskId
    /\ status[t] = "pending" <=> \E k \in DOMAIN tasks : IsLive(k) /\ tasks[k].id = t

(* Whoever kept a handle or a waker knows where the task is, if it still is.  *)
RefKnown(r) ==
  /\ r.id < nextTaskId
  /\ alive => /\ r.index \in DOMAIN tasks
              /\ \A k \in DOMAIN tasks : IsLive(k) /\ tasks[k].id = r.id => k = r.index

RefsKnown ==
  /\ \A r \in handles \cup wakers : RefKnown(r)
  /\ \A k \in DOMAIN deferred : RefKnown(deferred[k])

(* Nothing is left of the runtime after cleanup.                              *)
CleanedUp == ~alive => tasks = <<>> /\ polling = <<>>

IInv ==
  /\ TypeOK /\ SlotsOwn /\ PollsReserve /\ StatusTells /\ RefsKnown /\ CleanedUp
-----------------------------------------------------------------------------
(* The slots: a step writes one of them, s into the place k.                  *)
PollRecords == [at : Ref, future : TaskIds, bySpawn : BOOLEAN]

SlotSet(k, s) ==
  /\ s \in Slot /\ k \in DOMAIN tasks
  /\ tasks' \in Seq(Slot) /\ Len(tasks') = Len(tasks) /\ DOMAIN tasks' = DOMAIN tasks
  /\ tasks'[k] = s /\ \A j \in DOMAIN tasks \ {k} : tasks'[j] = tasks[j]

LEMMA Types ==
  ASSUME TypeOK
  PROVE  /\ Len(tasks) \in Nat /\ DOMAIN tasks = 1 .. Len(tasks)
         /\ \A k \in DOMAIN tasks :
              /\ tasks[k] \in Slot /\ tasks[k].value \in {"Gone", "Pending", "Polling"}
              /\ tasks[k].id \in TaskIds /\ tasks[k].future \in TaskIds \cup {NoFuture}
         /\ Len(polling) \in Nat /\ DOMAIN polling = 1 .. Len(polling)
         /\ \A k \in DOMAIN polling :
              /\ polling[k] \in PollRecords /\ polling[k].at \in Ref /\ polling[k].future \in TaskIds
              /\ polling[k].at.id \in TaskIds /\ polling[k].at.index \in Nat
         /\ Len(deferred) \in Nat /\ DOMAIN deferred = 1 .. Len(deferred)
         /\ \A k \in DOMAIN deferred : deferred[k] \in Ref
         /\ MaxTasks \in Nat /\ MaxQueue \in Nat /\ NoFuture \notin TaskIds
<1>1. MaxTasks \in Nat /\ MaxQueue \in Nat /\ NoFuture \notin TaskIds
  BY RuntimeAssumption DEF TaskIds, NoFuture
<1>2. /\ Len(tasks) \in Nat /\ DOMAIN tasks = 1 .. Len(tasks)
      /\ Len(polling) \in Nat /\ DOMAIN polling = 1 .. Len(polling)
      /\ Len(deferred) \in Nat /\ DOMAIN deferred = 1 .. Len(deferred)
      /\ \A k \in DOMAIN tasks : tasks[k] \in Slot
      /\ \A k \in DOMAIN polling : polling[k] \in PollRecords
      /\ \A k \in DOMAIN deferred : deferred[k] \in Ref
  <2>1. tasks \in Seq(Slot) /\ polling \in Seq(PollRecords) /\ deferred \in Seq(Ref)
    BY DEF TypeOK, PollRecords
  <2>2. QED
    BY <2>1
<1>3. \A s \in Slot : /\ s.value \in {"Gone", "Pending", "Polling"}
                      /\ s.id \in TaskIds /\ s.future \in TaskIds \cup {NoFuture}
  BY DEF Slot
<1>4. \A p \in PollRecords : /\ p.at \in Ref /\ p.future \in TaskIds /\ p.at.id \in TaskIds
                       /\ p.at.index \in Nat
  BY DEF PollRecords, Ref
<1>5. QED
  BY <1>1, <1>2, <1>3, <1>4

LEMMA ReplacingASlot ==
  ASSUME NEW slots \in Seq(Slot), NEW k \in DOMAIN slots, NEW s \in Slot
  PROVE  /\ [slots EXCEPT ![k] = s] \in Seq(Slot) /\ Len([slots EXCEPT ![k] = s]) = Len(slots)
         /\ Len(slots) \in Nat /\ DOMAIN [slots EXCEPT ![k] = s] = DOMAIN slots
         /\ [slots EXCEPT ![k] = s][k] = s
         /\ \A j \in DOMAIN slots \ {k} : [slots EXCEPT ![k] = s][j] = slots[j]
OBVIOUS

LEMMA TakenSlot ==
  ASSUME NEW x \in Slot
  PROVE  LET s == [x EXCEPT !.value = "Polling", !.future = NoFuture] IN
         /\ s \in Slot /\ s.value = "Polling" /\ s.id = x.id /\ s.future = NoFuture
         /\ s = [value |-> "Polling", id |-> x.id, future |-> NoFuture]
<1> DEFINE s == [x EXCEPT !.value = "Polling", !.future = NoFuture]
<1>1. s \in Slot /\ s.value = "Polling" /\ s.id = x.id /\ s.future = NoFuture
  BY DEF Slot
<1> HIDE DEF s
<1>2. s = [value |-> "Polling", id |-> x.id, future |-> NoFuture]
  BY <1>1 DEF Slot
<1>3. QED
  BY <1>1, <1>2 DEF s

LEMMA SettingASlot ==
  ASSUME TypeOK, NEW k \in DOMAIN tasks, NEW s \in Slot, tasks' = [tasks EXCEPT ![k] = s]
  PROVE  SlotSet(k, s)
BY DEF SlotSet, TypeOK

(* What holds whichever slot is written, if its task stays the same and is    *)
(* not revived.                                                               *)
LEMMA SlotSetKeeps ==
  ASSUME TypeOK, SlotsOwn, NEW k, NEW s, SlotSet(k, s), s.id = tasks[k].id,
         s.value = "Pending" => s.future = s.id,
         s.value # "Pending" => s.future = NoFuture,
         s.value # "Gone" => IsLive(k), UNCHANGED <<alive, nextTaskId>>
  PROVE  /\ SlotsOwn' /\ Len(tasks') <= MaxTasks
         /\ \A j \in DOMAIN tasks' : tasks'[j].value = "Pending" <=> tasks'[j].future # NoFuture
         /\ \A j \in DOMAIN tasks : tasks'[j].id = tasks[j].id /\ (IsLive(j)' => IsLive(j))
         /\ \A r : RefKnown(r) => RefKnown(r)'
<1>1. /\ DOMAIN tasks' = DOMAIN tasks /\ Len(tasks') = Len(tasks) /\ k \in DOMAIN tasks
      /\ tasks'[k] = s /\ \A j \in DOMAIN tasks \ {k} : tasks'[j] = tasks[j]
      /\ s \in Slot
  BY DEF SlotSet
<1>2. \A j \in DOMAIN tasks : tasks'[j].id = tasks[j].id /\ (IsLive(j)' => IsLive(j))
  <2> SUFFICES ASSUME NEW j \in DOMAIN tasks
               PROVE  tasks'[j].id = tasks[j].id /\ (tasks'[j].value # "Gone" => IsLive(j))
    BY DEF IsLive
  <2>1. CASE j = k
    BY <1>1, <2>1
  <2>2. CASE j # k
    BY <1>1, <2>2 DEF IsLive
  <2>3. QED
    BY <2>1, <2>2
<1>3. SlotsOwn'
  <2>1. Len(tasks') <= nextTaskId'
    BY <1>1 DEF SlotsOwn
  <2>2. ASSUME NEW j \in DOMAIN tasks'
        PROVE  /\ tasks'[j].id < nextTaskId'
               /\ tasks'[j].value = "Pending" => tasks'[j].future = tasks'[j].id
    <3>1. CASE j = k
      BY <1>1, <3>1 DEF SlotsOwn
    <3>2. CASE j # k
      BY <1>1, <2>2, <3>2 DEF SlotsOwn
    <3>3. QED
      BY <3>1, <3>2
  <2>3. \A i, j \in DOMAIN tasks' :
          IsLive(i)' /\ IsLive(j)' /\ tasks'[i].id = tasks'[j].id => i = j
    BY <1>1, <1>2 DEF SlotsOwn
  <2>4. QED
    BY <2>1, <2>2, <2>3 DEF SlotsOwn
<1>4. ASSUME NEW j \in DOMAIN tasks'
      PROVE  tasks'[j].value = "Pending" <=> tasks'[j].future # NoFuture
  <2>1. s.value = "Pending" => s.future \in TaskIds
    BY <1>1 DEF Slot
  <2>2. CASE j = k
    BY <1>1, <2>1, <2>2, Types
  <2>3. CASE j # k
    BY <1>1, <1>4, <2>3 DEF TypeOK
  <2>4. QED
    BY <2>2, <2>3
<1>5. ASSUME NEW r, RefKnown(r) PROVE RefKnown(r)'
  BY <1>1, <1>2, <1>5 DEF RefKnown
<1>6. Len(tasks') <= MaxTasks
  BY <1>1 DEF TypeOK
<1>7. QED
  BY <1>2, <1>3, <1>4, <1>5, <1>6

LEMMA LeastExists ==
  ASSUME NEW S \in SUBSET Nat, S # {}
  PROVE  \E n \in S : \A m \in S : n <= m
<1>1. PICK n \in S : \A m \in S : ~(<<m, n>> \in OpToRel(<, Nat))
  BY NatLessThanWellFounded, WFMin
<1>2. \A m \in S : ~(m < n)
  BY <1>1 DEF OpToRel
<1>3. QED
  BY <1>2

(* add_task finds a place that is free, or makes one.                         *)
LEMMA AddingATask ==
  ASSUME TypeOK, NEW id \in TaskIds
  PROVE  LET k == IndexForTask
             slots == AddTask(id)
         IN  /\ k \in Nat \ {0} /\ slots \in Seq(Slot) /\ DOMAIN slots = DOMAIN tasks \cup {k}
             /\ Len(slots) <= Len(tasks) + 1
             /\ k \in DOMAIN tasks => tasks[k].value = "Gone"
             /\ slots[k] = [value |-> "Pending", id |-> id, future |-> id]
             /\ \A j \in DOMAIN tasks \ {k} : slots[j] = tasks[j]
<1> DEFINE s == [value |-> "Pending", id |-> id, future |-> id]
<1>1. s \in Slot
  BY DEF Slot
<1>2. /\ tasks \in Seq(Slot) /\ Len(tasks) \in Nat /\ DOMAIN tasks = 1 .. Len(tasks)
  BY Types DEF TypeOK
<1> HIDE DEF s
<1>3. CASE FreeSlots = {}
  <2>1. IndexForTask = Len(tasks) + 1 /\ AddTask(id) = Append(tasks, s)
    BY <1>3 DEF IndexForTask, AddTask, s
  <2>2. /\ Append(tasks, s) \in Seq(Slot) /\ DOMAIN Append(tasks, s) = DOMAIN tasks \cup {Len(tasks) + 1}
        /\ Len(Append(tasks, s)) = Len(tasks) + 1 /\ Append(tasks, s)[Len(tasks) + 1] = s
        /\ \A j \in DOMAIN tasks : Append(tasks, s)[j] = tasks[j]
        /\ Len(tasks) + 1 \notin DOMAIN tasks /\ Len(tasks) + 1 \in Nat \ {0}
    BY <1>1, <1>2
  <2>3. QED
    BY <1>2, <2>1, <2>2 DEF s
<1>4. CASE FreeSlots # {}
  <2>1. FreeSlots \in SUBSET Nat /\ FreeSlots \subseteq DOMAIN tasks
    BY <1>2 DEF FreeSlots
  <2>2. IndexForTask \in FreeSlots
    <3>1. \E n \in FreeSlots : \A m \in FreeSlots : n <= m
      BY <1>4, <2>1, LeastExists
    <3>2. QED
      BY <1>4, <3>1 DEF IndexForTask
  <2>3. PICK k \in FreeSlots : k = IndexForTask
    BY <2>2
  <2>4. AddTask(id) = [tasks EXCEPT ![k] = s]
    BY <1>4, <2>3 DEF AddTask, s
  <2>5. k \in DOMAIN tasks /\ tasks[k].value = "Gone" /\ k \in Nat \ {0}
    BY <1>2 DEF FreeSlots
  <2>6. /\ [tasks EXCEPT ![k] = s] \in Seq(Slot) /\ Len([tasks EXCEPT ![k] = s]) = Len(tasks)
        /\ DOMAIN [tasks EXCEPT ![k] = s] = DOMAIN tasks
    BY <1>1, <1>2, <2>5
  <2>7. QED
    BY <1>2, <2>3, <2>4, <2>5, <2>6 DEF s
<1>5. QED
  BY <1>3, <1>4

(* The polls: the innermost one, and those that remain when it ends.          *)
LEMMA PollingEnds ==
  ASSUME TypeOK, EndPoll
  PROVE  /\ Len(polling) \in DOMAIN polling /\ Innermost = polling[Len(polling)]
         /\ Innermost \in PollRecords
         /\ polling' \in Seq(PollRecords) /\ DOMAIN polling' = DOMAIN polling \ {Len(polling)}
         /\ \A j \in DOMAIN polling' : polling'[j] = polling[j]
         /\ \A h \in handles' : h \in handles \/ h = Innermost.at
<1>1. /\ polling \in Seq(PollRecords) /\ polling # <<>> /\ Len(polling) \in Nat
      /\ DOMAIN polling = 1 .. Len(polling)
  BY Types DEF EndPoll, TypeOK, PollRecords
<1>2. Len(polling) \in Nat \ {0} /\ Len(polling) \in DOMAIN polling
  BY <1>1
<1>3. /\ Innermost = polling[Len(polling)] /\ Innermost \in PollRecords
  BY <1>1, <1>2 DEF Innermost
<1>4. /\ 1 \in Int /\ Len(polling) - 1 \in Int
      /\ \A j \in 1 .. Len(polling) - 1 : polling[j] \in PollRecords
  BY <1>1, <1>2
<1>5. /\ SubSeq(polling, 1, Len(polling) - 1) \in Seq(PollRecords)
      /\ Len(SubSeq(polling, 1, Len(polling) - 1))
           = IF 1 <= Len(polling) - 1 THEN Len(polling) - 1 - 1 + 1 ELSE 0
      /\ \A j \in 1 .. Len(polling) - 1 - 1 + 1 :
           SubSeq(polling, 1, Len(polling) - 1)[j] = polling[1 + j - 1]
  BY ONLY <1>4, SubSeqProperties
<1>6. /\ Len(polling) - 1 - 1 + 1 = Len(polling) - 1
      /\ \A j \in 1 .. Len(polling) - 1 : 1 + j - 1 = j
  BY <1>2
<1>7. /\ polling' \in Seq(PollRecords) /\ Len(polling') = Len(polling) - 1
      /\ \A j \in 1 .. Len(polling) - 1 : polling'[j] = polling[j]
  BY <1>2, <1>5, <1>6 DEF EndPoll
<1>8. DOMAIN polling' = 1 .. Len(polling) - 1
  BY <1>7
<1>9. 1 .. Len(polling) - 1 = (1 .. Len(polling)) \ {Len(polling)}
  BY <1>2
<1>10. \A h \in handles' : h \in handles \/ h = Innermost.at
  BY DEF EndPoll
<1>11. QED
  BY <1>1, <1>2, <1>3, <1>7, <1>8, <1>9, <1>10

(* The slot of a task that is being polled, and the reference to it.          *)
LEMMA InnermostSlot ==
  ASSUME IInv, polling # <<>>
  PROVE  LET at == Innermost.at IN
         /\ alive /\ at \in Ref /\ at.index \in DOMAIN tasks /\ RefKnown(at)
         /\ tasks[at.index].value = "Polling" /\ tasks[at.index].id = at.id
         /\ Innermost.future = at.id /\ at.id \in TaskIds
<1>1. TypeOK /\ SlotsOwn /\ PollsReserve /\ alive
  BY DEF IInv, CleanedUp, TypeOK
<1>2. Len(polling) \in DOMAIN polling
  BY <1>1, Types DEF TypeOK
<1>3. PICK i \in DOMAIN polling : Innermost = polling[i]
  BY <1>2 DEF Innermost
<1>4. /\ Innermost.future = Innermost.at.id /\ Innermost.at.index \in DOMAIN tasks
      /\ tasks[Innermost.at.index].value = "Polling"
      /\ tasks[Innermost.at.index].id = Innermost.at.id
  BY <1>1, <1>3 DEF PollsReserve
<1>5. Innermost.at \in Ref /\ Innermost.at.id \in TaskIds
  BY <1>1, <1>3, Types
<1>6. RefKnown(Innermost.at)
  BY <1>1, <1>4 DEF RefKnown, SlotsOwn, IsLive
<1>7. QED
  BY <1>1, <1>4, <1>5, <1>6
-----------------------------------------------------------------------------
(* Every action keeps the invariant.                                          *)
LEMMA InitIInv == Init => IInv
<1> SUFFICES ASSUME Init PROVE IInv
  OBVIOUS
<1>1. MaxTasks \in Nat /\ MaxQueue \in Nat /\ \A t \in TaskIds : t \in Nat
  BY RuntimeAssumption DEF TaskIds
<1>2. TypeOK
  BY <1>1 DEF Init, TypeOK
<1>3. SlotsOwn /\ PollsReserve /\ RefsKnown /\ CleanedUp
  BY DEF Init, SlotsOwn, PollsReserve, RefsKnown, CleanedUp
<1>4. StatusTells
  BY <1>1 DEF Init, StatusTells
<1>5. QED
  BY <1>2, <1>3, <1>4 DEF IInv

LEMMA WakeStep ==
  ASSUME IInv, NEW w \in wakers, Wake(w)
  PROVE  IInv'
<1>1. /\ TypeOK /\ SlotsOwn /\ PollsReserve /\ StatusTells /\ RefsKnown /\ CleanedUp
      /\ UNCHANGED <<alive, tasks, nextTaskId, polling, handles, wakers, status>>
      /\ woken' = woken \cup {w.id} /\ w \in Ref /\ w.id \in TaskIds
      /\ deferred' = Append(deferred, w) /\ Len(deferred) < MaxQueue
  BY DEF IInv, Wake, TypeOK, Ref
<1>2. /\ deferred \in Seq(Ref) /\ Len(deferred) \in Nat /\ MaxQueue \in Nat
  BY <1>1, Types DEF TypeOK
<1>3. /\ deferred' \in Seq(Ref) /\ Len(deferred') <= MaxQueue
      /\ \A k \in DOMAIN deferred' : deferred'[k] = w \/ \E j \in DOMAIN deferred : deferred'[k] = deferred[j]
  BY <1>1, <1>2
<1>4. \A r : RefKnown(r)' <=> RefKnown(r)
  BY <1>1 DEF RefKnown, IsLive
<1>5. RefsKnown'
  <2>1. ASSUME NEW k \in DOMAIN deferred' PROVE RefKnown(deferred'[k])
    BY <1>1, <1>3 DEF RefsKnown
  <2>2. QED
    BY <1>1, <1>4, <2>1 DEF RefsKnown, RefKnown, IsLive
<1>6. TypeOK'
  BY <1>1, <1>3 DEF TypeOK
<1>7. SlotsOwn' /\ PollsReserve' /\ StatusTells' /\ CleanedUp'
  BY <1>1 DEF SlotsOwn, PollsReserve, StatusTells, CleanedUp, IsLive
<1>8. QED
  BY <1>5, <1>6, <1>7 DEF IInv

(* The end of a poll, whatever it leaves in its slot.                         *)
LEMMA EndKeeps ==
  ASSUME IInv, EndPoll, NEW k, k = Innermost.at.index, NEW s, SlotSet(k, s),
         s.id = tasks[k].id, s.value # "Polling",
         s.value = "Pending" => s.future = s.id,
         s.value # "Pending" => s.future = NoFuture,
         UNCHANGED <<alive, nextTaskId, deferred, wakers, woken>>,
         status' \in [TaskIds -> {"unborn", "pending", "completed", "panicked", "cancelled"}]
  PROVE  TypeOK' /\ SlotsOwn' /\ PollsReserve' /\ RefsKnown' /\ CleanedUp'
<1>1. /\ TypeOK /\ SlotsOwn /\ PollsReserve /\ StatusTells /\ RefsKnown /\ CleanedUp
      /\ polling # <<>>
  BY DEF IInv, EndPoll
<1>2. /\ alive /\ Innermost.at \in Ref /\ k \in DOMAIN tasks /\ RefKnown(Innermost.at)
      /\ tasks[k].value = "Polling"
  BY <1>1, InnermostSlot
<1>3. /\ Len(polling) \in DOMAIN polling /\ Innermost = polling[Len(polling)]
      /\ polling' \in Seq(PollRecords) /\ DOMAIN polling' = DOMAIN polling \ {Len(polling)}
      /\ \A j \in DOMAIN polling' : polling'[j] = polling[j]
      /\ \A h \in handles' : h \in handles \/ h = Innermost.at
  BY <1>1, PollingEnds
<1>4. /\ SlotsOwn' /\ Len(tasks') <= MaxTasks
      /\ \A j \in DOMAIN tasks' : tasks'[j].value = "Pending" <=> tasks'[j].future # NoFuture
      /\ \A r : RefKnown(r) => RefKnown(r)'
  <2>1. IsLive(k)
    BY <1>2 DEF IsLive
  <2>2. QED
    BY <1>1, <2>1, SlotSetKeeps
<1>5. /\ DOMAIN tasks' = DOMAIN tasks /\ tasks'[k] = s
      /\ \A j \in DOMAIN tasks \ {k} : tasks'[j] = tasks[j]
  BY DEF SlotSet
<1>6. TypeOK'
  BY <1>1, <1>2, <1>3, <1>4 DEF TypeOK, PollRecords, SlotSet
<1>7. PollsReserve'
  <2>1. ASSUME NEW i \in DOMAIN polling'
        PROVE  LET at == polling'[i].at IN
               /\ polling'[i].future = at.id /\ at.index \in DOMAIN tasks'
               /\ tasks'[at.index].value = "Polling" /\ tasks'[at.index].id = at.id
    <3>1. /\ i \in DOMAIN polling /\ i # Len(polling) /\ polling'[i] = polling[i]
      BY <1>3, <2>1
    <3>2. polling[i].at.index # k
      BY <1>1, <1>3, <3>1 DEF PollsReserve
    <3>3. QED
      BY <1>1, <1>5, <3>1, <3>2 DEF PollsReserve
  <2>2. \A i, j \in DOMAIN polling' : polling'[i].at.index = polling'[j].at.index => i = j
    BY <1>1, <1>3 DEF PollsReserve
  <2>3. ASSUME NEW j \in DOMAIN tasks', tasks'[j].value = "Polling"
        PROVE  \E i \in DOMAIN polling' : polling'[i].at.index = j
    <3>1. j # k /\ j \in DOMAIN tasks /\ tasks[j].value = "Polling"
      BY <1>5, <2>3
    <3>2. PICK i \in DOMAIN polling : polling[i].at.index = j
      BY <1>1, <3>1 DEF PollsReserve
    <3>3. i # Len(polling)
      BY <1>3, <3>1, <3>2
    <3>4. QED
      BY <1>3, <3>2, <3>3
  <2>4. QED
    BY <2>1, <2>2, <2>3 DEF PollsReserve
<1>8. RefsKnown'
  <2>1. \A r \in handles' \cup wakers' : RefKnown(r)'
    BY <1>1, <1>2, <1>3, <1>4 DEF RefsKnown
  <2>2. \A j \in DOMAIN deferred : RefKnown(deferred[j])'
    BY <1>1, <1>4 DEF RefsKnown
  <2>3. QED
    BY <2>1, <2>2 DEF RefsKnown
<1>9. CleanedUp'
  BY <1>2 DEF CleanedUp
<1>10. QED
  BY <1>4, <1>6, <1>7, <1>8, <1>9

LEMMA PollPendingStep == IInv /\ PollPending => IInv'
<1> SUFFICES ASSUME IInv, PollPending PROVE IInv'
  OBVIOUS
<1> DEFINE k == Innermost.at.index
           s == [tasks[k] EXCEPT !.value = "Pending", !.future = Innermost.future]
<1>1. /\ EndPoll /\ polling # <<>> /\ TypeOK /\ StatusTells
      /\ UNCHANGED <<alive, nextTaskId, deferred, wakers, status, woken>>
  BY DEF IInv, PollPending, EndPoll
<1>2. /\ k \in DOMAIN tasks /\ tasks[k].value = "Polling" /\ tasks[k].id = Innermost.at.id
      /\ Innermost.future = Innermost.at.id /\ Innermost.at.id \in TaskIds
  BY <1>1, InnermostSlot
<1>3. tasks' = [tasks EXCEPT ![k] = s]
  BY <1>2 DEF PollPending, ParkTask
<1>4. /\ s \in Slot /\ s.value = "Pending" /\ s.id = tasks[k].id /\ s.future = s.id
  BY <1>1, <1>2, Types DEF Slot
<1> HIDE DEF s
<1>5. SlotSet(k, s)
  BY <1>1, <1>2, <1>3, <1>4, SettingASlot
<1>6. TypeOK' /\ SlotsOwn' /\ PollsReserve' /\ RefsKnown' /\ CleanedUp'
  <2>1. status' \in [TaskIds -> {"unborn", "pending", "completed", "panicked", "cancelled"}]
    BY <1>1 DEF TypeOK
  <2>2. QED
    BY <1>1, <1>4, <1>5, <2>1, EndKeeps
<1> HIDE DEF k
<1>7. StatusTells'
  <2>1. /\ DOMAIN tasks' = DOMAIN tasks
        /\ \A j \in DOMAIN tasks : tasks'[j].id = tasks[j].id
                                   /\ (tasks'[j].value # "Gone" <=> tasks[j].value # "Gone")
    BY <1>2, <1>4, <1>5 DEF SlotSet
  <2>2. QED
    BY <1>1, <2>1 DEF StatusTells, IsLive
<1>8. QED
  BY <1>6, <1>7 DEF IInv

(* A task ends: its slot is free again, and its status says how it ended.     *)
LEMMA StatusOfEnded ==
  ASSUME TypeOK, SlotsOwn, StatusTells, NEW k, NEW s, SlotSet(k, s), IsLive(k),
         s.value = "Gone", s.id = tasks[k].id, nextTaskId' = nextTaskId,
         NEW outcome \in {"completed", "panicked", "cancelled"},
         NEW t, t = tasks[k].id, status' = [status EXCEPT ![t] = outcome]
  PROVE  StatusTells'
<1>1. /\ DOMAIN tasks' = DOMAIN tasks /\ k \in DOMAIN tasks /\ tasks'[k].value = "Gone"
      /\ \A j \in DOMAIN tasks \ {k} : tasks'[j] = tasks[j]
  BY DEF SlotSet
<1>2. t \in TaskIds /\ t < nextTaskId /\ t \in Int /\ nextTaskId \in Int
  BY <1>1, Types DEF SlotsOwn, TaskIds, TypeOK
<1>3. SUFFICES ASSUME NEW u \in TaskIds
               PROVE  /\ status'[u] = "unborn" <=> u >= nextTaskId
                      /\ status'[u] = "pending" <=>
                           \E j \in DOMAIN tasks : tasks'[j].value # "Gone" /\ tasks'[j].id = u
  BY <1>1 DEF StatusTells, IsLive
<1>4. CASE u = t
  <2>1. status'[u] = outcome
    BY <1>2, <1>4 DEF TypeOK
  <2>2. ASSUME NEW j \in DOMAIN tasks, tasks'[j].value # "Gone", tasks'[j].id = u PROVE FALSE
    BY <1>1, <1>4, <2>2 DEF SlotsOwn, IsLive
  <2>3. QED
    BY <1>2, <1>4, <2>1, <2>2
<1>5. CASE u # t
  <2>1. status'[u] = status[u]
    BY <1>2, <1>5 DEF TypeOK
  <2>2. \A j \in DOMAIN tasks : tasks[j].id = u =>
          tasks'[j].id = u /\ (tasks'[j].value # "Gone" <=> tasks[j].value # "Gone")
    BY <1>1, <1>5
  <2>3. \A j \in DOMAIN tasks : tasks'[j].value # "Gone" /\ tasks'[j].id = u => tasks[j].id = u
    BY <1>1
  <2>4. QED
    BY <2>1, <2>2, <2>3 DEF StatusTells, IsLive
<1>6. QED
  BY <1>4, <1>5

LEMMA PollDoneStep ==
  ASSUME IInv, NEW outcome \in {"completed", "panicked"}, PollDone(outcome)
  PROVE  IInv'
<1> DEFINE k == Innermost.at.index
           s == [tasks[k] EXCEPT !.value = "Gone", !.future = NoFuture]
<1>1. /\ EndPoll /\ polling # <<>> /\ TypeOK /\ SlotsOwn /\ StatusTells
      /\ UNCHANGED <<alive, nextTaskId, deferred, wakers, woken>>
      /\ status' = [status EXCEPT ![Innermost.future] = outcome]
  BY DEF IInv, PollDone, EndPoll
<1>2. /\ k \in DOMAIN tasks /\ tasks[k].value = "Polling" /\ tasks[k].id = Innermost.at.id
      /\ Innermost.future = Innermost.at.id /\ Innermost.at.id \in TaskIds
  BY <1>1, InnermostSlot
<1>3. tasks' = [tasks EXCEPT ![k] = s]
  BY <1>2 DEF PollDone, ClearTask
<1>4. /\ s \in Slot /\ s.value = "Gone" /\ s.id = tasks[k].id /\ s.future = NoFuture
  BY <1>1, <1>2, Types DEF Slot
<1> HIDE DEF s
<1>5. SlotSet(k, s)
  BY <1>1, <1>2, <1>3, <1>4, SettingASlot
<1>6. TypeOK' /\ SlotsOwn' /\ PollsReserve' /\ RefsKnown' /\ CleanedUp'
  <2>1. status' \in [TaskIds -> {"unborn", "pending", "completed", "panicked", "cancelled"}]
    BY <1>1 DEF TypeOK
  <2>2. QED
    BY <1>1, <1>4, <1>5, <2>1, EndKeeps
<1>7. StatusTells'
  <2>1. IsLive(k) /\ nextTaskId' = nextTaskId
    BY <1>1, <1>2 DEF IsLive
  <2>2. status' = [status EXCEPT ![tasks[k].id] = outcome]
    BY <1>1, <1>2
  <2>3. QED
    <3> HIDE DEF k
    <3>1. outcome \in {"completed", "panicked", "cancelled"}
      OBVIOUS
    <3>2. QED
      BY <1>1, <1>4, <1>5, <2>1, <2>2, <3>1, StatusOfEnded
<1>8. QED
  BY <1>6, <1>7 DEF IInv

(* A slot that no poll has reserved is written.                               *)
LEMMA UnpolledKeeps ==
  ASSUME TypeOK, PollsReserve, NEW k, NEW s, SlotSet(k, s), tasks[k].value # "Polling",
         s.value # "Polling", polling' = polling
  PROVE  PollsReserve'
<1>1. /\ DOMAIN tasks' = DOMAIN tasks /\ tasks'[k] = s
      /\ \A j \in DOMAIN tasks \ {k} : tasks'[j] = tasks[j]
  BY DEF SlotSet
<1>2. \A i \in DOMAIN polling : polling[i].at.index # k /\ polling[i].at.index \in DOMAIN tasks
  BY DEF PollsReserve
<1>3. QED
  BY <1>1, <1>2 DEF PollsReserve

LEMMA CancelStep ==
  ASSUME IInv, NEW h \in handles, Cancel(h)
  PROVE  IInv'
<1>1. /\ TypeOK /\ SlotsOwn /\ PollsReserve /\ StatusTells /\ RefsKnown /\ CleanedUp
      /\ handles' = handles \ {h}
      /\ UNCHANGED <<alive, nextTaskId, polling, deferred, wakers, woken>>
  BY DEF IInv, Cancel
<1>2. CASE CancelOutcome(h) # "cancelled"
  <2>1. UNCHANGED <<tasks, status>>
    BY <1>2 DEF Cancel
  <2>2. TypeOK'
    BY <1>1, <2>1 DEF TypeOK
  <2>3. SlotsOwn' /\ PollsReserve' /\ StatusTells' /\ CleanedUp'
    BY <1>1, <2>1 DEF SlotsOwn, PollsReserve, StatusTells, CleanedUp, IsLive
  <2>4. RefsKnown'
    BY <1>1, <2>1 DEF RefsKnown, RefKnown, IsLive
  <2>5. QED
    BY <2>2, <2>3, <2>4 DEF IInv
<1>3. CASE CancelOutcome(h) = "cancelled"
  <2> DEFINE k == h.index
             s == [tasks[k] EXCEPT !.value = "Gone", !.future = NoFuture]
  <2>1. /\ alive /\ k \in DOMAIN tasks /\ tasks[k].value = "Pending" /\ tasks[k].id = h.id
    <3>1. alive
      BY <1>3 DEF CancelOutcome
    <3>2. k \in DOMAIN tasks
      BY <1>3, <3>1 DEF CancelOutcome
    <3>3. tasks[k].value \in {"Gone", "Pending", "Polling"}
      BY <1>1, <3>2, Types
    <3>4. "cancelled" = CASE tasks[k].value = "Gone" -> "ignored"
                          [] tasks[k].value = "Polling" -> "panic"
                          [] tasks[k].value = "Pending" ->
                               IF tasks[k].id = h.id THEN "cancelled" ELSE "ignored"
      BY <1>3, <3>1, <3>2 DEF CancelOutcome, IsSlotOf
    <3>5. QED
      BY <3>1, <3>2, <3>3, <3>4
  <2>2. /\ tasks[k].future = tasks[k].id /\ tasks[k].id \in TaskIds /\ tasks[k] \in Slot
    BY <1>1, <2>1, Types DEF SlotsOwn
  <2>3. /\ tasks' = [tasks EXCEPT ![k] = s]
        /\ status' = [status EXCEPT ![tasks[k].id] = "cancelled"]
    BY <1>3, <2>2 DEF Cancel, ClearTask
  <2>4. s \in Slot /\ s.value = "Gone" /\ s.id = tasks[k].id /\ s.future = NoFuture
    BY <2>2 DEF Slot
  <2> HIDE DEF s, k
  <2>5. SlotSet(k, s) /\ IsLive(k)
    BY <1>1, <2>1, <2>3, <2>4, SettingASlot DEF IsLive
  <2>6. /\ SlotsOwn' /\ Len(tasks') <= MaxTasks
        /\ \A j \in DOMAIN tasks' : tasks'[j].value = "Pending" <=> tasks'[j].future # NoFuture
        /\ \A r : RefKnown(r) => RefKnown(r)'
    BY <1>1, <2>4, <2>5, SlotSetKeeps
  <2>7. TypeOK'
    <3>1. status' \in [TaskIds -> {"unborn", "pending", "completed", "panicked", "cancelled"}]
      BY <1>1, <2>3 DEF TypeOK
    <3>2. tasks' \in Seq(Slot)
      BY <2>5 DEF SlotSet
    <3>3. QED
      BY <1>1, <2>6, <3>1, <3>2 DEF TypeOK
  <2>8. StatusTells'
    BY <1>1, <2>3, <2>4, <2>5, StatusOfEnded
  <2>9. PollsReserve'
    BY <1>1, <2>1, <2>4, <2>5, UnpolledKeeps
  <2>10. RefsKnown'
    <3>1. \A r \in handles' \cup wakers' : RefKnown(r)'
      BY <1>1, <2>6 DEF RefsKnown
    <3>2. \A j \in DOMAIN deferred : RefKnown(deferred[j])'
      BY <1>1, <2>6 DEF RefsKnown
    <3>3. QED
      BY <1>1, <3>1, <3>2 DEF RefsKnown
  <2>11. CleanedUp'
    BY <1>1, <2>1 DEF CleanedUp
  <2>12. QED
    BY <2>6, <2>7, <2>8, <2>9, <2>10, <2>11 DEF IInv
<1>4. QED
  BY <1>2, <1>3

LEMMA CleanupStep == IInv /\ Cleanup => IInv'
<1> SUFFICES ASSUME IInv, Cleanup PROVE IInv'
  OBVIOUS
<1>1. /\ TypeOK /\ SlotsOwn /\ StatusTells /\ RefsKnown /\ alive' = FALSE /\ tasks' = <<>>
      /\ polling = <<>> /\ UNCHANGED <<nextTaskId, polling, deferred, handles, wakers, woken>>
      /\ status' = [t \in TaskIds |-> IF status[t] = "pending" THEN "cancelled" ELSE status[t]]
  BY DEF IInv, Cleanup
<1>2. MaxTasks \in Nat /\ nextTaskId \in Nat
  BY <1>1, Types DEF TypeOK
<1>3. TypeOK'
  <2>1. tasks' \in Seq(Slot) /\ Len(tasks') <= MaxTasks /\ DOMAIN tasks' = {}
    BY <1>1, <1>2
  <2>2. status' \in [TaskIds -> {"unborn", "pending", "completed", "panicked", "cancelled"}]
    BY <1>1 DEF TypeOK
  <2>3. QED
    BY <1>1, <2>1, <2>2 DEF TypeOK
<1>4. SlotsOwn' /\ PollsReserve' /\ CleanedUp'
  BY <1>1, <1>2 DEF SlotsOwn, PollsReserve, CleanedUp
<1>5. StatusTells'
  <2>1. \A t \in TaskIds : status'[t] # "pending" /\ (status'[t] = "unborn" <=> status[t] = "unborn")
    BY <1>1
  <2>2. QED
    BY <1>1, <2>1 DEF StatusTells
<1>6. RefsKnown'
  BY <1>1 DEF RefsKnown, RefKnown
<1>7. QED
  BY <1>3, <1>4, <1>5, <1>6 DEF IInv

(* A poll starts on a pending slot: the poll gets the future, the slot is     *)
(* reserved.                                                                  *)
LEMMA RunDeferredStep == IInv /\ RunDeferred => IInv'
<1> SUFFICES ASSUME IInv, RunDeferred PROVE IInv'
  OBVIOUS
<1>1. /\ TypeOK /\ SlotsOwn /\ PollsReserve /\ StatusTells /\ RefsKnown /\ CleanedUp
      /\ polling = <<>> /\ deferred # <<>> /\ deferred' = Tail(deferred)
      /\ UNCHANGED <<alive, nextTaskId, handles, wakers, status>>
  BY DEF IInv, RunDeferred
<1> DEFINE r == Head(deferred)
<1>2. /\ r \in Ref /\ RefKnown(r) /\ deferred' \in Seq(Ref) /\ Len(deferred') <= MaxQueue
      /\ \A j \in DOMAIN deferred' : \E i \in DOMAIN deferred : deferred'[j] = deferred[i]
  <2>1. /\ deferred \in Seq(Ref) /\ Len(deferred) \in Nat /\ Len(deferred) <= MaxQueue
        /\ MaxQueue \in Nat
    BY <1>1, Types DEF TypeOK
  <2>2. /\ Len(deferred') = Len(deferred) - 1 /\ deferred' \in Seq(Ref) /\ Len(deferred) >= 1
        /\ \A j \in 1 .. Len(deferred) - 1 : deferred'[j] = deferred[j + 1]
    BY <1>1, <2>1
  <2>3. /\ 1 \in DOMAIN deferred /\ r = deferred[1] /\ DOMAIN deferred' = 1 .. Len(deferred) - 1
    BY <1>1, <2>1, <2>2
  <2>4. r \in Ref /\ RefKnown(r)
    BY <1>1, <2>1, <2>3 DEF RefsKnown
  <2>5. \A j \in 1 .. Len(deferred) - 1 : j + 1 \in DOMAIN deferred
    BY <2>1
  <2>6. Len(deferred') <= MaxQueue
    BY <2>1, <2>2
  <2>7. QED
    BY <2>2, <2>3, <2>4, <2>5, <2>6
<1> HIDE DEF r
<1>3. CASE UNCHANGED <<tasks, polling, woken>>
  <2>1. TypeOK'
    BY <1>1, <1>2, <1>3 DEF TypeOK
  <2>2. SlotsOwn' /\ PollsReserve' /\ StatusTells' /\ CleanedUp'
    BY <1>1, <1>3 DEF SlotsOwn, PollsReserve, StatusTells, CleanedUp, IsLive
  <2>3. \A q : RefKnown(q) => RefKnown(q)'
    BY <1>1, <1>3 DEF RefKnown, IsLive
  <2>4. RefsKnown'
    <3>1. \A q \in handles' \cup wakers' : RefKnown(q)'
      BY <1>1, <2>3 DEF RefsKnown
    <3>2. ASSUME NEW j \in DOMAIN deferred', NEW q, q = deferred'[j] PROVE RefKnown(q)'
      <4>1. RefKnown(q)
        BY <1>1, <1>2, <3>2 DEF RefsKnown
      <4>2. QED
        BY <4>1, <2>3
    <3>3. QED
      BY <3>1, <3>2 DEF RefsKnown, RefKnown, IsLive
  <2>5. QED
    BY <2>1, <2>2, <2>4 DEF IInv
<1>4. CASE alive /\ TakeResult(tasks, r) = "Pending" /\ StartPoll(tasks, r, FALSE)
  <2> DEFINE k == r.index
             s == [tasks[k] EXCEPT !.value = "Polling", !.future = NoFuture]
             p == [at |-> r, future |-> tasks[k].future, bySpawn |-> FALSE]
  <2>1. k \in DOMAIN tasks /\ tasks[k].value = "Pending" /\ tasks[k].id = r.id
    BY <1>4 DEF TakeResult
  <2>2. /\ tasks[k].future = r.id /\ r.id \in TaskIds /\ tasks[k] \in Slot
    BY <1>1, <2>1, Types DEF SlotsOwn
  <2>3. /\ tasks' = [tasks EXCEPT ![k] = s] /\ polling' = Append(polling, p)
        /\ woken' = woken \ {tasks[k].future}
    BY <1>4 DEF StartPoll, TakeForPolling
  <2>4. s \in Slot /\ s.value = "Polling" /\ s.id = tasks[k].id /\ s.future = NoFuture
    BY <2>2 DEF Slot
  <2>5. p \in PollRecords /\ p.at = r /\ p.future = r.id
    BY <1>2, <2>2 DEF PollRecords
  <2> HIDE DEF s, p, k
  <2>6. SlotSet(k, s) /\ IsLive(k)
    BY <1>1, <2>1, <2>3, <2>4, SettingASlot DEF IsLive
  <2>7. /\ SlotsOwn' /\ Len(tasks') <= MaxTasks
        /\ \A j \in DOMAIN tasks' : tasks'[j].value = "Pending" <=> tasks'[j].future # NoFuture
        /\ \A q : RefKnown(q) => RefKnown(q)'
    BY <1>1, <2>4, <2>6, SlotSetKeeps
  <2>8. /\ DOMAIN tasks' = DOMAIN tasks /\ tasks'[k] = s
        /\ \A j \in DOMAIN tasks \ {k} : tasks'[j] = tasks[j]
    BY <2>6 DEF SlotSet
  <2>9. polling' \in Seq(PollRecords) /\ DOMAIN polling' = {1} /\ polling'[1] = p
    BY <1>1, <2>3, <2>5
  <2>10. TypeOK'
    <3>1. tasks' \in Seq(Slot) /\ polling' \in Seq([at : Ref, future : TaskIds, bySpawn : BOOLEAN])
      BY <2>6, <2>9 DEF SlotSet, PollRecords
    <3>2. QED
      BY <1>1, <1>2, <2>3, <2>7, <3>1 DEF TypeOK
  <2>11. PollsReserve'
    <3>1. p.at.index = k
      BY <2>5 DEF k
    <3>2. \A j \in DOMAIN tasks' : tasks'[j].value = "Polling" => j = k
      BY <1>1, <2>8 DEF PollsReserve
    <3>3. QED
      BY <2>1, <2>4, <2>5, <2>8, <2>9, <3>1, <3>2 DEF PollsReserve
  <2>12. StatusTells'
    <3>1. \A j \in DOMAIN tasks : tasks'[j].id = tasks[j].id
                                  /\ (tasks'[j].value # "Gone" <=> tasks[j].value # "Gone")
      BY <2>1, <2>4, <2>8
    <3>2. QED
      BY <1>1, <2>8, <3>1 DEF StatusTells, IsLive
  <2>13. RefsKnown'
    <3>1. \A q \in handles' \cup wakers' : RefKnown(q)'
      BY <1>1, <2>7 DEF RefsKnown
    <3>2. ASSUME NEW j \in DOMAIN deferred', NEW q, q = deferred'[j] PROVE RefKnown(q)'
      <4>1. RefKnown(q)
        BY <1>1, <1>2, <3>2 DEF RefsKnown
      <4>2. QED
        BY <4>1, <2>7
    <3>3. QED
      BY <3>1, <3>2 DEF RefsKnown, RefKnown, IsLive
  <2>14. CleanedUp'
    BY <1>1, <1>4 DEF CleanedUp
  <2>15. QED
    BY <2>7, <2>10, <2>11, <2>12, <2>13, <2>14 DEF IInv
<1>5. QED
  BY <1>3, <1>4 DEF RunDeferred, StartPoll, r

(* spawn: a free place gets the new task, which is polled at once.            *)
LEMMA SpawnFills ==
  ASSUME IInv, Spawn
  PROVE  LET k == IndexForTask
             t == nextTaskId
             r == [index |-> k, id |-> t]
             s == [value |-> "Polling", id |-> t, future |-> NoFuture]
             p == [at |-> r, future |-> t, bySpawn |-> TRUE]
         IN  /\ k \in Nat \ {0} /\ (k \in DOMAIN tasks => tasks[k].value = "Gone")
             /\ r \in Ref /\ r.index = k /\ r.id = t
             /\ p \in PollRecords /\ p.at = r /\ p.future = t
             /\ s \in Slot /\ s.value = "Polling" /\ s.id = t /\ s.future = NoFuture
             /\ polling' = Append(polling, p) /\ woken' = woken \ {t}
             /\ tasks' \in Seq(Slot) /\ DOMAIN tasks' = DOMAIN tasks \cup {k}
             /\ Len(tasks') <= Len(tasks) + 1 /\ Len(tasks') \in Nat /\ tasks'[k] = s
             /\ \A j \in DOMAIN tasks \ {k} : tasks'[j] = tasks[j]
<1> DEFINE k == IndexForTask
           t == nextTaskId
           r == [index |-> k, id |-> t]
           slots == AddTask(t)
           s == [slots[k] EXCEPT !.value = "Polling", !.future = NoFuture]
           p == [at |-> r, future |-> t, bySpawn |-> TRUE]
<1>1. TypeOK /\ t < MaxTasks /\ StartPoll(slots, r, TRUE)
  BY DEF IInv, Spawn
<1>2. t \in TaskIds /\ t \in Nat /\ MaxTasks \in Nat /\ Len(tasks) \in Nat
  BY <1>1, Types DEF TypeOK, TaskIds
<1>3. /\ k \in Nat \ {0} /\ slots \in Seq(Slot) /\ DOMAIN slots = DOMAIN tasks \cup {k}
      /\ Len(slots) <= Len(tasks) + 1
      /\ k \in DOMAIN tasks => tasks[k].value = "Gone"
      /\ slots[k] = [value |-> "Pending", id |-> t, future |-> t]
      /\ \A j \in DOMAIN tasks \ {k} : slots[j] = tasks[j]
  BY <1>1, <1>2, AddingATask
<1>4. r \in Ref /\ r.index = k /\ r.id = t /\ p \in PollRecords /\ p.at = r /\ p.future = t
  BY <1>2, <1>3 DEF Ref, PollRecords
<1>5. /\ s \in Slot /\ s.value = "Polling" /\ s.id = t /\ s.future = NoFuture
      /\ s = [value |-> "Polling", id |-> t, future |-> NoFuture]
  <2>1. slots[k] \in Slot /\ slots[k].id = t
    <3>1. [value |-> "Pending", id |-> t, future |-> t] \in Slot
      BY <1>2 DEF Slot
    <3>2. QED
      BY <1>3, <3>1
  <2>2. QED
    BY <2>1, TakenSlot
<1>6. /\ tasks' = [slots EXCEPT ![k] = s] /\ polling' = Append(polling, p)
      /\ woken' = woken \ {t}
  <2>1. TakeResult(slots, r) = "Pending" /\ slots[k].future = t
    BY <1>3 DEF TakeResult
  <2>2. QED
    BY <1>1, <2>1 DEF StartPoll, TakeForPolling
<1> HIDE DEF k, slots, s
<1>7. /\ tasks' \in Seq(Slot) /\ DOMAIN tasks' = DOMAIN tasks \cup {k}
      /\ Len(tasks') <= Len(tasks) + 1 /\ Len(tasks') \in Nat /\ tasks'[k] = s
      /\ \A j \in DOMAIN tasks \ {k} : tasks'[j] = tasks[j]
  <2>1. k \in DOMAIN slots
    BY <1>3
  <2>2. /\ [slots EXCEPT ![k] = s] \in Seq(Slot) /\ Len([slots EXCEPT ![k] = s]) = Len(slots)
        /\ Len(slots) \in Nat /\ DOMAIN [slots EXCEPT ![k] = s] = DOMAIN slots
        /\ [slots EXCEPT ![k] = s][k] = s
        /\ \A j \in DOMAIN slots \ {k} : [slots EXCEPT ![k] = s][j] = slots[j]
    BY <1>3, <1>5, <2>1, ReplacingASlot
  <2>3. QED
    BY <1>3, <1>6, <2>2
<1>8. QED
  BY <1>3, <1>4, <1>5, <1>6, <1>7 DEF s, k

LEMMA SpawnStep == IInv /\ Spawn => IInv'
<1> SUFFICES ASSUME IInv, Spawn PROVE IInv'
  OBVIOUS
<1> DEFINE k == IndexForTask
           t == nextTaskId
           r == [index |-> k, id |-> t]
           s == [value |-> "Polling", id |-> t, future |-> NoFuture]
           p == [at |-> r, future |-> t, bySpawn |-> TRUE]
<1>1. /\ TypeOK /\ SlotsOwn /\ PollsReserve /\ StatusTells /\ RefsKnown
      /\ alive /\ t < MaxTasks /\ nextTaskId' = t + 1
      /\ wakers' = wakers \cup {r} /\ status' = [status EXCEPT ![t] = "pending"]
      /\ UNCHANGED <<alive, deferred, handles>>
  BY DEF IInv, Spawn
<1>2. t \in TaskIds /\ t \in Nat /\ MaxTasks \in Nat /\ Len(tasks) \in Nat
  BY <1>1, Types DEF TypeOK, TaskIds
<1>3. k \in Nat \ {0} /\ (k \in DOMAIN tasks => tasks[k].value = "Gone")
  BY SpawnFills
<1>4. r \in Ref /\ r.index = k /\ r.id = t /\ p \in PollRecords /\ p.at = r /\ p.future = t
  BY SpawnFills
<1>5. /\ s \in Slot /\ s.value = "Polling" /\ s.id = t /\ s.future = NoFuture
  BY SpawnFills
<1>6. polling' = Append(polling, p) /\ woken' = woken \ {t}
  BY SpawnFills
<1>7. /\ tasks' \in Seq(Slot) /\ DOMAIN tasks' = DOMAIN tasks \cup {k}
      /\ Len(tasks') <= Len(tasks) + 1 /\ Len(tasks') \in Nat /\ tasks'[k] = s
      /\ \A j \in DOMAIN tasks \ {k} : tasks'[j] = tasks[j]
  BY SpawnFills
<1> HIDE DEF k, s, p, r
<1>8. /\ polling' \in Seq(PollRecords) /\ DOMAIN polling' = DOMAIN polling \cup {Len(polling) + 1}
      /\ Len(polling) + 1 \notin DOMAIN polling /\ polling'[Len(polling) + 1] = p
      /\ \A j \in DOMAIN polling : polling'[j] = polling[j]
  <2>1. polling \in Seq(PollRecords) /\ Len(polling) \in Nat /\ DOMAIN polling = 1 .. Len(polling)
    BY <1>1, Types DEF TypeOK, PollRecords
  <2>2. QED
    BY <1>4, <1>6, <2>1
<1>9. \A j \in DOMAIN tasks : tasks[j].id < t /\ tasks[j].id \in Int
  BY <1>1, Types DEF SlotsOwn, TaskIds
<1>10. \A j \in DOMAIN tasks : IsLive(j) => j # k
  BY <1>3 DEF IsLive
<1>11. SlotsOwn'
  <2>1. Len(tasks') <= nextTaskId'
    BY <1>1, <1>2, <1>7 DEF SlotsOwn
  <2>2. ASSUME NEW j \in DOMAIN tasks'
        PROVE  /\ tasks'[j].id < nextTaskId'
               /\ tasks'[j].value = "Pending" => tasks'[j].future = tasks'[j].id
    <3>1. CASE j = k
      BY <1>1, <1>2, <1>5, <1>7, <3>1
    <3>2. CASE j # k
      <4>1. j \in DOMAIN tasks /\ tasks'[j] = tasks[j]
        BY <1>7, <2>2, <3>2
      <4>2. QED
        BY <1>1, <1>2, <1>9, <4>1 DEF SlotsOwn
    <3>3. QED
      BY <3>1, <3>2
  <2>3. ASSUME NEW i \in DOMAIN tasks', NEW j \in DOMAIN tasks',
               tasks'[i].value # "Gone", tasks'[j].value # "Gone", tasks'[i].id = tasks'[j].id
        PROVE  i = j
    <3>1. CASE i # k /\ j # k
      BY <1>1, <1>7, <2>3, <3>1 DEF SlotsOwn, IsLive
    <3>2. CASE i = k /\ j # k
      BY <1>2, <1>5, <1>7, <1>9, <2>3, <3>2
    <3>3. CASE i # k /\ j = k
      BY <1>2, <1>5, <1>7, <1>9, <2>3, <3>3
    <3>4. QED
      BY <3>1, <3>2, <3>3
  <2>4. QED
    BY <2>1, <2>2, <2>3 DEF SlotsOwn, IsLive
<1>12. TypeOK'
  <2>1. Len(tasks') <= MaxTasks
    BY <1>1, <1>2, <1>7 DEF SlotsOwn
  <2>2. nextTaskId' \in 0 .. MaxTasks /\ woken' \subseteq TaskIds /\ wakers' \subseteq Ref
    BY <1>1, <1>2, <1>4, <1>6 DEF TypeOK
  <2>3. status' \in [TaskIds -> {"unborn", "pending", "completed", "panicked", "cancelled"}]
    BY <1>1 DEF TypeOK
  <2>4. ASSUME NEW j \in DOMAIN tasks'
        PROVE  tasks'[j].value = "Pending" <=> tasks'[j].future # NoFuture
    BY <1>1, <1>5, <1>7, <2>4 DEF TypeOK
  <2>5. QED
    BY <1>1, <1>7, <1>8, <2>1, <2>2, <2>3, <2>4 DEF TypeOK, PollRecords
<1>13. PollsReserve'
  <2>1. \A i \in DOMAIN polling : polling[i].at.index \in DOMAIN tasks /\ polling[i].at.index # k
    BY <1>1, <1>3 DEF PollsReserve
  <2>2. p.at.index = k /\ p.at.id = t /\ p.future = t
    BY <1>4
  <2>3. ASSUME NEW i \in DOMAIN polling'
        PROVE  LET at == polling'[i].at IN
               /\ polling'[i].future = at.id /\ at.index \in DOMAIN tasks'
               /\ tasks'[at.index].value = "Polling" /\ tasks'[at.index].id = at.id
    <3>1. CASE i = Len(polling) + 1
      BY <1>5, <1>7, <1>8, <2>2, <3>1
    <3>2. CASE i # Len(polling) + 1
      <4>1. i \in DOMAIN polling /\ polling'[i] = polling[i]
        BY <1>8, <2>3, <3>2
      <4>2. QED
        BY <1>1, <1>7, <2>1, <4>1 DEF PollsReserve
    <3>3. QED
      BY <3>1, <3>2
  <2>4. \A i, j \in DOMAIN polling' : polling'[i].at.index = polling'[j].at.index => i = j
    BY <1>1, <1>8, <2>1, <2>2 DEF PollsReserve
  <2>5. ASSUME NEW j \in DOMAIN tasks', tasks'[j].value = "Polling"
        PROVE  \E i \in DOMAIN polling' : polling'[i].at.index = j
    <3>1. CASE j = k
      BY <1>8, <2>2, <3>1
    <3>2. CASE j # k
      <4>1. j \in DOMAIN tasks /\ tasks[j].value = "Polling"
        BY <1>7, <2>5, <3>2
      <4>2. PICK i \in DOMAIN polling : polling[i].at.index = j
        BY <1>1, <4>1 DEF PollsReserve
      <4>3. QED
        BY <1>8, <4>2
    <3>3. QED
      BY <3>1, <3>2
  <2>6. QED
    BY <2>3, <2>4, <2>5 DEF PollsReserve
<1>14. StatusTells'
  <2> SUFFICES ASSUME NEW u \in TaskIds
               PROVE  /\ status'[u] = "unborn" <=> u >= nextTaskId'
                      /\ status'[u] = "pending" <=>
                           \E j \in DOMAIN tasks' : tasks'[j].value # "Gone" /\ tasks'[j].id = u
    BY DEF StatusTells, IsLive
  <2>0. u \in Int
    BY DEF TaskIds
  <2>1. CASE u = t
    <3>1. status'[u] = "pending"
      BY <1>1, <1>2, <2>1 DEF TypeOK
    <3>2. QED
      BY <1>1, <1>2, <1>5, <1>7, <2>1, <3>1
  <2>2. CASE u # t
    <3>1. status'[u] = status[u]
      BY <1>1, <1>2, <2>2 DEF TypeOK
    <3>2. u >= nextTaskId' <=> u >= nextTaskId
      BY <1>1, <1>2, <2>0, <2>2
    <3>3. (\E j \in DOMAIN tasks' : tasks'[j].value # "Gone" /\ tasks'[j].id = u)
            <=> \E j \in DOMAIN tasks : IsLive(j) /\ tasks[j].id = u
      BY <1>5, <1>7, <1>10, <2>2 DEF IsLive
    <3>4. QED
      BY <1>1, <3>1, <3>2, <3>3 DEF StatusTells
  <2>3. QED
    BY <2>1, <2>2
<1>15. RefsKnown'
  <2>1. ASSUME NEW q, RefKnown(q), q.id \in Int PROVE RefKnown(q)'
    <3>1. q.id < nextTaskId' /\ q.id # t
      BY <1>1, <1>2, <2>1 DEF RefKnown
    <3>2. q.index \in DOMAIN tasks'
      BY <1>1, <1>7, <2>1 DEF RefKnown
    <3>3. ASSUME NEW j \in DOMAIN tasks', tasks'[j].value # "Gone", tasks'[j].id = q.id
          PROVE  j = q.index
      <4>1. j # k
        BY <1>5, <1>7, <3>1, <3>3
      <4>2. QED
        BY <1>1, <1>7, <2>1, <3>3, <4>1 DEF RefKnown, IsLive
    <3>4. QED
      BY <3>1, <3>2, <3>3 DEF RefKnown, IsLive
  <2>2. r.id < nextTaskId' /\ r.index \in DOMAIN tasks'
        /\ \A j \in DOMAIN tasks' : tasks'[j].value # "Gone" /\ tasks'[j].id = r.id => j = r.index
    <3>1. ASSUME NEW j \in DOMAIN tasks', tasks'[j].id = t PROVE j = k
      BY <1>2, <1>7, <1>9, <3>1
    <3>2. QED
      BY <1>1, <1>2, <1>4, <1>7, <3>1
  <2>3. ASSUME NEW q \in handles' \cup wakers' PROVE RefKnown(q)'
    <3>1. CASE q \in handles \cup wakers
      BY <1>1, <2>1, <3>1 DEF RefsKnown, TypeOK, Ref, TaskIds
    <3>2. CASE q = r
      BY <2>2, <3>2 DEF RefKnown, IsLive
    <3>3. QED
      BY <1>1, <3>1, <3>2
  <2>4. ASSUME NEW j \in DOMAIN deferred, NEW q, q = deferred[j] PROVE RefKnown(q)'
    <3>1. RefKnown(q) /\ q.id \in Int
      BY <1>1, <2>4, Types DEF RefsKnown, Ref, TaskIds
    <3>2. QED
      BY <2>1, <3>1
  <2>5. QED
    BY <1>1, <2>3, <2>4 DEF RefsKnown, RefKnown, IsLive
<1>16. CleanedUp'
  BY <1>1 DEF CleanedUp
<1>17. QED
  BY <1>11, <1>12, <1>13, <1>14, <1>15, <1>16 DEF IInv

LEMMA NextIInv == IInv /\ [Next]_vars => IInv'
<1> SUFFICES ASSUME IInv, [Next]_vars PROVE IInv'
  OBVIOUS
<1>1. ASSUME Spawn PROVE IInv'
  BY <1>1, SpawnStep
<1>2. ASSUME PollEnds PROVE IInv'
  BY <1>2, PollPendingStep, PollDoneStep DEF PollEnds
<1>3. ASSUME RunDeferred PROVE IInv'
  BY <1>3, RunDeferredStep
<1>4. ASSUME Cleanup PROVE IInv'
  BY <1>4, CleanupStep
<1>5. ASSUME NEW h \in handles, Cancel(h) PROVE IInv'
  BY <1>5, CancelStep
<1>6. ASSUME NEW w \in wakers, Wake(w) PROVE IInv'
  BY <1>6, WakeStep
<1>7. ASSUME UNCHANGED vars PROVE IInv'
  BY <1>7 DEF vars, IInv, TypeOK, SlotsOwn, PollsReserve, StatusTells, RefsKnown, RefKnown,
              CleanedUp, IsLive
<1>8. QED
  BY <1>1, <1>2, <1>3, <1>4, <1>5, <1>6, <1>7 DEF Next

LEMMA SpecIInv == Spec => []IInv
BY InitIInv, NextIInv, PTL DEF Spec
-----------------------------------------------------------------------------
(* As many slots are marked Polling as there are polls in progress.           *)
LEMMA PollingSlotsCounted ==
  ASSUME IInv
  PROVE  Cardinality({k \in DOMAIN tasks : tasks[k].value = "Polling"}) = Len(polling)
<1> DEFINE T == {k \in DOMAIN tasks : tasks[k].value = "Polling"}
           f == [j \in DOMAIN polling |-> polling[j].at.index]
<1>1. Len(polling) \in Nat /\ DOMAIN polling = 1 .. Len(polling)
  BY Types DEF IInv
<1>2. f \in [DOMAIN polling -> T]
  BY DEF IInv, PollsReserve
<1>3. \A i, j \in DOMAIN polling : f[i] = f[j] => i = j
  BY DEF IInv, PollsReserve
<1>4. \A k \in T : \E j \in DOMAIN polling : f[j] = k
  BY DEF IInv, PollsReserve
<1> HIDE DEF f, T
<1>5. f \in Bijection(DOMAIN polling, T)
  BY <1>2, <1>3, <1>4, Fun_IsBij
<1>6. ExistsBijection(DOMAIN polling, T)
  BY <1>5 DEF ExistsBijection
<1>7. IsFiniteSet(DOMAIN polling) /\ Cardinality(DOMAIN polling) = Len(polling)
  <2>1. 1 \in Int /\ Len(polling) \in Int
    BY <1>1
  <2>2. /\ IsFiniteSet(1 .. Len(polling))
        /\ Cardinality(1 .. Len(polling))
             = IF 1 > Len(polling) THEN 0 ELSE Len(polling) - 1 + 1
    BY ONLY <2>1, FS_Interval
  <2>3. (IF 1 > Len(polling) THEN 0 ELSE Len(polling) - 1 + 1) = Len(polling)
    BY <1>1
  <2>4. QED
    BY <1>1, <2>2, <2>3
<1>8. Cardinality(T) = Len(polling)
  BY <1>6, <1>7, FS_Bijection
<1>9. QED
  BY <1>8 DEF T

(* Where the future of a task is, by what became of the task.                 *)
LEMMA FutureOfTask ==
  ASSUME IInv, NEW t \in TaskIds
  PROVE  /\ \A k \in DOMAIN tasks :
              tasks[k].future = t <=> tasks[k].value = "Pending" /\ tasks[k].id = t
         /\ t \in PollingNow <=>
              \E k \in DOMAIN tasks : tasks[k].value = "Polling" /\ tasks[k].id = t
<1>1. TypeOK /\ SlotsOwn /\ PollsReserve
  BY DEF IInv
<1>2. t # NoFuture
  BY <1>1, Types
<1>3. ASSUME NEW k \in DOMAIN tasks
      PROVE  tasks[k].future = t <=> tasks[k].value = "Pending" /\ tasks[k].id = t
  BY <1>1, <1>2, <1>3 DEF TypeOK, SlotsOwn
<1>4. ASSUME t \in PollingNow
      PROVE  \E k \in DOMAIN tasks : tasks[k].value = "Polling" /\ tasks[k].id = t
  <2>1. PICK j \in DOMAIN polling : polling[j].future = t
    BY <1>4 DEF PollingNow
  <2>2. QED
    BY <1>1, <2>1 DEF PollsReserve
<1>5. ASSUME NEW k \in DOMAIN tasks, tasks[k].value = "Polling", tasks[k].id = t
      PROVE  t \in PollingNow
  <2>1. PICK j \in DOMAIN polling : polling[j].at.index = k
    BY <1>1, <1>5 DEF PollsReserve
  <2>2. polling[j].future = t
    BY <1>1, <1>5, <2>1 DEF PollsReserve
  <2>3. QED
    BY <2>2 DEF PollingNow
<1>6. QED
  BY <1>3, <1>4, <1>5

LEMMA FuturesAreConserved ==
  ASSUME IInv
  PROVE  FuturesConserved
<1> SUFFICES ASSUME NEW t \in TaskIds
             PROVE  IF status[t] = "pending"
                    THEN (Cardinality(Stored(t)) = 1) # (t \in PollingNow)
                    ELSE Stored(t) = {} /\ t \notin PollingNow
  BY DEF FuturesConserved
<1>1. TypeOK /\ SlotsOwn /\ StatusTells
  BY DEF IInv
<1>2. CASE status[t] = "pending"
  <2>1. PICK k \in DOMAIN tasks : IsLive(k) /\ tasks[k].id = t
    BY <1>1, <1>2 DEF StatusTells
  <2>2. \A j \in DOMAIN tasks : IsLive(j) /\ tasks[j].id = t => j = k
    BY <1>1, <2>1 DEF SlotsOwn
  <2>3. tasks[k].value \in {"Pending", "Polling"}
    BY <1>1, <2>1, Types DEF IsLive
  <2>4. CASE tasks[k].value = "Pending"
    <3>1. Stored(t) = {k}
      BY <2>1, <2>2, <2>4, FutureOfTask DEF Stored, IsLive
    <3>2. t \notin PollingNow
      BY <2>1, <2>2, <2>4, FutureOfTask DEF IsLive
    <3>3. Cardinality(Stored(t)) = 1
      BY <3>1, FS_Singleton
    <3>4. QED
      BY <1>2, <3>2, <3>3
  <2>5. CASE tasks[k].value = "Polling"
    <3>1. Stored(t) = {}
      BY <2>1, <2>2, <2>5, FutureOfTask DEF Stored, IsLive
    <3>2. t \in PollingNow
      BY <2>1, <2>5, FutureOfTask
    <3>3. Cardinality(Stored(t)) # 1
      BY <3>1, FS_EmptySet
    <3>4. QED
      BY <1>2, <3>2, <3>3
  <2>6. QED
    BY <2>3, <2>4, <2>5
<1>3. CASE status[t] # "pending"
  <2>1. \A k \in DOMAIN tasks : tasks[k].id = t => tasks[k].value = "Gone"
    BY <1>1, <1>3 DEF StatusTells, IsLive
  <2>2. Stored(t) = {} /\ t \notin PollingNow
    BY <2>1, FutureOfTask DEF Stored
  <2>3. QED
    BY <1>3, <2>2
<1>4. QED
  BY <1>2, <1>3

(* However many tasks, every variable keeps its type: no slot is ever left    *)
(* Empty, nor holds a future unless it is Pending.                             *)
THEOREM SpecTypeOK == Spec => []TypeOK
<1>1. IInv => TypeOK
  BY DEF IInv
<1>2. QED
  BY <1>1, SpecIInv, PTL

(* No task is polled, parked, cleared or dropped in place of another through  *)
(* any reuse of slots and any nesting of polls, no future is lost or          *)
(* duplicated, and no deferred call panics while the runtime is there.        *)
THEOREM SpecSlotsAreSafe == Spec => []SlotsAreSafe
<1>1. IInv => SlotsAreSafe
  <2> SUFFICES ASSUME IInv PROVE SlotsAreSafe
    OBVIOUS
  <2>1. PollsOwnFuture
    BY DEF IInv, PollsReserve, PollsOwnFuture
  <2>2. PollingSlotsAreReserved
    BY PollingSlotsCounted DEF IInv, PollsReserve, PollingSlotsAreReserved
  <2>3. WakingNeverPanics
    <3> SUFFICES ASSUME alive, polling = <<>>, NEW k \in DOMAIN deferred
                 PROVE  TakeResult(tasks, deferred[k]) \in {"Pending", "Gone"}
      BY DEF WakingNeverPanics
    <3>1. deferred[k].index \in DOMAIN tasks
      BY DEF IInv, RefsKnown, RefKnown
    <3>2. \A j \in DOMAIN tasks : tasks[j].value \in {"Pending", "Gone"}
      BY Types DEF IInv, PollsReserve
    <3>3. QED
      BY <3>1, <3>2 DEF TakeResult
  <2>4. QED
    BY <2>1, <2>2, <2>3, FuturesAreConserved DEF SlotsAreSafe
<1>2. QED
  BY <1>1, SpecIInv, PTL

(* TaskHandle::is_pending answers for the task of the handle, whoever uses    *)
(* its slot now.                                                               *)
THEOREM SpecIsPendingIsTrue == Spec => []IsPendingIsTrue
<1>1. IInv => IsPendingIsTrue
  <2> SUFFICES ASSUME IInv, alive, NEW h \in handles
               PROVE  /\ h.index \in DOMAIN tasks
                      /\ IsPending(h) <=> status[h.id] = "pending"
    BY DEF IsPendingIsTrue
  <2>1. /\ h.index \in DOMAIN tasks /\ h.id \in TaskIds
        /\ \A k \in DOMAIN tasks : IsLive(k) /\ tasks[k].id = h.id => k = h.index
    BY DEF IInv, RefsKnown, RefKnown, TypeOK, Ref
  <2>2. status[h.id] = "pending" <=> \E k \in DOMAIN tasks : IsLive(k) /\ tasks[k].id = h.id
    BY <2>1 DEF IInv, StatusTells
  <2>3. IsLive(h.index) <=> tasks[h.index].value \in {"Pending", "Polling"}
    BY <2>1, Types DEF IInv, IsLive
  <2>4. QED
    BY <2>1, <2>2, <2>3 DEF IsPending
<1>2. QED
  BY <1>1, SpecIInv, PTL
-----------------------------------------------------------------------------
(* The runtime as a pool of tasks.  Its references: one for each task, which  *)
(* wakers have and handles, polls and waiting calls share.                    *)
OneRefEach ==
  /\ handles \subseteq wakers
  /\ \A k \in DOMAIN polling : polling[k].at \in wakers
  /\ \A k \in DOMAIN deferred : deferred[k] \in wakers
  /\ \A r, q \in wakers : r.id = q.id => r = q

LEMMA NextOneRefEach == IInv /\ OneRefEach /\ [Next]_vars => OneRefEach'
<1> SUFFICES ASSUME IInv, OneRefEach, [Next]_vars PROVE OneRefEach'
  OBVIOUS
<1>0. TypeOK /\ RefsKnown
  BY DEF IInv
<1>1. CASE Spawn
  <2> DEFINE r == [index |-> IndexForTask, id |-> nextTaskId]
  <2>1. /\ wakers' = wakers \cup {r} /\ UNCHANGED <<deferred, handles>>
        /\ StartPoll(AddTask(nextTaskId), r, TRUE) /\ r.id = nextTaskId
    BY <1>1 DEF Spawn
  <2>2. \A q \in wakers : q.id # r.id
    BY <1>0, <2>1, Types DEF RefsKnown, RefKnown, TypeOK
  <2> HIDE DEF r
  <2>3. ASSUME NEW k \in DOMAIN polling' PROVE polling'[k].at \in wakers'
    <3>1. CASE polling' = polling
      BY <2>1, <2>3, <3>1 DEF OneRefEach
    <3>2. CASE polling' # polling
      <4>1. PICK f : polling' = Append(polling, [at |-> r, future |-> f, bySpawn |-> TRUE])
        BY <2>1, <3>2 DEF StartPoll
      <4>2. \/ k \in DOMAIN polling /\ polling'[k] = polling[k]
            \/ polling'[k].at = r
        BY <1>0, <2>3, <4>1 DEF TypeOK
      <4>3. QED
        BY <2>1, <4>2 DEF OneRefEach
    <3>3. QED
      BY <3>1, <3>2
  <2>4. QED
    BY <2>1, <2>2, <2>3 DEF OneRefEach
<1>2. ASSUME EndPoll, UNCHANGED <<deferred, wakers>> PROVE OneRefEach'
  <2>1. /\ Len(polling) \in DOMAIN polling /\ Innermost = polling[Len(polling)]
        /\ DOMAIN polling' = DOMAIN polling \ {Len(polling)}
        /\ \A j \in DOMAIN polling' : polling'[j] = polling[j]
        /\ \A h \in handles' : h \in handles \/ h = Innermost.at
    BY <1>0, <1>2, PollingEnds
  <2>2. QED
    BY <1>2, <2>1 DEF OneRefEach
<1>3. CASE RunDeferred
  <2>1. /\ polling = <<>> /\ deferred # <<>> /\ deferred' = Tail(deferred)
        /\ UNCHANGED <<handles, wakers>>
        /\ polling' = polling \/ StartPoll(tasks, Head(deferred), FALSE)
    BY <1>3 DEF RunDeferred
  <2>2. /\ Len(deferred) \in Nat /\ DOMAIN deferred = 1 .. Len(deferred)
        /\ deferred \in Seq(Ref)
    BY <1>0, Types DEF TypeOK
  <2>3. Head(deferred) \in wakers
    BY <2>1, <2>2 DEF OneRefEach
  <2>4. \A k \in DOMAIN deferred' : deferred'[k] \in wakers
    <3>1. \A k \in DOMAIN deferred' : k + 1 \in DOMAIN deferred /\ deferred'[k] = deferred[k + 1]
      BY <2>1, <2>2
    <3>2. QED
      BY <3>1 DEF OneRefEach
  <2>5. \A k \in DOMAIN polling' : polling'[k].at \in wakers
    <3>1. CASE polling' = polling
      BY <3>1 DEF OneRefEach
    <3>2. CASE polling' # polling
      <4>1. PICK f : polling' = Append(<<>>, [at |-> Head(deferred), future |-> f,
                                               bySpawn |-> FALSE])
        BY <2>1, <3>2 DEF StartPoll
      <4>2. QED
        BY <2>3, <4>1
    <3>3. QED
      BY <3>1, <3>2
  <2>6. QED
    BY <2>1, <2>4, <2>5 DEF OneRefEach
<1>4. CASE Cleanup
  BY <1>4 DEF Cleanup, OneRefEach
<1>5. ASSUME NEW h \in handles, Cancel(h) PROVE OneRefEach'
  BY <1>5 DEF Cancel, OneRefEach
<1>6. ASSUME NEW w \in wakers, Wake(w) PROVE OneRefEach'
  <2>1. /\ deferred' = Append(deferred, w) /\ UNCHANGED <<polling, handles, wakers>>
        /\ deferred \in Seq(Ref)
    BY <1>0, <1>6 DEF Wake, TypeOK
  <2>2. \A k \in DOMAIN deferred' : \/ k \in DOMAIN deferred /\ deferred'[k] = deferred[k]
                                    \/ deferred'[k] = w
    BY <2>1
  <2>3. QED
    BY <2>1, <2>2 DEF OneRefEach
<1>7. CASE UNCHANGED vars
  BY <1>7 DEF vars, OneRefEach
<1>8. QED
  BY <1>1, <1>2, <1>3, <1>4, <1>5, <1>6, <1>7 DEF Next, PollEnds, PollPending, PollDone

(* The sequences of the pool are those of the runtime, item by item.          *)
PoolPolls == [task : TaskIds, first : BOOLEAN]
PoolPoll(p) == [task |-> p.future, first |-> p.bySpawn]
PollsOf(ps) == [k \in DOMAIN ps |-> PoolPoll(ps[k])]
CallsOf(ds) == [k \in DOMAIN ds |-> ds[k].id]

LEMMA PollsOfIs ==
  ASSUME NEW ps \in Seq(PollRecords)
  PROVE  /\ PollsOf(ps) \in Seq(PoolPolls) /\ Len(PollsOf(ps)) = Len(ps)
         /\ \A k \in 1 .. Len(ps) : PollsOf(ps)[k] = PoolPoll(ps[k])
<1>1. \A p \in PollRecords : PoolPoll(p) \in PoolPolls
  BY DEF PollRecords, PoolPolls, PoolPoll
<1>2. \A k \in 1 .. Len(ps) : ps[k] \in PollRecords
  OBVIOUS
<1>3. QED
  BY <1>1, <1>2 DEF PollsOf

LEMMA CallsOfIs ==
  ASSUME NEW ds \in Seq(Ref)
  PROVE  /\ CallsOf(ds) \in Seq(TaskIds) /\ Len(CallsOf(ds)) = Len(ds)
         /\ \A k \in 1 .. Len(ds) : CallsOf(ds)[k] = ds[k].id
<1>1. \A r \in Ref : r.id \in TaskIds
  BY DEF Ref
<1>2. \A k \in 1 .. Len(ds) : ds[k] \in Ref
  OBVIOUS
<1>3. QED
  BY <1>1, <1>2 DEF CallsOf

LEMMA PollsOfAppend ==
  ASSUME NEW ps \in Seq(PollRecords), NEW p \in PollRecords
  PROVE  PollsOf(Append(ps, p)) = Append(PollsOf(ps), PoolPoll(p))
<1> DEFINE s == PollsOf(Append(ps, p))
           t == Append(PollsOf(ps), PoolPoll(p))
<1>1. /\ Append(ps, p) \in Seq(PollRecords) /\ Len(Append(ps, p)) = Len(ps) + 1
      /\ \A k \in 1 .. Len(ps) : Append(ps, p)[k] = ps[k]
      /\ Append(ps, p)[Len(ps) + 1] = p /\ Len(ps) \in Nat
  OBVIOUS
<1>2. /\ s \in Seq(PoolPolls) /\ Len(s) = Len(ps) + 1
      /\ \A k \in 1 .. Len(ps) + 1 : s[k] = PoolPoll(Append(ps, p)[k])
  BY <1>1, PollsOfIs
<1>3. PoolPoll(p) \in PoolPolls
  BY DEF PollRecords, PoolPolls, PoolPoll
<1>4. /\ PollsOf(ps) \in Seq(PoolPolls) /\ Len(PollsOf(ps)) = Len(ps)
      /\ \A k \in 1 .. Len(ps) : PollsOf(ps)[k] = PoolPoll(ps[k])
  BY PollsOfIs
<1>5. /\ t \in Seq(PoolPolls) /\ Len(t) = Len(ps) + 1 /\ t[Len(ps) + 1] = PoolPoll(p)
      /\ \A k \in 1 .. Len(ps) : t[k] = PollsOf(ps)[k]
  BY <1>1, <1>3, <1>4
<1> HIDE DEF s, t
<1>6. \A k \in 1 .. Len(s) : s[k] = t[k]
  <2> SUFFICES ASSUME NEW k \in 1 .. Len(ps) + 1 PROVE s[k] = t[k]
    BY <1>2
  <2>1. CASE k = Len(ps) + 1
    BY <1>1, <1>2, <1>5, <2>1
  <2>2. CASE k # Len(ps) + 1
    <3>1. k \in 1 .. Len(ps)
      BY <1>1, <2>2
    <3>2. QED
      BY <1>1, <1>2, <1>4, <1>5, <3>1
  <2>3. QED
    BY <2>1, <2>2
<1>7. Len(s) = Len(t)
  BY <1>2, <1>5
<1>8. s = t
  BY ONLY <1>2, <1>5, <1>6, <1>7, SeqEqual
<1>9. QED
  BY <1>8 DEF s, t

LEMMA CallsOfAppend ==
  ASSUME NEW ds \in Seq(Ref), NEW d \in Ref
  PROVE  CallsOf(Append(ds, d)) = Append(CallsOf(ds), d.id)
<1> DEFINE s == CallsOf(Append(ds, d))
           t == Append(CallsOf(ds), d.id)
<1>1. /\ Append(ds, d) \in Seq(Ref) /\ Len(Append(ds, d)) = Len(ds) + 1
      /\ \A k \in 1 .. Len(ds) : Append(ds, d)[k] = ds[k]
      /\ Append(ds, d)[Len(ds) + 1] = d /\ Len(ds) \in Nat
  OBVIOUS
<1>2. /\ s \in Seq(TaskIds) /\ Len(s) = Len(ds) + 1
      /\ \A k \in 1 .. Len(ds) + 1 : s[k] = Append(ds, d)[k].id
  BY <1>1, CallsOfIs
<1>3. d.id \in TaskIds
  BY DEF Ref
<1>4. /\ CallsOf(ds) \in Seq(TaskIds) /\ Len(CallsOf(ds)) = Len(ds)
      /\ \A k \in 1 .. Len(ds) : CallsOf(ds)[k] = ds[k].id
  BY CallsOfIs
<1>5. /\ t \in Seq(TaskIds) /\ Len(t) = Len(ds) + 1 /\ t[Len(ds) + 1] = d.id
      /\ \A k \in 1 .. Len(ds) : t[k] = CallsOf(ds)[k]
  BY <1>1, <1>3, <1>4
<1> HIDE DEF s, t
<1>6. \A k \in 1 .. Len(s) : s[k] = t[k]
  <2> SUFFICES ASSUME NEW k \in 1 .. Len(ds) + 1 PROVE s[k] = t[k]
    BY <1>2
  <2>1. CASE k = Len(ds) + 1
    BY <1>1, <1>2, <1>5, <2>1
  <2>2. CASE k # Len(ds) + 1
    <3>1. k \in 1 .. Len(ds)
      BY <1>1, <2>2
    <3>2. QED
      BY <1>1, <1>2, <1>4, <1>5, <3>1
  <2>3. QED
    BY <2>1, <2>2
<1>7. Len(s) = Len(t)
  BY <1>2, <1>5
<1>8. s = t
  BY ONLY <1>2, <1>5, <1>6, <1>7, SeqEqual
<1>9. QED
  BY <1>8 DEF s, t

LEMMA CallsOfTail ==
  ASSUME NEW ds \in Seq(Ref), ds # <<>>
  PROVE  /\ CallsOf(ds) # <<>> /\ Head(CallsOf(ds)) = Head(ds).id
         /\ CallsOf(Tail(ds)) = Tail(CallsOf(ds))
<1> DEFINE s == CallsOf(Tail(ds))
           t == Tail(CallsOf(ds))
<1>1. /\ Tail(ds) \in Seq(Ref) /\ Len(Tail(ds)) = Len(ds) - 1 /\ Len(ds) \in Nat \ {0}
      /\ \A k \in 1 .. Len(ds) - 1 : Tail(ds)[k] = ds[k + 1]
      /\ Head(ds) = ds[1]
  OBVIOUS
<1>2. /\ s \in Seq(TaskIds) /\ Len(s) = Len(ds) - 1
      /\ \A k \in 1 .. Len(ds) - 1 : s[k] = Tail(ds)[k].id
  BY <1>1, CallsOfIs
<1>3. /\ CallsOf(ds) \in Seq(TaskIds) /\ Len(CallsOf(ds)) = Len(ds)
      /\ \A k \in 1 .. Len(ds) : CallsOf(ds)[k] = ds[k].id
  BY CallsOfIs
<1> DEFINE c == CallsOf(ds)
<1> HIDE DEF c
<1>4. /\ c # <<>> /\ Head(c) = c[1] /\ Tail(c) \in Seq(TaskIds) /\ Len(Tail(c)) = Len(ds) - 1
      /\ \A k \in 1 .. Len(ds) - 1 : Tail(c)[k] = c[k + 1]
  <2>1. c \in Seq(TaskIds) /\ Len(c) = Len(ds)
    BY <1>3 DEF c
  <2>2. QED
    BY <1>1, <2>1
<1>5. /\ t \in Seq(TaskIds) /\ Len(t) = Len(ds) - 1
      /\ \A k \in 1 .. Len(ds) - 1 : t[k] = CallsOf(ds)[k + 1]
  BY <1>4 DEF c
<1> HIDE DEF s, t
<1>6. \A k \in 1 .. Len(s) : s[k] = t[k]
  <2> SUFFICES ASSUME NEW k \in 1 .. Len(ds) - 1 PROVE s[k] = t[k]
    BY <1>2
  <2>1. k + 1 \in 1 .. Len(ds)
    BY <1>1
  <2>2. QED
    BY <1>1, <1>2, <1>3, <1>5, <2>1
<1>7. Len(s) = Len(t)
  BY <1>2, <1>5
<1>8. s = t
  BY ONLY <1>2, <1>5, <1>6, <1>7, SeqEqual
<1>9. QED
  BY <1>1, <1>3, <1>4, <1>8 DEF s, t, c

LEMMA PollsOfFront ==
  ASSUME NEW ps \in Seq(PollRecords), ps # <<>>
  PROVE  /\ PollsOf(ps) # <<>> /\ Len(PollsOf(ps)) = Len(ps)
         /\ PollsOf(ps)[Len(ps)] = PoolPoll(ps[Len(ps)])
         /\ PollsOf(SubSeq(ps, 1, Len(ps) - 1)) = SubSeq(PollsOf(ps), 1, Len(ps) - 1)
<1> DEFINE n == Len(ps) - 1
           c == PollsOf(ps)
           s == PollsOf(SubSeq(ps, 1, n))
           t == SubSeq(c, 1, n)
<1>1. n \in Nat /\ Len(ps) = n + 1 /\ 1 \in Int /\ n \in Int
  OBVIOUS
<1>2. /\ c \in Seq(PoolPolls) /\ Len(c) = n + 1
      /\ \A k \in 1 .. n + 1 : c[k] = PoolPoll(ps[k])
  BY <1>1, PollsOfIs
<1> HIDE DEF n, c
<1>3. /\ SubSeq(ps, 1, n) \in Seq(PollRecords) /\ Len(SubSeq(ps, 1, n)) = n
      /\ \A k \in 1 .. n : SubSeq(ps, 1, n)[k] = ps[k]
  BY <1>1
<1>4. /\ t \in Seq(PoolPolls) /\ Len(t) = n /\ \A k \in 1 .. n : t[k] = c[k]
  BY <1>1, <1>2
<1>5. /\ s \in Seq(PoolPolls) /\ Len(s) = n
      /\ \A k \in 1 .. n : s[k] = PoolPoll(SubSeq(ps, 1, n)[k])
  BY <1>1, <1>3, PollsOfIs
<1> HIDE DEF s, t
<1>6. \A k \in 1 .. Len(s) : s[k] = t[k]
  <2> SUFFICES ASSUME NEW k \in 1 .. n PROVE s[k] = t[k]
    BY <1>5
  <2>1. k \in 1 .. n + 1
    BY <1>1
  <2>2. QED
    BY <1>2, <1>3, <1>4, <1>5, <2>1
<1>7. Len(s) = Len(t)
  BY <1>4, <1>5
<1>8. s = t
  BY ONLY <1>4, <1>5, <1>6, <1>7, SeqEqual
<1>9. c # <<>> /\ n + 1 \in 1 .. n + 1
  BY <1>1, <1>2
<1>10. QED
  BY <1>1, <1>2, <1>8, <1>9 DEF s, t, c, n

LEMMA PoolViews ==
  /\ Polls = PollsOf(polling) /\ Polls' = PollsOf(polling')
  /\ Calls = CallsOf(deferred) /\ Calls' = CallsOf(deferred')
BY DEF Polls, PollsOf, PoolPoll, Calls, CallsOf

(* A task waits when a slot that is Pending has its id.                       *)
LEMMA WaitingById ==
  ASSUME IInv, NEW r, RefKnown(r), r.id \in TaskIds, alive
  PROVE  r.id \in Waiting <=> tasks[r.index].value = "Pending" /\ tasks[r.index].id = r.id
<1>1. r.index \in DOMAIN tasks /\ \A k \in DOMAIN tasks : IsLive(k) /\ tasks[k].id = r.id => k = r.index
  BY DEF RefKnown
<1>2. \A k \in DOMAIN tasks : tasks[k].value = "Pending" => IsLive(k)
  BY DEF IsLive
<1>3. \A k \in DOMAIN tasks : tasks[k].value = "Pending" => tasks[k].future = tasks[k].id
  BY DEF IInv, SlotsOwn
<1>4. QED
  BY <1>1, <1>2, <1>3 DEF Waiting

LEMMA SlotStopsWaiting ==
  ASSUME IInv, NEW k, NEW s, SlotSet(k, s), s.value # "Pending"
  PROVE  Waiting' = Waiting \ {tasks[k].future}
<1>1. /\ DOMAIN tasks' = DOMAIN tasks /\ k \in DOMAIN tasks
      /\ tasks'[k] = s /\ \A j \in DOMAIN tasks \ {k} : tasks'[j] = tasks[j]
  BY DEF SlotSet
<1>2. /\ NoFuture \notin TaskIds
      /\ \A j \in DOMAIN tasks : tasks[j].value = "Pending" <=> tasks[j].future # NoFuture
  BY Types DEF IInv, TypeOK
<1>3. ASSUME NEW j \in DOMAIN tasks \ {k}, tasks[j].future = tasks[k].future,
             tasks[j].value = "Pending"
      PROVE  FALSE
  BY <1>1, <1>2, <1>3 DEF IInv, SlotsOwn, IsLive
<1>4. ASSUME NEW t \in TaskIds PROVE t \in Waiting' <=> t \in Waiting /\ t # tasks[k].future
  <2>1. t \in Waiting' <=> \E j \in DOMAIN tasks \ {k} :
                              tasks[j].value = "Pending" /\ tasks[j].future = t
    BY <1>1 DEF Waiting
  <2>2. t \in Waiting <=> \E j \in DOMAIN tasks :
                              tasks[j].value = "Pending" /\ tasks[j].future = t
    BY DEF Waiting
  <2>3. QED
    BY <1>1, <1>3, <2>1, <2>2
<1>5. Waiting \subseteq TaskIds /\ Waiting' \subseteq TaskIds
  BY DEF Waiting
<1>6. QED
  BY <1>4, <1>5

LEMMA SlotWaitsAgain ==
  ASSUME NEW k, NEW s, SlotSet(k, s), s.value = "Pending", s.future \in TaskIds,
         tasks[k].value # "Pending"
  PROVE  Waiting' = Waiting \cup {s.future}
<1>1. /\ DOMAIN tasks' = DOMAIN tasks /\ k \in DOMAIN tasks
      /\ tasks'[k] = s /\ \A j \in DOMAIN tasks \ {k} : tasks'[j] = tasks[j]
  BY DEF SlotSet
<1>2. ASSUME NEW t \in TaskIds PROVE t \in Waiting' <=> t \in Waiting \/ t = s.future
  <2>1. t \in Waiting' <=> \E j \in DOMAIN tasks : tasks'[j].value = "Pending" /\ tasks'[j].future = t
    BY <1>1 DEF Waiting
  <2>2. t \in Waiting <=> \E j \in DOMAIN tasks : tasks[j].value = "Pending" /\ tasks[j].future = t
    BY DEF Waiting
  <2>3. QED
    BY <1>1, <2>1, <2>2
<1>3. Waiting \subseteq TaskIds /\ Waiting' \subseteq TaskIds
  BY DEF Waiting
<1>4. QED
  BY <1>2, <1>3

LEMMA InitOneRefEach == Init => OneRefEach
BY DEF Init, OneRefEach

LEMMA InitPool == Init => Pool!Init
<1> SUFFICES ASSUME Init PROVE Pool!Init
  OBVIOUS
<1>1. 0 .. nextTaskId - 1 = {} /\ Waiting = {} /\ {h.id : h \in handles} = {}
  BY DEF Init, Waiting
<1>2. Polls = <<>> /\ Calls = <<>>
  BY DEF Init, Polls, Calls
<1>3. QED
  BY <1>1, <1>2 DEF Init, Pool!Init

(* Every step of the runtime is a step of the pool.                           *)
LEMMA SpawnStarts ==
  ASSUME IInv, Spawn
  PROVE  nextTaskId \in TaskIds /\ Pool!Start(nextTaskId)
<1> DEFINE k == IndexForTask
           t == nextTaskId
           p == [at |-> [index |-> k, id |-> t], future |-> t, bySpawn |-> TRUE]
<1>1. /\ alive /\ t < MaxTasks /\ nextTaskId' = t + 1 /\ UNCHANGED <<alive, deferred, handles>>
      /\ TypeOK
  BY DEF IInv, Spawn
<1>2. t \in Nat /\ t \in TaskIds /\ polling \in Seq(PollRecords)
  BY <1>1, RuntimeAssumption DEF TypeOK, TaskIds, PollRecords
<1>3. /\ (k \in DOMAIN tasks => tasks[k].value = "Gone") /\ tasks'[k].value = "Polling"
      /\ DOMAIN tasks' = DOMAIN tasks \cup {k}
      /\ \A j \in DOMAIN tasks \ {k} : tasks'[j] = tasks[j]
      /\ p \in PollRecords /\ polling' = Append(polling, p)
  BY SpawnFills
<1> HIDE DEF k
<1>4. Waiting' = Waiting
  BY <1>3 DEF Waiting
<1>5. Polls' = Append(Polls, [task |-> t, first |-> TRUE])
  <2>1. PoolPoll(p) = [task |-> t, first |-> TRUE]
    BY DEF PoolPoll
  <2>2. QED
    BY <1>2, <1>3, <2>1, PollsOfAppend, PoolViews
<1>6. t \notin 0 .. t - 1 /\ 0 .. nextTaskId' - 1 = (0 .. t - 1) \cup {t}
  BY <1>1, <1>2
<1>7. Calls' = Calls /\ {h.id : h \in handles'} = {h.id : h \in handles}
  BY <1>1 DEF Calls
<1>8. QED
  BY <1>1, <1>2, <1>4, <1>5, <1>6, <1>7 DEF Pool!Start

(* The innermost poll ends and the pool sees which task it was.               *)
LEMMA EndPollEnds ==
  ASSUME IInv, EndPoll
  PROVE  LET poll == Polls[Len(Polls)] IN
         /\ Polls # <<>> /\ Polls' = SubSeq(Polls, 1, Len(Polls) - 1)
         /\ poll.task = Innermost.at.id /\ Innermost.future = Innermost.at.id
         /\ {h.id : h \in handles'} = IF poll.first THEN {h.id : h \in handles} \cup {poll.task}
                                      ELSE {h.id : h \in handles}
<1>1. /\ polling \in Seq(PollRecords) /\ polling # <<>> /\ Innermost = polling[Len(polling)]
      /\ polling' = SubSeq(polling, 1, Len(polling) - 1)
      /\ handles' = handles \cup IF Innermost.bySpawn THEN {Innermost.at} ELSE {}
  BY DEF IInv, TypeOK, PollRecords, EndPoll, Innermost
<1>2. /\ Polls # <<>> /\ Len(Polls) = Len(polling) /\ Polls[Len(Polls)] = PoolPoll(Innermost)
      /\ Polls' = SubSeq(Polls, 1, Len(Polls) - 1)
  BY <1>1, PollsOfFront, PoolViews
<1>3. /\ PoolPoll(Innermost).task = Innermost.future
      /\ PoolPoll(Innermost).first = Innermost.bySpawn
  BY DEF PoolPoll
<1>4. Innermost.future = Innermost.at.id
  BY <1>1, InnermostSlot
<1>5. CASE Innermost.bySpawn
  BY <1>1, <1>2, <1>3, <1>4, <1>5
<1>6. CASE ~Innermost.bySpawn
  BY <1>1, <1>2, <1>3, <1>4, <1>6
<1>7. QED
  BY <1>2, <1>3, <1>4, <1>5, <1>6

LEMMA PollPendingEnds ==
  ASSUME IInv, PollPending
  PROVE  Pool!End(TRUE)
<1> DEFINE k == Innermost.at.index
           s == [tasks[k] EXCEPT !.value = "Pending", !.future = Innermost.future]
<1>1. EndPoll /\ polling # <<>> /\ TypeOK /\ UNCHANGED <<alive, nextTaskId, deferred>>
  BY DEF IInv, PollPending, EndPoll
<1>2. /\ k \in DOMAIN tasks /\ tasks[k].value = "Polling"
      /\ Innermost.future = Innermost.at.id /\ Innermost.at.id \in TaskIds
  BY <1>1, InnermostSlot
<1>3. tasks' = [tasks EXCEPT ![k] = s]
  BY <1>2 DEF PollPending, ParkTask
<1>4. s \in Slot /\ s.value = "Pending" /\ s.future = Innermost.at.id
  BY <1>1, <1>2, Types DEF Slot
<1> HIDE DEF s, k
<1>5. SlotSet(k, s)
  BY <1>1, <1>2, <1>3, <1>4, SettingASlot
<1>6. Waiting' = Waiting \cup {Innermost.at.id}
  BY <1>2, <1>4, <1>5, SlotWaitsAgain
<1>7. Calls' = Calls
  BY <1>1 DEF Calls
<1>8. QED
  BY <1>1, <1>6, <1>7, EndPollEnds DEF Pool!End

LEMMA PollDoneEnds ==
  ASSUME IInv, NEW outcome, PollDone(outcome)
  PROVE  Pool!End(FALSE)
<1> DEFINE k == Innermost.at.index
           s == [tasks[k] EXCEPT !.value = "Gone", !.future = NoFuture]
<1>1. EndPoll /\ polling # <<>> /\ TypeOK /\ UNCHANGED <<alive, nextTaskId, deferred>>
  BY DEF IInv, PollDone, EndPoll
<1>2. k \in DOMAIN tasks /\ tasks[k].value = "Polling"
  BY <1>1, InnermostSlot
<1>3. tasks' = [tasks EXCEPT ![k] = s]
  BY DEF PollDone, ClearTask
<1>4. s \in Slot /\ s.value = "Gone"
  BY <1>1, <1>2, Types DEF Slot
<1> HIDE DEF s, k
<1>5. SlotSet(k, s)
  BY <1>1, <1>2, <1>3, <1>4, SettingASlot
<1>6. Waiting' = Waiting \ {tasks[k].future}
  BY <1>4, <1>5, SlotStopsWaiting
<1>7. tasks[k].future \notin Waiting
  BY <1>1, <1>2 DEF Waiting, TypeOK, TaskIds, NoFuture
<1>8. Calls' = Calls
  BY <1>1 DEF Calls
<1>9. QED
  BY <1>1, <1>6, <1>7, <1>8, EndPollEnds DEF Pool!End

LEMMA WakeWakes ==
  ASSUME IInv, NEW w \in wakers, Wake(w)
  PROVE  w.id \in TaskIds /\ Pool!Wake(w.id)
<1>1. /\ deferred' = Append(deferred, w)
      /\ UNCHANGED <<alive, tasks, nextTaskId, polling, handles>>
  BY DEF Wake
<1>2. deferred \in Seq(Ref) /\ w \in Ref /\ w.id \in TaskIds
  BY DEF IInv, TypeOK, Ref
<1>3. w.id \in 0 .. nextTaskId - 1
  BY <1>2 DEF IInv, TypeOK, RefsKnown, RefKnown, TaskIds
<1>4. Calls' = Append(Calls, w.id)
  BY <1>1, <1>2, CallsOfAppend, PoolViews
<1>5. Waiting' = Waiting /\ Polls' = Polls
  BY <1>1 DEF Waiting, Polls
<1>6. QED
  BY <1>1, <1>2, <1>3, <1>4, <1>5 DEF Pool!Wake

(* The oldest call polls the task that it names, or finds nothing of it.      *)
LEMMA RunDeferredDelivers ==
  ASSUME IInv, RunDeferred
  PROVE  Pool!Deliver
<1> DEFINE r == Head(deferred)
<1>1. /\ polling = <<>> /\ deferred # <<>> /\ deferred' = Tail(deferred)
      /\ UNCHANGED <<alive, nextTaskId, handles>> /\ TypeOK
      /\ IF alive THEN StartPoll(tasks, r, FALSE) ELSE UNCHANGED <<tasks, polling>>
  BY DEF IInv, RunDeferred
<1>2. deferred \in Seq(Ref)
  BY <1>1 DEF TypeOK
<1>3. /\ Calls # <<>> /\ Calls' = Tail(Calls) /\ Head(Calls) = r.id
  BY <1>1, <1>2, CallsOfTail, PoolViews
<1>4. r.id \in TaskIds /\ RefKnown(r)
  <2>1. /\ 1 \in DOMAIN deferred /\ r = deferred[1] /\ deferred[1] \in Ref
    BY <1>1, <1>2
  <2>2. QED
    BY <2>1 DEF IInv, RefsKnown, Ref
<1> HIDE DEF r
<1>5. Polls = <<>>
  BY <1>1 DEF Polls
<1>6. CASE UNCHANGED <<tasks, polling>> /\ r.id \notin Waiting
  <2>1. Waiting' = Waiting \ {r.id} /\ Polls' = <<>>
    BY <1>5, <1>6 DEF Waiting, Polls
  <2>2. QED
    BY <1>1, <1>3, <1>5, <1>6, <2>1 DEF Pool!Deliver
<1>7. CASE alive /\ TakeResult(tasks, r) = "Pending"
  <2> DEFINE k == r.index
             s == [tasks[k] EXCEPT !.value = "Polling", !.future = NoFuture]
             p == [at |-> r, future |-> r.id, bySpawn |-> FALSE]
  <2>1. k \in DOMAIN tasks /\ tasks[k].value = "Pending" /\ tasks[k].id = r.id
    BY <1>7 DEF TakeResult
  <2>2. tasks[k].future = r.id /\ tasks[k] \in Slot /\ r.id \in Waiting
    BY <1>1, <1>4, <2>1, Types DEF IInv, SlotsOwn, Waiting
  <2>3. tasks' = [tasks EXCEPT ![k] = s] /\ polling' = Append(<<>>, p)
    BY <1>1, <1>7, <2>2 DEF StartPoll, TakeForPolling
  <2>4. s \in Slot /\ s.value = "Polling"
    BY <2>2, TakenSlot
  <2> HIDE DEF s, k, p
  <2>5. SlotSet(k, s)
    BY <1>1, <2>1, <2>3, <2>4, SettingASlot
  <2>6. Waiting' = Waiting \ {r.id}
    BY <2>2, <2>4, <2>5, SlotStopsWaiting
  <2>7. Polls' = <<[task |-> r.id, first |-> FALSE]>>
    <3>1. polling' = <<p>>
      BY <2>3
    <3>2. PollsOf(<<p>>) = <<PoolPoll(p)>>
      <4>1. DOMAIN <<p>> = {1} /\ <<p>>[1] = p
        OBVIOUS
      <4>2. PollsOf(<<p>>) = [i \in {1} |-> PoolPoll(p)]
        BY <4>1 DEF PollsOf
      <4>3. QED
        BY <4>2
    <3>3. PoolPoll(p) = [task |-> r.id, first |-> FALSE]
      BY DEF PoolPoll, p
    <3>4. QED
      BY <3>1, <3>2, <3>3, PoolViews
  <2>8. QED
    BY <1>1, <1>3, <1>5, <2>2, <2>6, <2>7 DEF Pool!Deliver
<1>8. CASE alive /\ TakeResult(tasks, r) # "Pending"
  <2>1. UNCHANGED <<tasks, polling>>
    BY <1>1, <1>8 DEF StartPoll
  <2>2. r.id \notin Waiting
    BY <1>4, <1>8, WaitingById DEF TakeResult, RefKnown
  <2>3. QED
    BY <1>6, <2>1, <2>2
<1>9. CASE ~alive
  <2>1. tasks = <<>>
    BY <1>9 DEF IInv, CleanedUp
  <2>2. r.id \notin Waiting
    BY <2>1 DEF Waiting
  <2>3. QED
    BY <1>1, <1>6, <1>9, <2>2
<1>10. QED
  BY <1>7, <1>8, <1>9

(* The program gives one handle up, and no other handle names its task.       *)
LEMMA CancelCancels ==
  ASSUME IInv, OneRefEach, NEW h \in handles, Cancel(h)
  PROVE  h.id \in TaskIds /\ Pool!Cancel(h.id)
<1>1. /\ handles' = handles \ {h} /\ UNCHANGED <<alive, nextTaskId, polling, deferred>>
      /\ TypeOK /\ h \in Ref /\ h.id \in TaskIds /\ RefKnown(h)
  BY DEF IInv, Cancel, TypeOK, RefsKnown, Ref
<1>2. {g.id : g \in handles'} = {g.id : g \in handles} \ {h.id}
  BY <1>1 DEF OneRefEach
<1>3. Polls' = Polls /\ Calls' = Calls
  BY <1>1 DEF Polls, Calls
<1>4. Waiting' = Waiting \ {h.id}
  <2>1. CASE ~alive
    <3>1. tasks = <<>> /\ tasks' = tasks
      BY <2>1 DEF IInv, CleanedUp, Cancel, CancelOutcome
    <3>2. QED
      BY <3>1 DEF Waiting
  <2>2. CASE alive /\ h.id \notin Waiting
    <3>1. ~(tasks[h.index].value = "Pending" /\ tasks[h.index].id = h.id)
      BY <1>1, <2>2, WaitingById
    <3>2. h.index \in DOMAIN tasks /\ tasks[h.index].value \in {"Gone", "Pending", "Polling"}
      BY <1>1, <2>2, Types DEF RefKnown
    <3>3. CancelOutcome(h) # "cancelled"
      BY <2>2, <3>1, <3>2 DEF CancelOutcome, IsSlotOf
    <3>4. tasks' = tasks
      BY <3>3 DEF Cancel
    <3>5. QED
      BY <2>2, <3>4 DEF Waiting
  <2>3. CASE alive /\ h.id \in Waiting
    <3> DEFINE k == h.index
               s == [tasks[k] EXCEPT !.value = "Gone", !.future = NoFuture]
    <3>1. tasks[k].value = "Pending" /\ tasks[k].id = h.id /\ k \in DOMAIN tasks
      BY <1>1, <2>3, WaitingById DEF RefKnown
    <3>2. CancelOutcome(h) = "cancelled"
      BY <2>3, <3>1 DEF CancelOutcome, IsSlotOf
    <3>3. tasks' = [tasks EXCEPT ![k] = s]
      BY <3>2 DEF Cancel, ClearTask
    <3>4. s \in Slot /\ s.value = "Gone" /\ tasks[k].future = h.id
      BY <1>1, <3>1, Types DEF Slot, IInv, SlotsOwn
    <3> HIDE DEF s, k
    <3>5. SlotSet(k, s)
      BY <1>1, <3>1, <3>3, <3>4, SettingASlot
    <3>6. QED
      BY <3>4, <3>5, SlotStopsWaiting
  <2>4. QED
    BY <2>1, <2>2, <2>3
<1>5. QED
  BY <1>1, <1>2, <1>3, <1>4 DEF Pool!Cancel

LEMMA CleanupCloses ==
  ASSUME Cleanup
  PROVE  Pool!Close
<1>1. alive /\ polling = <<>> /\ alive' = FALSE /\ tasks' = <<>>
      /\ UNCHANGED <<nextTaskId, polling, deferred, handles>>
  BY DEF Cleanup
<1>2. Waiting' = {} /\ Polls = <<>> /\ Polls' = Polls /\ Calls' = Calls
  BY <1>1 DEF Waiting, Polls, Calls
<1>3. QED
  BY <1>1, <1>2 DEF Pool!Close

LEMMA NextPool == IInv /\ OneRefEach /\ [Next]_vars => [Pool!Next]_(Pool!vars)
<1> SUFFICES ASSUME IInv, OneRefEach, [Next]_vars PROVE [Pool!Next]_(Pool!vars)
  OBVIOUS
<1>1. CASE Spawn
  BY <1>1, SpawnStarts DEF Pool!Next
<1>2. CASE PollPending
  BY <1>2, PollPendingEnds DEF Pool!Next
<1>3. ASSUME NEW o, PollDone(o) PROVE Pool!Next
  BY <1>3, PollDoneEnds DEF Pool!Next
<1>4. CASE RunDeferred
  BY <1>4, RunDeferredDelivers DEF Pool!Next
<1>5. CASE Cleanup
  BY <1>5, CleanupCloses DEF Pool!Next
<1>6. ASSUME NEW h \in handles, Cancel(h) PROVE Pool!Next
  BY <1>6, CancelCancels DEF Pool!Next
<1>7. ASSUME NEW w \in wakers, Wake(w) PROVE Pool!Next
  BY <1>7, WakeWakes DEF Pool!Next
<1>8. CASE UNCHANGED vars
  BY <1>8 DEF vars, Pool!vars, Waiting, Polls, Calls
<1>9. QED
  BY <1>1, <1>2, <1>3, <1>4, <1>5, <1>6, <1>7, <1>8 DEF Next, PollEnds

(* The runtime that reuses slots does what one would do in which each task    *)
(* had a place of its own: a wake and a cancel reach the task that they name, *)
(* wherever it is, and no other.                                               *)
THEOREM SpecImplementsTaskPool == Spec => ImplementsTaskPool
<1>1. Spec => []OneRefEach
  BY InitOneRefEach, NextOneRefEach, SpecIInv, PTL DEF Spec
<1>2. QED
  BY <1>1, InitPool, NextPool, SpecIInv, PTL DEF Spec, ImplementsTaskPool, Pool!Spec
===============================================================================
