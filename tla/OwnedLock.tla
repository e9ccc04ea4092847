------------------------------ MODULE OwnedLock ------------------------------
(* What a thread-safe reborrowing cell promises to threads: a reader-writer   *)
(* lock whose writer may also read.  A writer gives up the lock only when it  *)
(* reads no more.  Nothing is promised once the mutex is poisoned.            *)
CONSTANT Threads

VARIABLES writers,   \* the thread that writes, if any
          readers,   \* the threads that hold shared references
          broken

vars == <<writers, readers, broken>>

Init == writers = {} /\ readers = {} /\ broken = FALSE

StartReading(t) ==
  /\ writers \subseteq {t}
  /\ readers' = readers \cup {t}
  /\ UNCHANGED <<writers, broken>>

StopReading(t) ==
  /\ readers' = readers \ {t}
  /\ UNCHANGED <<writers, broken>>

StartWriting(t) ==
  /\ writers = {} /\ readers = {}
  /\ writers' = {t}
  /\ UNCHANGED <<readers, broken>>

StopWriting(t) ==
  /\ writers = {t} /\ readers = {}
  /\ writers' = {}
  /\ UNCHANGED <<readers, broken>>

Break == broken' = TRUE /\ writers' = {} /\ readers' = {}

Next == \/ /\ ~broken
           /\ \E t \in Threads : \/ StartReading(t) \/ StopReading(t)
                                 \/ StartWriting(t) \/ StopWriting(t)
        \/ Break

Spec == Init /\ [][Next]_vars
==============================================================================
