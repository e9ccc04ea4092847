------------------------------ MODULE TaskPool ------------------------------
(* What an async runtime promises, had it no slots to reuse: each task is     *)
(* known by its name, in calls and handles too.  A task waits, or is polled,  *)
(* within other polls if it was spawned there; a wake polls the task that it  *)
(* names if that waits, and a cancel takes out the task that it names.        *)
EXTENDS Naturals, Sequences

CONSTANT Tasks

VARIABLES open,     \* the runtime has not shut down
          born,     \* the tasks spawned so far
          waiting,  \* the tasks that wait to be woken
          polls,    \* the polls in progress, outermost first
          calls,    \* the wakes that the engine has still to deliver
          held      \* the tasks that the program may cancel

vars == <<open, born, waiting, polls, calls, held>>

Init ==
  /\ open = TRUE /\ born = {} /\ waiting = {}
  /\ polls = <<>> /\ calls = <<>> /\ held = {}

Start(t) ==
  /\ open /\ t \notin born
  /\ born' = born \cup {t}
  /\ polls' = Append(polls, [task |-> t, first |-> TRUE])
  /\ UNCHANGED <<open, waiting, calls, held>>

(* The innermost poll ends, and the first of a task gives the program a hold  *)
(* on it.  The task waits again, or it is over.                               *)
End(waits) ==
  /\ polls # <<>>
  /\ polls' = SubSeq(polls, 1, Len(polls) - 1)
  /\ LET poll == polls[Len(polls)] IN
       /\ waiting' = IF waits THEN waiting \cup {poll.task} ELSE waiting
       /\ held' = IF poll.first THEN held \cup {poll.task} ELSE held
  /\ UNCHANGED <<open, born, calls>>

Wake(t) ==
  /\ t \in born
  /\ calls' = Append(calls, t)
  /\ UNCHANGED <<open, born, waiting, polls, held>>

Deliver ==
  /\ polls = <<>> /\ calls # <<>>
  /\ calls' = Tail(calls)
  /\ waiting' = waiting \ {Head(calls)}
  /\ polls' = IF Head(calls) \in waiting THEN <<[task |-> Head(calls), first |-> FALSE]>>
              ELSE <<>>
  /\ UNCHANGED <<open, born, held>>

Cancel(t) ==
  /\ t \in held
  /\ held' = held \ {t} /\ waiting' = waiting \ {t}
  /\ UNCHANGED <<open, born, polls, calls>>

Close ==
  /\ open /\ polls = <<>>
  /\ open' = FALSE /\ waiting' = {}
  /\ UNCHANGED <<born, polls, calls, held>>

Next ==
  \/ \E t \in Tasks : Start(t) \/ Wake(t) \/ Cancel(t)
  \/ \E waits \in BOOLEAN : End(waits)
  \/ Deliver \/ Close

Spec == Init /\ [][Next]_vars
=============================================================================
