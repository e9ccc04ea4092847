---------------------------- MODULE ReborrowStack ----------------------------
(* What a cell that allows reborrowing promises, in terms of whole            *)
(* references instead of counters: a stack of mutable references put to       *)
(* sleep, and on top of them either one mutable reference in use or any       *)
(* number of shared ones.  Nothing is promised once a guard's drop panicked.  *)
EXTENDS Naturals, Sequences

CONSTANTS Guards,   \* identities of references
          None      \* no reference

VARIABLES asleep,   \* the mutable references put to sleep, oldest first
          unique,   \* the mutable reference in use, or None
          shared,   \* the shared references in use
          broken    \* a drop panicked

vars == <<asleep, unique, shared, broken>>

Idle == unique = None /\ shared = {}
InUse(g) == g = unique \/ g \in shared \/ \E k \in 1 .. Len(asleep) : asleep[k] = g

Init == asleep = <<>> /\ unique = None /\ shared = {} /\ broken = FALSE

Share(g) ==
  /\ unique = None /\ ~InUse(g)
  /\ shared' = shared \cup {g}
  /\ UNCHANGED <<asleep, unique, broken>>

Unshare(g) ==
  /\ g \in shared
  /\ shared' = shared \ {g}
  /\ UNCHANGED <<asleep, unique, broken>>

Take(g) ==
  /\ Idle /\ ~InUse(g)
  /\ unique' = g
  /\ UNCHANGED <<asleep, shared, broken>>

Give(g) ==
  /\ unique = g
  /\ unique' = None
  /\ UNCHANGED <<asleep, shared, broken>>

(* The reference in use is lent back to the cell.                             *)
Lend(g) ==
  /\ unique = g
  /\ unique' = None /\ asleep' = Append(asleep, g)
  /\ UNCHANGED <<shared, broken>>

(* The reference lent last is used again; nothing may be in use above it.     *)
Resume(g) ==
  /\ Idle /\ asleep # <<>> /\ asleep[Len(asleep)] = g
  /\ unique' = g /\ asleep' = SubSeq(asleep, 1, Len(asleep) - 1)
  /\ UNCHANGED <<shared, broken>>

Break == /\ ~broken
         /\ asleep' = <<>> /\ unique' = None /\ shared' = {} /\ broken' = TRUE

Next == \/ /\ ~broken
           /\ \E g \in Guards : \/ Share(g) \/ Unshare(g) \/ Take(g)
                                \/ Give(g)  \/ Lend(g)    \/ Resume(g)
        \/ Break

Spec == Init /\ [][Next]_vars
==============================================================================
