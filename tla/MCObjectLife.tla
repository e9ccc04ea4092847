---------------------------- MODULE MCObjectLife ----------------------------
(* Instance of ObjectLife for model checking.                                 *)
EXTENDS ObjectLife, TLC
CONSTANTS a, b
=============================================================================
