----------------------------- MODULE MCLibrary ------------------------------
(* Instance of Library for model checking: a class of the Core level, and two *)
(* of Scene, of which one is an engine singleton.  The connections are        *)
(* interchangeable, and only invariants are checked.                          *)
EXTENDS Library, TLC
CONSTANTS low, node, server, x, y
MCLevelOf == low :> Core @@ node :> Scene @@ server :> Scene
ConnectionSymmetry == Permutations(Connections)
=============================================================================
