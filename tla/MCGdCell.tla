------------------------------- MODULE MCGdCell -------------------------------
(* A cell with a handful of guards, for TLC.                                  *)
EXTENDS GdCell, TLC

GuardSymmetry == Permutations(Guards)
==============================================================================
