----------------------------- MODULE MCSelfUpdate -----------------------------
(* Instances of SelfUpdate for TLC. *)
EXTENDS SelfUpdate, TLC

CONSTANTS good, broken, p1, p2

Symmetry == Permutations(Procs)
================================================================================
