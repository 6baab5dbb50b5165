------------------------------ MODULE MCInboxFile ------------------------------
(* Instances of InboxFile for TLC: the items and the users are interchangeable. *)
EXTENDS InboxFile, TLC

CONSTANTS i1, i2, u1, u2

Symmetry == Permutations(Items) \cup Permutations(Users)
================================================================================
