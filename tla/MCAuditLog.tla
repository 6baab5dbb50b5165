------------------------------ MODULE MCAuditLog ------------------------------
(* Instances of AuditLog for TLC: processes are interchangeable. *)
EXTENDS AuditLog, TLC

CONSTANTS l1, l2

Symmetry == Permutations({l1, l2})
=============================================================================
