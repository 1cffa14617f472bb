-------------------------- MODULE MCAuditLifecycle --------------------------
(* Small instances of AuditLifecycle for TLC. *)
EXTENDS AuditLifecycle, TLC

Symmetry == Permutations(Runs) \cup Permutations(Tests) \cup Permutations(Workers)

=============================================================================
