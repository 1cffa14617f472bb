----------------------------- MODULE MCAc3Ledger -----------------------------
(* Small instances of Ac3Ledger for TLC. *)
EXTENDS Ac3Ledger, TLC

Symmetry == Permutations(Keys) \cup Permutations(Tests) \cup Permutations(Answers)

=============================================================================
