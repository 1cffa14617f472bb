----------------------------- MODULE MCAc3Paired -----------------------------
(* Small instances of Ac3Paired for TLC. *)
EXTENDS Ac3Paired, TLC

Symmetry == Permutations(Workers) \cup Permutations(Tests) \cup Permutations(Answers)

=============================================================================
