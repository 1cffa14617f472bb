----------------------------- MODULE MCAc3Runner -----------------------------
(* Small instances of Ac3Runner for TLC. *)
EXTENDS Ac3Runner, TLC

Symmetry == Permutations(Workers) \cup Permutations(Tests) \cup Permutations(Keys)
              \cup Permutations(Answers)

=============================================================================
