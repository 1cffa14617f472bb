----------------------------- MODULE MCCreation -----------------------------
(* A small instance of Creation for TLC. *)
EXTENDS Creation, TLC

Symmetry == Permutations(Workers) \cup Permutations(Settings) \cup Permutations(Ids)

=============================================================================
