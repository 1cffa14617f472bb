--------------------------- MODULE MCMemoryReview ---------------------------
(* A small instance of MemoryReview: two extracted memories, with or without a *)
(* lineage, and one that is added.                                             *)
EXTENDS MemoryReview, TLC

CONSTANTS m1, m2, m3

MCIds == {m1, m2, m3}
Output(first, second) == (m1 :> first) @@ (m2 :> second)
MCOutputs == {<<>>, Output({}, {}), Output({}, {m1})}
MCPatches ==
  {[status |-> Kept, links |-> l] : l \in {{}, {m1}, {m2}, {m3}}}
  \cup {[status |-> "edited", links |-> Kept]}

Symmetry == Permutations(Extractors) \cup Permutations(Editors)

=============================================================================
