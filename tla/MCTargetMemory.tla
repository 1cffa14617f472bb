--------------------------- MODULE MCTargetMemory ---------------------------
(* A small instance of TargetMemory: four facts, two of one gist, and outputs *)
(* of three of them: with a repeated text, with a near duplicate, or plain    *)
(* with up to two links.                                                      *)
EXTENDS TargetMemory, TLC

CONSTANTS f1, f2, f3, f4, q1, q2, g

MCGist == (f1 :> NoGist) @@ (f2 :> g) @@ (f3 :> NoGist) @@ (f4 :> g)
MCWeight == (f1 :> 20) @@ (f2 :> 0) @@ (f3 :> 0) @@ (f4 :> 30)
MCTime == (f1 :> 1) @@ (f2 :> 2) @@ (f3 :> 3) @@ (f4 :> 3)
MCSize == (f1 :> 3) @@ (f2 :> 3) @@ (f3 :> 2) @@ (f4 :> 4)
MCRelevance ==
  (q1 :> ((f1 :> 4) @@ (f2 :> 1) @@ (f3 :> 1) @@ (f4 :> 0))) @@
  (q2 :> ((f1 :> 0) @@ (f2 :> 4) @@ (f3 :> 1) @@ (f4 :> 1)))

LinkTo(n) == [from : 1..n, type : {"UPDATE", "CONFLICT", "CONTEXTUAL_OVERRIDE"}, to : 1..n]
Outputs(f, n) == {b \in [facts : {f}, links : BoundedSeq(LinkTo(Len(f)), n)] : WellFormed(b)}
MCBatches ==
  Outputs(<<>>, 0) \cup Outputs(<<f1>>, 0) \cup Outputs(<<f1, f2, f1>>, 1) \cup Outputs(<<f2, f1, f4>>, 1)
  \cup {b \in Outputs(<<f1, f2, f3>>, 2) :
          Len(b.links) = 2 => \E k \in 1..2 : b.links[k].type = "CONFLICT"}

Setting(capacity, aware, coverage, agent, strategy, room) ==
  [capacity |-> capacity, aware |-> aware, coverage |-> coverage, agent |-> agent,
   strategy |-> strategy, room |-> room]
MCSettings ==
  {Setting(2, TRUE, FALSE, FALSE, "STRONG_RULE_BASED", 2),
   Setting(3, TRUE, FALSE, FALSE, "RELATIONSHIP_PACKET", 3),
   Setting(1, TRUE, TRUE, FALSE, "FULL_CONTEXT", 2),
   Setting(1, FALSE, FALSE, FALSE, "WEAK_FIRST_HIT", 2),
   Setting(2, FALSE, FALSE, FALSE, "NO_MEMORY", 2),
   Setting(3, TRUE, FALSE, TRUE, "STRONG_RULE_BASED", 2)}

=============================================================================
