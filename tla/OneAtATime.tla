------------------------------ MODULE OneAtATime ------------------------------
(***************************************************************************)
(* What a stage lock promises: of those who may enter the protected stage  *)
(* of a scope, one at a time is in it.  StageLock implements this for the  *)
(* claims that renew in time, and the handlers of AuditLifecycle for those *)
(* at work on the suite of a group and on each run.                        *)
(***************************************************************************)
CONSTANT Visitors

VARIABLE inside   \* the visitors in the protected stage

Init == inside = {}

Enter(v) == inside = {} /\ inside' = {v}

Leave(v) == inside = {v} /\ inside' = {}

Next == \E v \in Visitors : Enter(v) \/ Leave(v)

Spec == Init /\ [][Next]_inside

=============================================================================
