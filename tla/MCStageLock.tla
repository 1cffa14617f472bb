---------------------------- MODULE MCStageLock ----------------------------
(* A small instance of StageLock for TLC. *)
EXTENDS StageLock, TLC

CONSTANTS c1, c2, c3

MCClaims == {c1, c2, c3}

\* Two claims are renewed in time; the third may be later than its whole lease.
MCStall == c1 :> 1 @@ c2 :> 1 @@ c3 :> 4

=============================================================================
