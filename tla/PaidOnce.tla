------------------------------- MODULE PaidOnce -------------------------------
(***************************************************************************)
(* What a controlled AC3 study promises about its provider calls: a        *)
(* question is claimed before it is called, is called at most once whatever*)
(* fails, and nothing else of its scope is claimed until it is answered.   *)
(* A claim that never gets its answer is never given up and never repeated.*)
(* Ac3Runner implements this specification.                                *)
(***************************************************************************)
EXTENDS Naturals

CONSTANTS Scopes, Tests

VARIABLES
  phase,   \* of every question of every scope
  calls,   \* provider calls made for it
  halted   \* scopes that may claim nothing more

Init ==
  /\ phase = [q \in Scopes \X Tests |-> "open"]
  /\ calls = [q \in Scopes \X Tests |-> 0]
  /\ halted = [s \in Scopes |-> FALSE]

Claim(s, t) ==
  /\ ~halted[s]
  /\ phase[<<s, t>>] = "open"
  /\ \A u \in Tests : phase[<<s, u>>] \in {"open", "answered"}
  /\ phase' = [phase EXCEPT ![<<s, t>>] = "claimed"]
  /\ UNCHANGED <<calls, halted>>

Call(s, t) ==
  /\ phase[<<s, t>>] = "claimed"
  /\ phase' = [phase EXCEPT ![<<s, t>>] = "called"]
  /\ calls' = [calls EXCEPT ![<<s, t>>] = @ + 1]
  /\ UNCHANGED halted

Answer(s, t) ==
  /\ phase[<<s, t>>] = "called"
  /\ phase' = [phase EXCEPT ![<<s, t>>] = "answered"]
  /\ \E over \in BOOLEAN : halted' = [halted EXCEPT ![s] = over]
  /\ UNCHANGED calls

Next == \E s \in Scopes, t \in Tests : Claim(s, t) \/ Call(s, t) \/ Answer(s, t)

Spec == Init /\ [][Next]_<<phase, calls, halted>>

=============================================================================
