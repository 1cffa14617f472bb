------------------------------ MODULE StageLock ------------------------------
(***************************************************************************)
(* The renewable row lease that protects one stage scope when the database *)
(* is not PostgreSQL (backend/app/services/stage_lock.py).                 *)
(*                                                                         *)
(* A claim is one entry into database_stage_lock, with an owner token of   *)
(* its own, made by a stage or by database_stage_busy, which claims the    *)
(* lease to learn whether it is free.  The lease and the heartbeat thread  *)
(* outlive the claim in different ways: a crash ends both and leaves the   *)
(* row, a release deletes the row and may leave one late heartbeat.        *)
(*                                                                         *)
(* Time is kept relative: the row knows how long its lease still runs, a   *)
(* live claim how long ago it was last renewed.  A transaction may compare *)
(* and write a time that was read up to Delay ticks before it committed.   *)
(***************************************************************************)
EXTENDS Integers

CONSTANTS
  Claims,    \* owner tokens
  NoClaim,
  Lease,     \* _LEASE_DURATION, in ticks
  Delay,     \* how old the clock reading of a transaction may be
  Stall      \* how long the renewal of each live claim may be overdue

ASSUME TokenAssumption == NoClaim \notin Claims
ASSUME TimeAssumption == Lease \in Nat /\ Delay \in Nat /\ Stall \in [Claims -> Nat] /\ Delay < Lease

VARIABLES
  owner,     \* owner_token of the row, NoClaim when there is no row
  left,      \* time until lease_expires_at
  state,     \* where each claim is
  beat,      \* its heartbeat thread
  since      \* the age of the last renewal of each claim

leaseVars == <<owner, left, state, beat, since>>

States == {"free", "held", "refused"}
Beats == {"off", "on", "late"}

LeaseTypeOK ==
  /\ owner \in Claims \cup {NoClaim}
  /\ left \in -Delay..Lease
  /\ state \in [Claims -> States]
  /\ beat \in [Claims -> Beats]
  /\ since \in [Claims -> Nat]
  /\ \A c \in Claims : since[c] <= Stall[c]

LeaseInit ==
  /\ owner = NoClaim
  /\ left = 0
  /\ state = [c \in Claims |-> "free"]
  /\ beat = [c \in Claims |-> "off"]
  /\ since = [c \in Claims |-> 0]

----------------------------------------------------------------------------
\* A token that neither the row nor a thread knows.
Fresh(c) == state[c] = "free" /\ beat[c] = "off" /\ owner # c

\* Mutant: the lease is taken for expired while its last tick still runs.
ExpiredEarly(lag) == left <= Delay + 1

\* lease_expires_at <= now, for a now that was read lag ticks ago.
Expired(lag) == left <= -lag

\* Delete an expired row and insert the own one, in one transaction.
Claim(c, lag) ==
  /\ Fresh(c)
  /\ owner = NoClaim \/ Expired(lag)
  /\ owner' = c
  /\ left' = Lease - lag
  /\ state' = [state EXCEPT ![c] = "held"]
  /\ beat' = [beat EXCEPT ![c] = "on"]
  /\ since' = [since EXCEPT ![c] = 0]

\* The insert meets the primary key: IntegrityError, answered 409.
Refuse(c, lag) ==
  /\ Fresh(c)
  /\ owner # NoClaim /\ ~Expired(lag)
  /\ state' = [state EXCEPT ![c] = "refused"]
  /\ UNCHANGED <<owner, left, beat, since>>

Forget(c) ==
  /\ state[c] = "refused"
  /\ state' = [state EXCEPT ![c] = "free"]
  /\ UNCHANGED <<owner, left, beat, since>>

\* Mutant: the row of the scope is renewed whoever owns it.
RenewScope(c, lag) ==
  /\ beat[c] # "off"
  /\ beat' = IF beat[c] = "late" THEN [beat EXCEPT ![c] = "off"] ELSE beat
  /\ since' = [since EXCEPT ![c] = 0]
  /\ left' = IF owner # NoClaim THEN Lease - lag ELSE left
  /\ UNCHANGED <<owner, state>>

\* One heartbeat.  Only the own row is renewed; when it is gone the thread ends,
\* and nothing tells the stage.
Renew(c, lag) ==
  /\ beat[c] # "off"
  /\ IF owner = c
     THEN left' = Lease - lag /\ beat' = IF beat[c] = "late" THEN [beat EXCEPT ![c] = "off"] ELSE beat
     ELSE UNCHANGED left /\ beat' = [beat EXCEPT ![c] = "off"]
  /\ since' = [since EXCEPT ![c] = 0]
  /\ UNCHANGED <<owner, state>>

\* Only the own row is deleted, and an error of the database leaves it.
Released(c) == IF owner = c THEN {NoClaim, c} ELSE {owner}

\* The stage has ended.  The heartbeat is told to stop and joined for a while, so
\* a renewal under way may still come.
Release(c) ==
  /\ state[c] = "held"
  /\ state' = [state EXCEPT ![c] = "free"]
  /\ owner' \in Released(c)
  /\ beat' \in {[beat EXCEPT ![c] = b] : b \in IF beat[c] = "on" THEN {"off", "late"} ELSE {"off"}}
  /\ UNCHANGED <<left, since>>

\* The process of the claim dies, its heartbeat with it.
Crash(c) ==
  /\ state[c] = "held" \/ beat[c] # "off"
  /\ state' = [state EXCEPT ![c] = "free"]
  /\ beat' = [beat EXCEPT ![c] = "off"]
  /\ UNCHANGED <<owner, left, since>>

\* The renewal of a claim is never overdue by more than its Stall.
Tick ==
  /\ \A c \in Claims : beat[c] = "on" => since[c] < Stall[c]
  /\ left' = IF left > -Delay THEN left - 1 ELSE left
  /\ since' = [c \in Claims |-> IF beat[c] = "on" THEN since[c] + 1 ELSE 0]
  /\ UNCHANGED <<owner, state, beat>>

LeaseNext ==
  \/ \E c \in Claims, lag \in 0..Delay :
       Claim(c, lag) \/ Refuse(c, lag) \/ Renew(c, lag)
  \/ \E c \in Claims : Forget(c) \/ Release(c) \/ Crash(c)
  \/ Tick

LeaseSpec == LeaseInit /\ [][LeaseNext]_leaseVars

----------------------------------------------------------------------------
(* What the lease gives. *)

\* The lease of a claim outlasts its latest renewal, made with the oldest time.
Punctual(c) == Delay + Stall[c] < Lease

\* A stage whose heartbeats come in time owns the row until it ends, however late
\* the others are: two such stages are never in the protected section together.
PunctualHolderKeepsRow == \A c \in Claims : Punctual(c) /\ state[c] = "held" => owner = c

\* Of the claims that renew in time, one at a time is in the protected stage,
\* whatever the others and the crashes do: what the routes take a lock for.
Section == INSTANCE OneAtATime WITH
  Visitors <- {c \in Claims : Punctual(c)},
  inside <- {c \in Claims : Punctual(c) /\ state[c] = "held"}

ImplementsOneAtATime == Section!Spec

\* A row changes hands only by its owner's release or when its lease is over,
\* however late the heartbeats are.
TakenOverOnlyExpired ==
  [][\A c \in Claims : owner = c /\ owner' # c =>
       left <= 0 \/ (state[c] = "held" /\ state'[c] = "free")]_leaseVars

\* A claim that has lost the row never gets it back: neither a late heartbeat nor
\* a late release touches the row of the next owner.
NeverBack ==
  [][\A c \in Claims : owner # c /\ ~Fresh(c) => owner' # c]_leaseVars

\* A claim whose process is gone does not exclude others for ever.
LeaseFairSpec ==
  /\ LeaseSpec /\ WF_leaseVars(Tick)
  /\ \A c \in Claims : WF_leaseVars(\E lag \in 0..Delay : Renew(c, lag))

AbandonedLeaseEnds ==
  \A c \in Claims : owner = c /\ state[c] = "free" ~> owner # c \/ left <= 0

=============================================================================
