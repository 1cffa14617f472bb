------------------------------ MODULE Ac3Ledger ------------------------------
(***************************************************************************)
(* The durable AC3 attempt ledger with its budget reservations:            *)
(*   backend/app/services/ac3_attempt_ledger.py   (AttemptLedger)          *)
(*   backend/app/services/ac3_budget_guard.py     (BudgetedDispatchLedger) *)
(*   backend/app/services/ac3_atomic_settlement.py (settle_and_save)       *)
(* over the tables of backend/research_migrations/ac3_attempt_ledger.sql   *)
(* and ac3_budget_guard.sql.                                               *)
(*                                                                         *)
(* Every method is one database transaction that locks the scope row, so   *)
(* every method is one action.  A call whose checks fail raises and rolls  *)
(* back: it is a step that is not enabled.                                 *)
(*                                                                         *)
(* A scope and its frozen suite are in bijection (frozen_sha256 is UNIQUE),*)
(* so a scope stands for both, and a call that presents another digest,    *)
(* contract or reservation is one of the refused calls.  Money is counted  *)
(* in whole units.                                                         *)
(***************************************************************************)
EXTENDS Integers, FiniteSets, FiniteSetsExt

CONSTANTS
  Scopes,       \* ledger scopes, each bound to one frozen suite
  Keys,         \* request keys
  Tests,        \* the eligible (valid, reviewed) questions of a suite
  Answers,      \* provider answers a caller may present
  Costs,        \* costs a provider may report
  Limit,        \* plan['max_new_estimated_usd']
  Reservation,  \* the declared per-request cost
  NoScope, NoTest, NoAnswer, NoCost   \* SQL NULL, one per column type

\* register() refuses a reservation above the limit, money() a non-positive one.
ASSUME BudgetAssumption ==
  /\ Limit \in Nat
  /\ Reservation \in 1..Limit
  /\ Costs \subseteq Nat
  /\ NoCost \notin Nat

\* A request key is a SHA-256 digest.
ASSUME KeysAssumption == IsFiniteSet(Keys)

ASSUME NullAssumption ==
  /\ NoScope \notin Scopes
  /\ NoTest \notin Tests
  /\ NoAnswer \notin Answers

VARIABLES
  scopeStatus,   \* ac3_attempt_scopes.status, "absent" before the row exists
  budgetStatus,  \* ac3_budget_scopes.status, "absent" before the row exists
  spent,         \* ac3_budget_scopes.spent_usd
  receipt,       \* ac3_attempt_receipts with its reservation and evidence rows
  saved          \* TargetResponseModel.response_text, by the receipt it settles

ledgerVars == <<scopeStatus, budgetStatus, spent, receipt, saved>>

Receipt == [scope: Scopes \cup {NoScope}, test: Tests \cup {NoTest},
            status: {"absent", "dispatched", "settled"},
            answer: Answers \cup {NoAnswer}, cost: Costs \cup {NoCost},
            reservation: {"none", "reserved", "settled", "overrun"},
            evidence: {"none", "open", "bound", "unbound"}]

NoReceipt == [scope |-> NoScope, test |-> NoTest, status |-> "absent",
              answer |-> NoAnswer, cost |-> NoCost,
              reservation |-> "none", evidence |-> "none"]

Init ==
  /\ scopeStatus = [s \in Scopes |-> "absent"]
  /\ budgetStatus = [s \in Scopes |-> "absent"]
  /\ spent = [s \in Scopes |-> 0]
  /\ receipt = [k \in Keys |-> NoReceipt]
  /\ saved = [k \in Keys |-> NoAnswer]

----------------------------------------------------------------------------
(* Registration. *)

RegisterReviewedScope(s) ==
  /\ scopeStatus[s] = "absent"
  /\ scopeStatus' = [scopeStatus EXCEPT ![s] = "active"]
  /\ UNCHANGED <<budgetStatus, spent, receipt, saved>>

HasReceipt(s) == \E k \in Keys : receipt[k].scope = s

\* "Budget cannot be added after dispatch."
RegisterBudget(s) ==
  /\ scopeStatus[s] = "active"
  /\ budgetStatus[s] = "absent"
  /\ ~HasReceipt(s)
  /\ budgetStatus' = [budgetStatus EXCEPT ![s] = "active"]
  /\ UNCHANGED <<scopeStatus, spent, receipt, saved>>

----------------------------------------------------------------------------
(* Dispatch. *)

\* The primary key on request_key and UNIQUE (scope_id, test_id), which the
\* budgeted begin also asks for before it inserts.
Unasked(s, k, t) ==
  /\ receipt[k].status = "absent"
  /\ \A j \in Keys : ~(receipt[j].scope = s /\ receipt[j].test = t)

Dispatched(s, t, reservation, evidence) ==
  [scope |-> s, test |-> t, status |-> "dispatched",
   answer |-> NoAnswer, cost |-> NoCost,
   reservation |-> reservation, evidence |-> evidence]

\* Mutant: the scope stays open while its attempt is unresolved.
LeaveScopeActive(s) == scopeStatus' = scopeStatus

BlockScope(s) == scopeStatus' = [scopeStatus EXCEPT ![s] = "unknown"]

\* Mutant: any money left is enough.
AnythingLeft(s) == spent[s] < Limit

ReservationFits(s) == spent[s] + Reservation <= Limit

\* AttemptLedger.begin, for a scope that has no budget.
BeginUnbudgeted(s, k, t) ==
  /\ scopeStatus[s] = "active"
  /\ budgetStatus[s] = "absent"
  /\ Unasked(s, k, t)
  /\ receipt' = [receipt EXCEPT ![k] = Dispatched(s, t, "none", "none")]
  /\ BlockScope(s)
  /\ UNCHANGED <<budgetStatus, spent, saved>>

\* BudgetedDispatchLedger.begin: the reservation must fit in what is left.
BeginBudgeted(s, k, t, evidence) ==
  /\ scopeStatus[s] = "active"
  /\ budgetStatus[s] = "active"
  /\ ReservationFits(s)
  /\ Unasked(s, k, t)
  /\ receipt' = [receipt EXCEPT ![k] = Dispatched(s, t, "reserved", evidence)]
  /\ BlockScope(s)
  /\ UNCHANGED <<budgetStatus, spent, saved>>

----------------------------------------------------------------------------
(* The provider's answer. *)

AwaitsAnswer(s, k) ==
  /\ scopeStatus[s] = "unknown"
  /\ receipt[k].scope = s
  /\ receipt[k].status = "dispatched"
  /\ receipt[k].reservation = "reserved"
  /\ receipt[k].answer = NoAnswer

\* record_pending_response, the call that stores the answer (one that finds it
\* stored changes nothing).  Metadata is verified against the receipt only when
\* the request evidence row exists; it may also be missing or not match.
RecordPending(s, k, a, c, evidence) ==
  /\ AwaitsAnswer(s, k)
  /\ IF receipt[k].evidence = "none"
     THEN evidence = "none"
     ELSE evidence \in {"open", "bound", "unbound"}
  /\ receipt' = [receipt EXCEPT ![k].answer = a, ![k].cost = c,
                                ![k].evidence = evidence]
  /\ UNCHANGED <<scopeStatus, budgetStatus, spent, saved>>

----------------------------------------------------------------------------
(* Settlement. *)

AwaitsSettlement(s, k) ==
  /\ scopeStatus[s] = "unknown"
  /\ receipt[k].scope = s
  /\ receipt[k].status = "dispatched"

\* Mutant: the stored answer is not compared.
MatchesAnything(k, a, c) == TRUE

\* A stored answer can only be settled as it was stored, its cost known.
MatchesPending(k, a, c) ==
  receipt[k].answer # NoAnswer => receipt[k].answer = a /\ receipt[k].cost = c

Settled(r, a, c, reservation) ==
  [r EXCEPT !.status = "settled", !.answer = a, !.cost = c,
            !.reservation = reservation]

\* Mutant: a reserved request may be settled without its answer and its cost.
AnyReservation(k) == TRUE

Unreserved(k) == receipt[k].reservation = "none"

\* AttemptLedger.settle: no answer is saved, and a reserved request is refused.
SettleReceiptOnly(s, k, a, c) ==
  /\ AwaitsSettlement(s, k)
  /\ Unreserved(k)
  /\ receipt' = [receipt EXCEPT ![k] = Settled(@, a, c, @.reservation)]
  /\ scopeStatus' = [scopeStatus EXCEPT ![s] = "active"]
  /\ UNCHANGED <<budgetStatus, spent, saved>>

\* settle_and_save with budgeted = False.
SettleAndSaveUnbudgeted(s, k, a, c) ==
  /\ AwaitsSettlement(s, k)
  /\ Unreserved(k)
  /\ saved[k] = NoAnswer
  /\ MatchesPending(k, a, c)
  /\ saved' = [saved EXCEPT ![k] = a]
  /\ receipt' = [receipt EXCEPT ![k] = Settled(@, a, c, @.reservation)]
  /\ scopeStatus' = [scopeStatus EXCEPT ![s] = "active"]
  /\ UNCHANGED <<budgetStatus, spent>>

\* Mutant: the declared reservation is charged, not the reported cost.
ChargeReservation(s, c) == spent' = [spent EXCEPT ![s] = @ + Reservation]

Charge(s, c) == spent' = [spent EXCEPT ![s] = @ + c]

Overruns(s, c) == c > Reservation \/ spent[s] + c > Limit

\* settle_and_save with budgeted = True: the answer, the receipt, the
\* reservation, the amount spent and both scope rows change together.  After an
\* overrun the attempt scope stays "unknown".
SettleAndSaveBudgeted(s, k, a, c) ==
  /\ AwaitsSettlement(s, k)
  /\ receipt[k].reservation = "reserved"
  /\ receipt[k].evidence \in {"none", "bound"}
  /\ budgetStatus[s] = "active"
  /\ saved[k] = NoAnswer
  /\ MatchesPending(k, a, c)
  /\ saved' = [saved EXCEPT ![k] = a]
  /\ Charge(s, c)
  /\ receipt' = [receipt EXCEPT ![k] =
                   Settled(@, a, c, IF Overruns(s, c) THEN "overrun" ELSE "settled")]
  /\ budgetStatus' = [budgetStatus EXCEPT ![s] =
                        IF Overruns(s, c) THEN "overrun" ELSE "active"]
  /\ scopeStatus' = [scopeStatus EXCEPT ![s] =
                       IF Overruns(s, c) THEN "unknown" ELSE "active"]

----------------------------------------------------------------------------
Register == \E s \in Scopes : RegisterReviewedScope(s) \/ RegisterBudget(s)

Begin ==
  \E s \in Scopes, k \in Keys, t \in Tests :
    \/ BeginUnbudgeted(s, k, t)
    \/ \E evidence \in {"none", "open"} : BeginBudgeted(s, k, t, evidence)

Record ==
  \E s \in Scopes, k \in Keys, a \in Answers, c \in Costs \cup {NoCost},
     evidence \in {"none", "open", "bound", "unbound"} :
    RecordPending(s, k, a, c, evidence)

Settle ==
  \E s \in Scopes, k \in Keys, a \in Answers, c \in Costs :
    \/ SettleReceiptOnly(s, k, a, c)
    \/ SettleAndSaveUnbudgeted(s, k, a, c)
    \/ SettleAndSaveBudgeted(s, k, a, c)

Next == Register \/ Begin \/ Record \/ Settle

Spec == Init /\ [][Next]_ledgerVars

----------------------------------------------------------------------------
(* What the ledger promises. *)

\* Every column holds a value of its type (the CHECK constraints of the schema).
TypeOK ==
  /\ scopeStatus \in [Scopes -> {"absent", "active", "unknown"}]
  /\ budgetStatus \in [Scopes -> {"absent", "active", "overrun"}]
  /\ spent \in [Scopes -> Nat]
  /\ receipt \in [Keys -> Receipt]
  /\ saved \in [Keys -> Answers \cup {NoAnswer}]

Outstanding(s) == {k \in Keys : receipt[k].scope = s /\ receipt[k].status = "dispatched"}

\* A scope is blocked ("unknown") exactly when one attempt of it is unresolved
\* or its budget was overrun, and two attempts of a scope are never unresolved
\* together: "a missing cost or uncertain outcome blocks the whole scope".
OneUnresolvedAttempt ==
  \A s \in Scopes :
    /\ \A j, k \in Outstanding(s) : j = k
    /\ scopeStatus[s] = "unknown" <=> Outstanding(s) # {} \/ budgetStatus[s] = "overrun"

\* No question of a scope is ever bound to two request keys, so none is paid
\* for twice under another identity.
OneRequestPerQuestion ==
  \A j, k \in Keys :
    /\ receipt[j].status # "absent"
    /\ receipt[j].scope = receipt[k].scope
    /\ receipt[j].test = receipt[k].test
    => j = k

\* While no overrun is on record, what was spent and what the unresolved
\* attempt may still cost fit together in the limit.
ReservationsFitLimit ==
  \A s \in Scopes :
    budgetStatus[s] # "overrun" =>
      /\ spent[s] <= Limit
      /\ \A k \in Outstanding(s) :
           receipt[k].reservation = "reserved" => spent[s] + Reservation <= Limit

\* An unbudgeted attempt never exists in a budgeted scope, so spent_usd misses
\* none of its requests.
NoUnreservedAttempt ==
  \A k \in Keys :
    receipt[k].status # "absent" =>
      (receipt[k].reservation = "none" <=> budgetStatus[receipt[k].scope] = "absent")

\* An answer is saved only with its settled receipt, and it is the answer the
\* receipt holds.  A budgeted receipt is settled only with its answer.
SavedMatchesReceipt ==
  \A k \in Keys :
    /\ saved[k] # NoAnswer =>
         receipt[k].status = "settled" /\ receipt[k].answer = saved[k]
    /\ receipt[k].status = "settled" /\ receipt[k].reservation # "none" =>
         saved[k] # NoAnswer

Total(f, S) == FoldFunctionOnSet(+, 0, f, S)

SettledReservations(s) ==
  {k \in Keys : /\ receipt[k].scope = s
                /\ receipt[k].reservation \in {"settled", "overrun"}}

\* spent_usd is the sum of the costs of the scope's settled reservations, no
\* cost counted twice and none missed.
SpentIsSettledCost ==
  \A s \in Scopes :
    spent[s] = Total([k \in Keys |-> receipt[k].cost], SettledReservations(s))

\* The columns of a receipt agree with one another and with the scope rows: the
\* facts that make the promises above inductive.
ReceiptShape ==
  /\ \A s \in Scopes : budgetStatus[s] # "absent" => scopeStatus[s] # "absent"
  /\ \A k \in Keys :
       /\ receipt[k].status = "absent" => receipt[k] = NoReceipt
       /\ receipt[k].status # "absent" =>
            /\ receipt[k].scope \in Scopes
            /\ scopeStatus[receipt[k].scope] # "absent"
       /\ receipt[k].status = "dispatched" =>
            /\ receipt[k].reservation \in {"none", "reserved"}
            /\ budgetStatus[receipt[k].scope] # "overrun"
       /\ receipt[k].status = "settled" =>
            receipt[k].reservation \in {"none", "settled", "overrun"}
       /\ receipt[k].answer # NoAnswer =>
            receipt[k].status = "settled" \/ receipt[k].reservation = "reserved"

\* The inductive invariant.
LedgerInv ==
  /\ TypeOK
  /\ ReceiptShape
  /\ OneUnresolvedAttempt
  /\ OneRequestPerQuestion
  /\ ReservationsFitLimit
  /\ NoUnreservedAttempt
  /\ SavedMatchesReceipt

\* Provider evidence is written once: a recorded answer, its cost and a settled
\* receipt are never changed, whichever call comes later.
KeepsEvidence ==
  \A k \in Keys :
    /\ receipt[k].answer # NoAnswer =>
         receipt'[k].answer = receipt[k].answer /\ receipt'[k].cost = receipt[k].cost
    /\ receipt[k].status = "settled" => receipt'[k] = receipt[k]

EvidenceIsFinal == [][KeepsEvidence]_ledgerVars

\* A changed price stops further dispatch: once a scope's budget is overrun no
\* request of the scope is added or changed any more.
KeepsOverrunScopes ==
  \A s \in Scopes, k \in Keys :
    budgetStatus[s] = "overrun" /\ (receipt[k].scope = s \/ receipt'[k].scope = s) =>
      receipt'[k] = receipt[k]

OverrunStopsScope == [][KeepsOverrunScopes]_ledgerVars

=============================================================================
