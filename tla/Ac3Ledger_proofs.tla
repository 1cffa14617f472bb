--------------------------- MODULE Ac3Ledger_proofs ---------------------------
(* Proofs about Ac3Ledger, for any sets of scopes, keys, questions, answers   *)
(* and costs, and any limit and reservation; and about Ac3Runner, the         *)
(* controlled run on top of it, for any workers.                             *)
EXTENDS Ac3Runner, FiniteSetTheorems, TLAPS

\* The rows of a receipt that a dispatch or a settlement writes have the type
\* of a receipt.
LEMMA DispatchedType ==
  ASSUME NEW s \in Scopes, NEW t \in Tests,
         NEW r \in {"none", "reserved"}, NEW e \in {"none", "open"}
  PROVE  Dispatched(s, t, r, e) \in Receipt
  BY DEF Dispatched, Receipt

\* A settled receipt keeps its identity and takes the answer and the cost.
LEMMA SettledType ==
  ASSUME NEW q \in Receipt, NEW a \in Answers, NEW c \in Costs,
         NEW r \in {"none", "settled", "overrun"}
  PROVE  /\ Settled(q, a, c, r) \in Receipt
         /\ Settled(q, a, c, r).scope = q.scope
         /\ Settled(q, a, c, r).test = q.test
         /\ Settled(q, a, c, r).status = "settled"
         /\ Settled(q, a, c, r).answer = a
         /\ Settled(q, a, c, r).cost = c
         /\ Settled(q, a, c, r).reservation = r
         /\ Settled(q, a, c, r).evidence = q.evidence
  BY DEF Settled, Receipt

\* The initial state satisfies the inductive invariant.
LEMMA InitInv == Init => LedgerInv
  BY BudgetAssumption, NullAssumption
  DEF Init, LedgerInv, TypeOK, Receipt, NoReceipt, ReceiptShape,
      OneUnresolvedAttempt, Outstanding, OneRequestPerQuestion,
      ReservationsFitLimit, NoUnreservedAttempt, SavedMatchesReceipt

----------------------------------------------------------------------------
(* Registration leaves the receipts alone. *)

\* register_reviewed_scope preserves the invariant.
LEMMA RegisterReviewedScopeInv ==
  ASSUME LedgerInv, NEW s \in Scopes, RegisterReviewedScope(s)
  PROVE  LedgerInv'
  BY BudgetAssumption, NullAssumption
  DEF RegisterReviewedScope, LedgerInv, TypeOK, ReceiptShape, NoReceipt,
      OneUnresolvedAttempt, Outstanding, OneRequestPerQuestion,
      ReservationsFitLimit, NoUnreservedAttempt, SavedMatchesReceipt

\* register preserves the invariant: the scope has no receipt yet.
LEMMA RegisterBudgetInv ==
  ASSUME LedgerInv, NEW s \in Scopes, RegisterBudget(s)
  PROVE  LedgerInv'
  BY BudgetAssumption, NullAssumption
  DEF RegisterBudget, HasReceipt, LedgerInv, TypeOK, ReceiptShape, NoReceipt,
      OneUnresolvedAttempt, Outstanding, OneRequestPerQuestion,
      ReservationsFitLimit, NoUnreservedAttempt, SavedMatchesReceipt

----------------------------------------------------------------------------
(* A dispatch adds one receipt to a scope that has none outstanding. *)

\* The plain begin preserves the invariant.
LEMMA BeginUnbudgetedInv ==
  ASSUME LedgerInv, NEW s \in Scopes, NEW k \in Keys, NEW t \in Tests,
         BeginUnbudgeted(s, k, t)
  PROVE  LedgerInv'
<1> DEFINE r == Dispatched(s, t, "none", "none")
<1>1. /\ r \in Receipt
      /\ r.scope = s /\ r.test = t /\ r.status = "dispatched"
      /\ r.answer = NoAnswer /\ r.reservation = "none"
  BY DispatchedType DEF Dispatched
<1>2. receipt' = [receipt EXCEPT ![k] = r]
  BY DEF BeginUnbudgeted
<1> HIDE DEF r
<1> USE DEF LedgerInv
<1>3. TypeOK'
  BY <1>1, <1>2 DEF BeginUnbudgeted, BlockScope, TypeOK
<1>4. ReceiptShape'
  BY <1>1, <1>2 DEF BeginUnbudgeted, BlockScope, TypeOK, ReceiptShape, Unasked
<1>5. OneUnresolvedAttempt'
  <2>1. Outstanding(s) = {}
    BY DEF BeginUnbudgeted, OneUnresolvedAttempt
  <2>2. Outstanding(s)' = {k}
    BY <1>1, <1>2, <2>1 DEF TypeOK, Outstanding
  <2>3. ASSUME NEW q \in Scopes, q # s
        PROVE  Outstanding(q)' = Outstanding(q)
    BY <1>1, <1>2, <2>3, NullAssumption
    DEF BeginUnbudgeted, TypeOK, ReceiptShape, NoReceipt, Unasked, Outstanding
  <2>4. scopeStatus' = [scopeStatus EXCEPT ![s] = "unknown"] /\ budgetStatus' = budgetStatus
    BY DEF BeginUnbudgeted, BlockScope
  <2> QED BY <2>2, <2>3, <2>4 DEF TypeOK, OneUnresolvedAttempt
<1>6. OneRequestPerQuestion'
  BY <1>1, <1>2 DEF BeginUnbudgeted, TypeOK, ReceiptShape, OneRequestPerQuestion, Unasked
<1>7. ReservationsFitLimit'
  BY <1>1, <1>2 DEF BeginUnbudgeted, BlockScope, TypeOK, ReservationsFitLimit, Outstanding
<1>8. NoUnreservedAttempt'
  BY <1>1, <1>2 DEF BeginUnbudgeted, BlockScope, TypeOK, NoUnreservedAttempt
<1>9. SavedMatchesReceipt'
  BY <1>1, <1>2 DEF BeginUnbudgeted, TypeOK, SavedMatchesReceipt, Unasked
<1> QED BY <1>3, <1>4, <1>5, <1>6, <1>7, <1>8, <1>9

\* The budgeted begin preserves the invariant: its reservation fits.
LEMMA BeginBudgetedInv ==
  ASSUME LedgerInv, NEW s \in Scopes, NEW k \in Keys, NEW t \in Tests,
         NEW e \in {"none", "open"}, BeginBudgeted(s, k, t, e)
  PROVE  LedgerInv'
<1> DEFINE r == Dispatched(s, t, "reserved", e)
<1>1. /\ r \in Receipt
      /\ r.scope = s /\ r.test = t /\ r.status = "dispatched"
      /\ r.answer = NoAnswer /\ r.reservation = "reserved"
  BY DispatchedType DEF Dispatched
<1>2. receipt' = [receipt EXCEPT ![k] = r]
  BY DEF BeginBudgeted
<1> HIDE DEF r
<1> USE DEF LedgerInv
<1>3. TypeOK'
  BY <1>1, <1>2 DEF BeginBudgeted, BlockScope, TypeOK
<1>4. ReceiptShape'
  BY <1>1, <1>2 DEF BeginBudgeted, BlockScope, TypeOK, ReceiptShape, Unasked
<1>5. OneUnresolvedAttempt'
  <2>1. Outstanding(s) = {}
    BY DEF BeginBudgeted, OneUnresolvedAttempt
  <2>2. Outstanding(s)' = {k}
    BY <1>1, <1>2, <2>1 DEF TypeOK, Outstanding
  <2>3. ASSUME NEW q \in Scopes, q # s
        PROVE  Outstanding(q)' = Outstanding(q)
    BY <1>1, <1>2, <2>3, NullAssumption
    DEF BeginBudgeted, TypeOK, ReceiptShape, NoReceipt, Unasked, Outstanding
  <2>4. scopeStatus' = [scopeStatus EXCEPT ![s] = "unknown"] /\ budgetStatus' = budgetStatus
    BY DEF BeginBudgeted, BlockScope
  <2> QED BY <2>2, <2>3, <2>4 DEF TypeOK, OneUnresolvedAttempt
<1>6. OneRequestPerQuestion'
  BY <1>1, <1>2 DEF BeginBudgeted, TypeOK, ReceiptShape, OneRequestPerQuestion, Unasked
<1>7. ReservationsFitLimit'
  BY <1>1, <1>2, BudgetAssumption
  DEF BeginBudgeted, BlockScope, ReservationFits, TypeOK, ReservationsFitLimit, Outstanding
<1>8. NoUnreservedAttempt'
  BY <1>1, <1>2 DEF BeginBudgeted, BlockScope, TypeOK, NoUnreservedAttempt
<1>9. SavedMatchesReceipt'
  BY <1>1, <1>2 DEF BeginBudgeted, TypeOK, SavedMatchesReceipt, Unasked
<1> QED BY <1>3, <1>4, <1>5, <1>6, <1>7, <1>8, <1>9

----------------------------------------------------------------------------
(* A stored answer changes neither the status of a receipt nor a scope. *)

\* record_pending_response preserves the invariant.
LEMMA RecordPendingInv ==
  ASSUME LedgerInv, NEW s \in Scopes, NEW k \in Keys, NEW a \in Answers,
         NEW c \in Costs \cup {NoCost},
         NEW e \in {"none", "open", "bound", "unbound"},
         RecordPending(s, k, a, c, e)
  PROVE  LedgerInv'
<1> DEFINE r == [receipt[k] EXCEPT !.answer = a, !.cost = c, !.evidence = e]
<1>1. /\ r \in Receipt
      /\ r.scope = receipt[k].scope /\ r.test = receipt[k].test
      /\ r.status = "dispatched" /\ receipt[k].status = "dispatched"
      /\ r.reservation = "reserved" /\ receipt[k].reservation = "reserved"
  BY DEF RecordPending, AwaitsAnswer, LedgerInv, TypeOK, Receipt
<1>2. receipt' = [receipt EXCEPT ![k] = r]
  BY DEF RecordPending, AwaitsAnswer, LedgerInv, TypeOK, Receipt
<1>3. UNCHANGED <<scopeStatus, budgetStatus, spent, saved>>
  BY DEF RecordPending
<1> HIDE DEF r
<1> USE DEF LedgerInv
<1>4. ASSUME NEW q \in Scopes
      PROVE  Outstanding(q)' = Outstanding(q)
  BY <1>1, <1>2 DEF TypeOK, Outstanding
<1>5. TypeOK'
  BY <1>1, <1>2, <1>3 DEF TypeOK
<1>6. ReceiptShape'
  BY <1>1, <1>2, <1>3 DEF TypeOK, ReceiptShape
<1>7. OneUnresolvedAttempt'
  BY <1>3, <1>4 DEF OneUnresolvedAttempt
<1>8. OneRequestPerQuestion'
  BY <1>1, <1>2 DEF TypeOK, OneRequestPerQuestion
<1>9. ReservationsFitLimit'
  BY <1>1, <1>2, <1>3, <1>4 DEF TypeOK, ReservationsFitLimit
<1>10. NoUnreservedAttempt'
  BY <1>1, <1>2, <1>3 DEF TypeOK, NoUnreservedAttempt
<1>11. SavedMatchesReceipt'
  BY <1>1, <1>2, <1>3 DEF TypeOK, SavedMatchesReceipt
<1> QED BY <1>5, <1>6, <1>7, <1>8, <1>9, <1>10, <1>11

----------------------------------------------------------------------------
(* A settlement resolves the one outstanding attempt of its scope. *)

\* The plain settle preserves the invariant.
LEMMA SettleReceiptOnlyInv ==
  ASSUME LedgerInv, NEW s \in Scopes, NEW k \in Keys, NEW a \in Answers,
         NEW c \in Costs, SettleReceiptOnly(s, k, a, c)
  PROVE  LedgerInv'
<1> DEFINE r == Settled(receipt[k], a, c, "none")
<1>1. /\ r \in Receipt
      /\ r.scope = s /\ r.test = receipt[k].test /\ r.status = "settled"
      /\ r.answer = a /\ r.reservation = "none"
  BY SettledType DEF SettleReceiptOnly, Unreserved, AwaitsSettlement, LedgerInv, TypeOK
<1>2. receipt' = [receipt EXCEPT ![k] = r]
  BY DEF SettleReceiptOnly, Unreserved, LedgerInv, TypeOK
<1> HIDE DEF r
<1> USE DEF LedgerInv, AwaitsSettlement
<1>3. TypeOK'
  BY <1>1, <1>2 DEF SettleReceiptOnly, TypeOK
<1>4. ReceiptShape'
  BY <1>1, <1>2 DEF SettleReceiptOnly, Unreserved, TypeOK, ReceiptShape
<1>5. OneUnresolvedAttempt'
  <2>1. Outstanding(s) = {k}
    BY DEF SettleReceiptOnly, OneUnresolvedAttempt, Outstanding
  <2>2. Outstanding(s)' = {}
    BY <1>1, <1>2, <2>1 DEF TypeOK, Outstanding
  <2>3. ASSUME NEW q \in Scopes, q # s
        PROVE  Outstanding(q)' = Outstanding(q)
    BY <1>1, <1>2, <2>3 DEF SettleReceiptOnly, TypeOK, Outstanding
  <2>4. budgetStatus[s] = "absent"
    BY DEF SettleReceiptOnly, Unreserved, NoUnreservedAttempt
  <2>5. scopeStatus' = [scopeStatus EXCEPT ![s] = "active"] /\ budgetStatus' = budgetStatus
    BY DEF SettleReceiptOnly
  <2> QED BY <2>2, <2>3, <2>4, <2>5 DEF TypeOK, OneUnresolvedAttempt
<1>6. OneRequestPerQuestion'
  BY <1>1, <1>2 DEF SettleReceiptOnly, TypeOK, OneRequestPerQuestion
<1>7. ReservationsFitLimit'
  BY <1>1, <1>2 DEF SettleReceiptOnly, TypeOK, ReservationsFitLimit, Outstanding
<1>8. NoUnreservedAttempt'
  BY <1>1, <1>2 DEF SettleReceiptOnly, Unreserved, TypeOK, NoUnreservedAttempt
<1>9. SavedMatchesReceipt'
  BY <1>1, <1>2, NullAssumption DEF SettleReceiptOnly, Unreserved, TypeOK, SavedMatchesReceipt
<1> QED BY <1>3, <1>4, <1>5, <1>6, <1>7, <1>8, <1>9

\* settle_and_save without a budget preserves the invariant.
LEMMA SettleAndSaveUnbudgetedInv ==
  ASSUME LedgerInv, NEW s \in Scopes, NEW k \in Keys, NEW a \in Answers,
         NEW c \in Costs, SettleAndSaveUnbudgeted(s, k, a, c)
  PROVE  LedgerInv'
<1> DEFINE r == Settled(receipt[k], a, c, "none")
<1>1. /\ r \in Receipt
      /\ r.scope = s /\ r.test = receipt[k].test /\ r.status = "settled"
      /\ r.answer = a /\ r.reservation = "none"
  BY SettledType DEF SettleAndSaveUnbudgeted, Unreserved, AwaitsSettlement, LedgerInv, TypeOK
<1>2. receipt' = [receipt EXCEPT ![k] = r]
  BY DEF SettleAndSaveUnbudgeted, Unreserved, LedgerInv, TypeOK
<1> HIDE DEF r
<1> USE DEF LedgerInv, AwaitsSettlement
<1>3. TypeOK'
  BY <1>1, <1>2 DEF SettleAndSaveUnbudgeted, TypeOK
<1>4. ReceiptShape'
  BY <1>1, <1>2 DEF SettleAndSaveUnbudgeted, Unreserved, TypeOK, ReceiptShape
<1>5. OneUnresolvedAttempt'
  <2>1. Outstanding(s) = {k}
    BY DEF SettleAndSaveUnbudgeted, OneUnresolvedAttempt, Outstanding
  <2>2. Outstanding(s)' = {}
    BY <1>1, <1>2, <2>1 DEF TypeOK, Outstanding
  <2>3. ASSUME NEW q \in Scopes, q # s
        PROVE  Outstanding(q)' = Outstanding(q)
    BY <1>1, <1>2, <2>3 DEF SettleAndSaveUnbudgeted, TypeOK, Outstanding
  <2>4. budgetStatus[s] = "absent"
    BY DEF SettleAndSaveUnbudgeted, Unreserved, NoUnreservedAttempt
  <2>5. scopeStatus' = [scopeStatus EXCEPT ![s] = "active"] /\ budgetStatus' = budgetStatus
    BY DEF SettleAndSaveUnbudgeted
  <2> QED BY <2>2, <2>3, <2>4, <2>5 DEF TypeOK, OneUnresolvedAttempt
<1>6. OneRequestPerQuestion'
  BY <1>1, <1>2 DEF SettleAndSaveUnbudgeted, TypeOK, OneRequestPerQuestion
<1>7. ReservationsFitLimit'
  BY <1>1, <1>2 DEF SettleAndSaveUnbudgeted, TypeOK, ReservationsFitLimit, Outstanding
<1>8. NoUnreservedAttempt'
  BY <1>1, <1>2 DEF SettleAndSaveUnbudgeted, Unreserved, TypeOK, NoUnreservedAttempt
<1>9. SavedMatchesReceipt'
  BY <1>1, <1>2, NullAssumption DEF SettleAndSaveUnbudgeted, Unreserved, TypeOK, SavedMatchesReceipt
<1> QED BY <1>3, <1>4, <1>5, <1>6, <1>7, <1>8, <1>9

\* settle_and_save with a budget preserves the invariant, overrun or not.
LEMMA SettleAndSaveBudgetedInv ==
  ASSUME LedgerInv, NEW s \in Scopes, NEW k \in Keys, NEW a \in Answers,
         NEW c \in Costs, SettleAndSaveBudgeted(s, k, a, c)
  PROVE  LedgerInv'
<1> DEFINE over == Overruns(s, c)
           r == Settled(receipt[k], a, c, IF over THEN "overrun" ELSE "settled")
<1>1. /\ r \in Receipt
      /\ r.scope = s /\ r.test = receipt[k].test /\ r.status = "settled"
      /\ r.answer = a /\ r.reservation \in {"settled", "overrun"}
  BY SettledType DEF SettleAndSaveBudgeted, AwaitsSettlement, LedgerInv, TypeOK
<1>2. receipt' = [receipt EXCEPT ![k] = r]
  BY DEF SettleAndSaveBudgeted, LedgerInv, TypeOK
<1>3. /\ saved' = [saved EXCEPT ![k] = a]
      /\ spent' = [spent EXCEPT ![s] = @ + c]
      /\ budgetStatus' = [budgetStatus EXCEPT ![s] = IF over THEN "overrun" ELSE "active"]
      /\ scopeStatus' = [scopeStatus EXCEPT ![s] = IF over THEN "unknown" ELSE "active"]
  BY DEF SettleAndSaveBudgeted, Charge
<1>4. /\ scopeStatus[s] = "unknown" /\ budgetStatus[s] = "active"
      /\ receipt[k].scope = s /\ receipt[k].status = "dispatched"
      /\ receipt[k].reservation = "reserved"
  BY DEF SettleAndSaveBudgeted, AwaitsSettlement
<1>5. spent[s] \in Nat /\ c \in Nat /\ spent[s] + c \in Nat
  BY BudgetAssumption DEF LedgerInv, TypeOK
<1>6. ~over => spent[s] + c <= Limit
  BY <1>5, BudgetAssumption DEF Overruns
<1> HIDE DEF r, over
<1> USE DEF LedgerInv
<1>7. TypeOK'
  BY <1>1, <1>2, <1>3, <1>5 DEF TypeOK
<1>8. ReceiptShape'
  BY <1>1, <1>2, <1>3, <1>4 DEF TypeOK, ReceiptShape, OneUnresolvedAttempt, Outstanding
<1>9. /\ Outstanding(s)' = {}
      /\ \A q \in Scopes : q # s => Outstanding(q)' = Outstanding(q)
  <2>1. Outstanding(s) = {k}
    BY <1>4 DEF OneUnresolvedAttempt, Outstanding
  <2>2. Outstanding(s)' = {}
    BY <1>1, <1>2, <2>1 DEF TypeOK, Outstanding
  <2>3. ASSUME NEW q \in Scopes, q # s
        PROVE  Outstanding(q)' = Outstanding(q)
    BY <1>1, <1>2, <1>4, <2>3 DEF TypeOK, Outstanding
  <2> QED BY <2>2, <2>3
<1>10. OneUnresolvedAttempt'
  BY <1>3, <1>9 DEF TypeOK, OneUnresolvedAttempt
<1>11. OneRequestPerQuestion'
  BY <1>1, <1>2, <1>4 DEF TypeOK, OneRequestPerQuestion
<1>12. ReservationsFitLimit'
  <2>1. ASSUME NEW q \in Scopes, budgetStatus'[q] # "overrun"
        PROVE  /\ spent'[q] <= Limit
               /\ \A j \in Outstanding(q)' :
                    receipt'[j].reservation = "reserved" => spent'[q] + Reservation <= Limit
    <3>1. CASE q = s
      BY <1>3, <1>6, <1>9, <2>1, <3>1 DEF TypeOK
    <3>2. CASE q # s
      <4>1. /\ spent'[q] = spent[q] /\ budgetStatus[q] # "overrun"
            /\ Outstanding(q)' = Outstanding(q)
        BY <1>3, <1>9, <2>1, <3>2 DEF TypeOK
      <4>2. \A j \in Outstanding(q) : receipt'[j] = receipt[j]
        BY <1>2, <1>4, <3>2 DEF TypeOK, Outstanding
      <4> QED BY <4>1, <4>2 DEF ReservationsFitLimit
    <3> QED BY <3>1, <3>2
  <2> QED BY <2>1 DEF ReservationsFitLimit
<1>13. NoUnreservedAttempt'
  BY <1>1, <1>2, <1>3, <1>4 DEF TypeOK, ReceiptShape, NoUnreservedAttempt
<1>14. SavedMatchesReceipt'
  BY <1>1, <1>2, <1>3, <1>4, NullAssumption DEF TypeOK, SavedMatchesReceipt
<1> QED BY <1>7, <1>8, <1>10, <1>11, <1>12, <1>13, <1>14

----------------------------------------------------------------------------
(* The invariant of the ledger, and what follows from it. *)

\* Every step of the ledger preserves the invariant.
LEMMA NextInv == LedgerInv /\ [Next]_ledgerVars => LedgerInv'
<1> SUFFICES ASSUME LedgerInv, [Next]_ledgerVars
             PROVE  LedgerInv'
  OBVIOUS
<1>1. CASE Register
  BY <1>1, RegisterReviewedScopeInv, RegisterBudgetInv DEF Register
<1>2. CASE Begin
  BY <1>2, BeginUnbudgetedInv, BeginBudgetedInv DEF Begin
<1>3. CASE Record
  BY <1>3, RecordPendingInv DEF Record
<1>4. CASE Settle
  BY <1>4, SettleReceiptOnlyInv, SettleAndSaveUnbudgetedInv, SettleAndSaveBudgetedInv
  DEF Settle
<1>5. CASE UNCHANGED ledgerVars
  BY <1>5 DEF ledgerVars, LedgerInv, TypeOK, ReceiptShape, OneUnresolvedAttempt,
      Outstanding, OneRequestPerQuestion, ReservationsFitLimit,
      NoUnreservedAttempt, SavedMatchesReceipt
<1> QED BY <1>1, <1>2, <1>3, <1>4, <1>5 DEF Next

\* Every reachable state of the ledger satisfies the inductive invariant.
THEOREM LedgerInvariant == Spec => []LedgerInv
  BY InitInv, NextInv, PTL DEF Spec

\* The columns of the ledger always hold values of their types.
THEOREM TypeCorrect == Spec => []TypeOK
  BY LedgerInvariant, PTL DEF LedgerInv

\* At most one attempt of a scope is ever unresolved, and the scope is blocked
\* exactly while one is or its budget was overrun.
THEOREM AttemptsAreSerial == Spec => []OneUnresolvedAttempt
  BY LedgerInvariant, PTL DEF LedgerInv

\* A question of a scope is never bound to two request keys.
THEOREM QuestionsAskedOnce == Spec => []OneRequestPerQuestion
  BY LedgerInvariant, PTL DEF LedgerInv

\* Until an overrun is on record, the amount spent and the outstanding
\* reservation together stay within the limit.
THEOREM BudgetIsKept == Spec => []ReservationsFitLimit
  BY LedgerInvariant, PTL DEF LedgerInv

\* Saved answers and settled receipts agree.
THEOREM SavedAnswersAgree == Spec => []SavedMatchesReceipt
  BY LedgerInvariant, PTL DEF LedgerInv

\* Every attempt of a budgeted scope has a reservation, and no other has one.
THEOREM AttemptsAreReserved == Spec => []NoUnreservedAttempt
  BY LedgerInvariant, PTL DEF LedgerInv

(******************************************************************************)
(* Sums over a finite set.  Total is a fold: a function that is defined by    *)
(* recursion over the subsets of the set.  A set of subsets has a smallest    *)
(* member, so a fact that fails of some subset fails of a smallest one.       *)
(* (Ac3Paired_proofs needs the same facts of its own sums.)                   *)
(******************************************************************************)

Pick(s) == CHOOSE x \in s : TRUE

\* g[s] is the sum of f over s, for every subset s of S.
SumsOver(f, g, S) ==
  g = [s \in SUBSET S |-> IF s = {} THEN 0 ELSE f[Pick(s)] + g[s \ {Pick(s)}]]

SumsBelow(f, S) == CHOOSE g : SumsOver(f, g, S)

\* The element a fold takes out of a set is one of it.
LEMMA PickIn == ASSUME NEW s, s # {} PROVE Pick(s) \in s
  BY DEF Pick

\* Some set of a nonempty set of subsets of S contains no other of them.
LEMMA Smallest ==
  ASSUME NEW S, IsFiniteSet(S), NEW T, T \subseteq SUBSET S, T # {}
  PROVE  \E s \in T : \A r \in T : r \subseteq s => r = s
<1>1. IsWellFoundedOn(StrictSubsetOrdering(S), SUBSET S)
  BY FS_StrictSubsetOrderingWellFounded, FS_FiniteSubsetsOfFinite
<1>2. PICK s \in T : \A r \in T : ~(<<r, s>> \in StrictSubsetOrdering(S))
  BY <1>1, WFMin
<1> QED BY <1>2 DEF StrictSubsetOrdering

\* The sums over the subsets of a set do not depend on the set.
LEMMA SumsUnique ==
  ASSUME NEW f, NEW g, NEW h, NEW S, IsFiniteSet(S), NEW R,
         SumsOver(f, g, S), SumsOver(f, h, R)
  PROVE  \A s \in SUBSET (S \cap R) : g[s] = h[s]
<1> DEFINE T == {s \in SUBSET (S \cap R) : g[s] # h[s]}
<1> SUFFICES ASSUME T # {} PROVE FALSE
  OBVIOUS
<1>1. T \subseteq SUBSET S
  OBVIOUS
<1> HIDE DEF T
<1>2. PICK s \in T : \A r \in T : r \subseteq s => r = s
  BY <1>1, Smallest
<1> USE DEF T
<1>3. g[s] = (IF s = {} THEN 0 ELSE f[Pick(s)] + g[s \ {Pick(s)}])
  BY <1>2 DEF SumsOver
<1>4. h[s] = (IF s = {} THEN 0 ELSE f[Pick(s)] + h[s \ {Pick(s)}])
  BY <1>2 DEF SumsOver
<1>5. s # {} => g[s \ {Pick(s)}] = h[s \ {Pick(s)}]
  BY <1>2, PickIn
<1> QED BY <1>2, <1>3, <1>4, <1>5

\* The recursive definition of a sum has a solution.
LEMMA SumsExist ==
  ASSUME NEW f, NEW S, IsFiniteSet(S)
  PROVE  \E g : SumsOver(f, g, S)
<1> DEFINE T == {s \in SUBSET S : ~\E g : SumsOver(f, g, s)}
<1> SUFFICES ASSUME T # {} PROVE FALSE
  OBVIOUS
<1>1. T \subseteq SUBSET S
  OBVIOUS
<1> HIDE DEF T
<1>2. PICK U \in T : \A r \in T : r \subseteq U => r = U
  BY <1>1, Smallest
<1> USE DEF T
<1>3. \A w \in SUBSET U : IsFiniteSet(w) /\ (w # U => SumsOver(f, SumsBelow(f, w), w))
  BY <1>2, FS_Subset DEF SumsBelow
<1>4. \A w \in SUBSET U : \A v \in SUBSET w :
        w # U => SumsBelow(f, w)[v] = SumsBelow(f, v)[v]
  <2> TAKE w \in SUBSET U
  <2> TAKE v \in SUBSET w
  <2> HAVE w # U
  <2>1. /\ SumsOver(f, SumsBelow(f, w), w) /\ IsFiniteSet(w)
        /\ SumsOver(f, SumsBelow(f, v), v) /\ v \in SUBSET (w \cap v)
    BY <1>3
  <2> QED BY <2>1, SumsUnique
<1> DEFINE h == [s \in SUBSET U |-> IF s = {} THEN 0
                   ELSE f[Pick(s)] + SumsBelow(f, s \ {Pick(s)})[s \ {Pick(s)}]]
<1>5. \A w \in SUBSET U : w # U => h[w] = SumsBelow(f, w)[w]
  <2> TAKE w \in SUBSET U
  <2> HAVE w # U
  <2>1. SumsBelow(f, w)[w] =
          (IF w = {} THEN 0 ELSE f[Pick(w)] + SumsBelow(f, w)[w \ {Pick(w)}])
    BY <1>3 DEF SumsOver
  <2>2. w # {} => SumsBelow(f, w)[w \ {Pick(w)}]
                    = SumsBelow(f, w \ {Pick(w)})[w \ {Pick(w)}]
    BY <1>4, w \ {Pick(w)} \in SUBSET w
  <2> QED BY <2>1, <2>2
<1>6. \A s \in SUBSET U :
        s # {} => h[s \ {Pick(s)}] = SumsBelow(f, s \ {Pick(s)})[s \ {Pick(s)}]
  BY <1>5, PickIn
<1>7. SumsOver(f, h, U)
  BY <1>6 DEF SumsOver
<1> QED BY <1>2, <1>7

\* Total is the sum that the recursive definition describes.
LEMMA TotalIsSum ==
  ASSUME NEW f, NEW S, IsFiniteSet(S)
  PROVE  SumsOver(f, SumsBelow(f, S), S) /\ Total(f, S) = SumsBelow(f, S)[S]
<1>1. Total(f, S) = SumsBelow(f, S)[S]
  BY DEF Total, FoldFunctionOnSet, MapThenFoldSet, SumsBelow, SumsOver, Pick
<1>2. SumsOver(f, SumsBelow(f, S), S)
  BY SumsExist DEF SumsBelow
<1> QED BY <1>1, <1>2

\* The sum over a set is that over its subset, wherever it is taken.
LEMMA TotalOfSubset ==
  ASSUME NEW f, NEW S, IsFiniteSet(S), NEW R \in SUBSET S
  PROVE  SumsBelow(f, S)[R] = Total(f, R)
<1>1. IsFiniteSet(R)
  BY FS_Subset
<1>2. R \in SUBSET (S \cap R)
  OBVIOUS
<1> QED BY <1>1, <1>2, SumsUnique, TotalIsSum

\* The empty sum.
LEMMA TotalEmpty == \A f : Total(f, {}) = 0
<1> TAKE f
<1>1. IsFiniteSet({}) /\ {} \in SUBSET {}
  BY FS_EmptySet
<1> QED BY <1>1, TotalIsSum DEF SumsOver

\* A sum is its picked element and the sum over the rest.
LEMMA TotalPick ==
  ASSUME NEW f, NEW S, IsFiniteSet(S), S # {}
  PROVE  Total(f, S) = f[Pick(S)] + Total(f, S \ {Pick(S)})
<1>1. SumsBelow(f, S)[S] = f[Pick(S)] + SumsBelow(f, S)[S \ {Pick(S)}]
  BY TotalIsSum DEF SumsOver
<1>2. S \ {Pick(S)} \in SUBSET S
  OBVIOUS
<1> QED BY <1>1, <1>2, TotalIsSum, TotalOfSubset

\* A sum of naturals is one.
LEMMA TotalType ==
  ASSUME NEW f, NEW S, IsFiniteSet(S), \A x \in S : f[x] \in Nat
  PROVE  Total(f, S) \in Nat
<1> DEFINE T == {s \in SUBSET S : Total(f, s) \notin Nat}
<1> SUFFICES ASSUME T # {} PROVE FALSE
  OBVIOUS
<1>1. T \subseteq SUBSET S
  OBVIOUS
<1> HIDE DEF T
<1>2. PICK s \in T : \A r \in T : r \subseteq s => r = s
  BY <1>1, Smallest
<1> USE DEF T
<1>3. s # {} /\ IsFiniteSet(s)
  <2>1. s \in SUBSET S /\ Total(f, s) \notin Nat
    BY <1>2
  <2>2. s # {}
    BY <2>1, TotalEmpty
  <2> QED BY <2>1, <2>2, FS_Subset
<1>4. Total(f, s \ {Pick(s)}) \in Nat
  BY <1>2, <1>3, PickIn
<1> QED BY <1>2, <1>3, <1>4, TotalPick, PickIn

\* Any element may be taken out of a sum first.
LEMMA TotalRemove ==
  ASSUME NEW f, NEW S, IsFiniteSet(S), \A x \in S : f[x] \in Nat, NEW x \in S
  PROVE  Total(f, S) = f[x] + Total(f, S \ {x})
<1> DEFINE T == {s \in SUBSET S : \E y \in s : Total(f, s) # f[y] + Total(f, s \ {y})}
<1> SUFFICES ASSUME T # {} PROVE FALSE
  OBVIOUS
<1>1. T \subseteq SUBSET S
  OBVIOUS
<1> HIDE DEF T
<1>2. PICK s \in T : \A r \in T : r \subseteq s => r = s
  BY <1>1, Smallest
<1> USE DEF T
<1>3. /\ s \in SUBSET S
      /\ \E y \in s : Total(f, s) # f[y] + Total(f, s \ {y})
      /\ \A r \in SUBSET S : r \subseteq s /\ r # s =>
           \A y \in r : Total(f, r) = f[y] + Total(f, r \ {y})
  BY <1>2
<1> HIDE DEF T
<1>4. PICK y \in s : Total(f, s) # f[y] + Total(f, s \ {y})
  BY <1>3
<1>5. /\ Pick(s) \in s /\ IsFiniteSet(s) /\ Pick(s) # y
      /\ Total(f, s) = f[Pick(s)] + Total(f, s \ {Pick(s)})
  BY <1>3, <1>4, PickIn, TotalPick, FS_Subset
<1>6. PICK p \in s : p # y /\ Total(f, s) = f[p] + Total(f, s \ {p})
  BY <1>5
<1> DEFINE rest == (s \ {p}) \ {y}
<1>7. Total(f, s \ {p}) = f[y] + Total(f, rest)
  <2>1. s \ {p} \in SUBSET S /\ s \ {p} # s /\ s \ {p} \subseteq s /\ y \in s \ {p}
    BY <1>3, <1>6
  <2> QED BY <2>1, <1>3
<1>8. Total(f, s \ {y}) = f[p] + Total(f, (s \ {y}) \ {p})
  <2>1. s \ {y} \in SUBSET S /\ s \ {y} # s /\ s \ {y} \subseteq s /\ p \in s \ {y}
    BY <1>3, <1>6
  <2> QED BY <2>1, <1>3
<1>9. /\ (s \ {y}) \ {p} = rest /\ f[p] \in Nat /\ f[y] \in Nat
      /\ rest \in SUBSET S /\ \A z \in rest : f[z] \in Nat
  <2>1. p \in S /\ y \in S
    BY <1>3
  <2>2. (s \ {y}) \ {p} = rest
    OBVIOUS
  <2>3. rest \in SUBSET S
    BY <1>3
  <2> HIDE DEF rest
  <2> QED BY <2>1, <2>2, <2>3
<1>10. Total(f, rest) \in Nat
  <2>1. IsFiniteSet(rest)
    BY <1>9, FS_Subset
  <2> HIDE DEF rest
  <2> QED BY <2>1, <1>9, TotalType
<1>11. Total(f, (s \ {y}) \ {p}) = Total(f, rest)
  BY <1>9
<1>12. f[p] \in Nat /\ f[y] \in Nat
  BY <1>9
<1> HIDE DEF rest
<1>13. Total(f, s) = f[p] + (f[y] + Total(f, rest))
  BY <1>6, <1>7
<1>14. f[y] + Total(f, s \ {y}) = f[y] + (f[p] + Total(f, rest))
  BY <1>8, <1>11
<1> QED BY <1>4, <1>10, <1>12, <1>13, <1>14

\* A sum depends on the summands only.
LEMMA TotalSame ==
  ASSUME NEW f, NEW g, NEW S, IsFiniteSet(S), \A x \in S : f[x] = g[x]
  PROVE  Total(f, S) = Total(g, S)
<1> DEFINE T == {s \in SUBSET S : Total(f, s) # Total(g, s)}
<1> SUFFICES ASSUME T # {} PROVE FALSE
  OBVIOUS
<1>1. T \subseteq SUBSET S
  OBVIOUS
<1> HIDE DEF T
<1>2. PICK s \in T : \A r \in T : r \subseteq s => r = s
  BY <1>1, Smallest
<1> USE DEF T
<1>3. s # {} /\ IsFiniteSet(s)
  BY <1>2, TotalEmpty, FS_Subset
<1>4. Total(f, s \ {Pick(s)}) = Total(g, s \ {Pick(s)})
  BY <1>2, <1>3, PickIn
<1> QED BY <1>2, <1>3, <1>4, TotalPick, PickIn

\* A new element adds its value to a sum.
LEMMA TotalAdd ==
  ASSUME NEW f, NEW g, NEW S, IsFiniteSet(S), NEW x, x \notin S,
         \A y \in S : f[y] = g[y] /\ f[y] \in Nat, g[x] \in Nat
  PROVE  Total(g, S \cup {x}) = Total(f, S) + g[x]
<1>1. /\ IsFiniteSet(S \cup {x}) /\ x \in S \cup {x} /\ (S \cup {x}) \ {x} = S
      /\ \A y \in S \cup {x} : g[y] \in Nat
  BY FS_AddElement
<1>2. Total(g, S \cup {x}) = g[x] + Total(g, S)
  BY <1>1, TotalRemove
<1>3. Total(g, S) = Total(f, S) /\ Total(f, S) \in Nat
  BY TotalSame, TotalType
<1> QED BY <1>2, <1>3

----------------------------------------------------------------------------
(* The money.  A step changes no settled reservation, but that of a budgeted  *)
(* settlement, which adds one.                                                *)

MoneyInv ==
  /\ SpentIsSettledCost
  /\ \A k \in Keys :
       receipt[k].reservation \in {"settled", "overrun"} => receipt[k].cost \in Nat

\* Every set of keys is finite.
LEMMA SettledIsFinite ==
  ASSUME NEW s PROVE IsFiniteSet(SettledReservations(s)) /\ SettledReservations(s) \subseteq Keys
  BY FS_Subset, KeysAssumption DEF SettledReservations

\* Nothing is settled in the initial state.
LEMMA InitMoney == Init => MoneyInv
<1> SUFFICES ASSUME Init PROVE MoneyInv
  OBVIOUS
<1>1. \A k \in Keys : receipt[k].reservation = "none"
  BY DEF Init, NoReceipt
<1>2. \A s \in Scopes : SettledReservations(s) = {} /\ spent[s] = 0
  BY <1>1 DEF SettledReservations, Init
<1> QED BY <1>1, <1>2, TotalEmpty DEF MoneyInv, SpentIsSettledCost

\* A call that writes a receipt which is no settled reservation, before or
\* after, and charges nothing leaves the sums alone.
LEMMA UnsettledMoney ==
  ASSUME MoneyInv, TypeOK, NEW k \in Keys, NEW r \in Receipt,
         receipt' = [receipt EXCEPT ![k] = r], spent' = spent,
         receipt[k].reservation \notin {"settled", "overrun"},
         r.reservation \notin {"settled", "overrun"}
  PROVE  MoneyInv'
<1>1. \A j \in Keys : j # k => receipt'[j] = receipt[j]
  BY DEF TypeOK
<1>2. receipt'[k] = r
  BY DEF TypeOK
<1>3. ASSUME NEW s \in Scopes
      PROVE  spent'[s] = Total([j \in Keys |-> receipt'[j].cost], SettledReservations(s)')
  <2>1. SettledReservations(s)' = SettledReservations(s)
    BY <1>1, <1>2 DEF SettledReservations
  <2>2. \A j \in SettledReservations(s) :
          [i \in Keys |-> receipt[i].cost][j] = [i \in Keys |-> receipt'[i].cost][j]
    BY <1>1 DEF SettledReservations
  <2>3. Total([j \in Keys |-> receipt[j].cost], SettledReservations(s))
          = Total([j \in Keys |-> receipt'[j].cost], SettledReservations(s))
    BY <2>2, SettledIsFinite, TotalSame
  <2> QED BY <2>1, <2>3 DEF MoneyInv, SpentIsSettledCost
<1>4. \A j \in Keys :
        receipt'[j].reservation \in {"settled", "overrun"} => receipt'[j].cost \in Nat
  BY <1>1, <1>2 DEF MoneyInv
<1> QED BY <1>3, <1>4 DEF MoneyInv, SpentIsSettledCost

\* A budgeted settlement adds its cost to what its scope spent, and its receipt
\* to the scope's settled reservations.
LEMMA BudgetedMoney ==
  ASSUME MoneyInv, TypeOK, NEW s \in Scopes, NEW k \in Keys, NEW a \in Answers,
         NEW c \in Costs, SettleAndSaveBudgeted(s, k, a, c)
  PROVE  MoneyInv'
<1>1. PICK v \in {"settled", "overrun"} :
        receipt' = [receipt EXCEPT ![k] = Settled(receipt[k], a, c, v)]
  BY DEF SettleAndSaveBudgeted, TypeOK
<1> DEFINE r == Settled(receipt[k], a, c, v)
<1>2. /\ r \in Receipt /\ r.scope = receipt[k].scope /\ r.cost = c
      /\ r.reservation \in {"settled", "overrun"}
  BY SettledType DEF TypeOK
<1>3. /\ receipt[k].reservation = "reserved" /\ receipt[k].scope = s
      /\ spent' = [spent EXCEPT ![s] = @ + c] /\ c \in Nat
  BY BudgetAssumption DEF SettleAndSaveBudgeted, AwaitsSettlement, Charge
<1> HIDE DEF r
<1>4. receipt'[k] = r /\ \A j \in Keys : j # k => receipt'[j] = receipt[j]
  BY <1>1 DEF TypeOK, r
<1>5. ASSUME NEW q \in Scopes
      PROVE  spent'[q] = Total([j \in Keys |-> receipt'[j].cost], SettledReservations(q)')
  <2> DEFINE f == [j \in Keys |-> receipt[j].cost]
             g == [j \in Keys |-> receipt'[j].cost]
  <2>1. \A j \in SettledReservations(q) : f[j] = g[j] /\ f[j] \in Nat
    BY <1>3, <1>4 DEF SettledReservations, MoneyInv
  <2>2. k \notin SettledReservations(q) /\ g[k] = c
    BY <1>2, <1>3, <1>4 DEF SettledReservations
  <2>3. spent[q] = Total(f, SettledReservations(q))
    BY DEF MoneyInv, SpentIsSettledCost
  <2> HIDE DEF f, g
  <2>4. CASE q = s
    <3>1. SettledReservations(q)' = SettledReservations(q) \cup {k}
      BY <1>2, <1>3, <1>4, <2>4 DEF SettledReservations
    <3>2. Total(g, SettledReservations(q) \cup {k}) = Total(f, SettledReservations(q)) + g[k]
      BY <1>3, <2>1, <2>2, SettledIsFinite, TotalAdd
    <3>3. spent'[q] = spent[q] + c
      BY <1>3, <2>4 DEF TypeOK
    <3> QED BY <2>2, <2>3, <3>1, <3>2, <3>3 DEF g
  <2>5. CASE q # s
    <3>1. SettledReservations(q)' = SettledReservations(q)
      BY <1>2, <1>3, <1>4, <2>5 DEF SettledReservations
    <3>2. Total(f, SettledReservations(q)) = Total(g, SettledReservations(q))
      BY <2>1, SettledIsFinite, TotalSame
    <3>3. spent'[q] = spent[q]
      BY <1>3, <2>5 DEF TypeOK
    <3> QED BY <2>3, <3>1, <3>2, <3>3 DEF g
  <2> QED BY <2>4, <2>5
<1>6. \A j \in Keys :
        receipt'[j].reservation \in {"settled", "overrun"} => receipt'[j].cost \in Nat
  BY <1>2, <1>3, <1>4 DEF MoneyInv
<1> QED BY <1>5, <1>6 DEF MoneyInv, SpentIsSettledCost

\* Every step of the ledger keeps the sums.
LEMMA NextMoney == LedgerInv /\ MoneyInv /\ [Next]_ledgerVars => MoneyInv'
<1> SUFFICES ASSUME LedgerInv, MoneyInv, [Next]_ledgerVars
             PROVE  MoneyInv'
  OBVIOUS
<1> USE DEF LedgerInv
<1>1. CASE Register \/ UNCHANGED ledgerVars
  <2>1. receipt' = receipt /\ spent' = spent
    BY <1>1 DEF Register, RegisterReviewedScope, RegisterBudget, ledgerVars
  <2> QED BY <2>1 DEF MoneyInv, SpentIsSettledCost, SettledReservations
<1>2. CASE Begin
  <2>1. PICK s \in Scopes, k \in Keys, t \in Tests, v \in {"none", "reserved"},
             e \in {"none", "open"} :
          /\ receipt' = [receipt EXCEPT ![k] = Dispatched(s, t, v, e)]
          /\ receipt[k].status = "absent"
          /\ spent' = spent
    BY <1>2 DEF Begin, BeginUnbudgeted, BeginBudgeted, Unasked
  <2>2. /\ Dispatched(s, t, v, e) \in Receipt
        /\ Dispatched(s, t, v, e).reservation \notin {"settled", "overrun"}
    BY DispatchedType DEF Dispatched
  <2>3. receipt[k].reservation = "none"
    BY <2>1 DEF ReceiptShape, NoReceipt
  <2> QED BY <2>1, <2>2, <2>3, UnsettledMoney
<1>3. CASE Record
  <2>1. PICK s \in Scopes, k \in Keys, a \in Answers, c \in Costs \cup {NoCost},
             e \in {"none", "open", "bound", "unbound"} : RecordPending(s, k, a, c, e)
    BY <1>3 DEF Record
  <2> DEFINE r == [receipt[k] EXCEPT !.answer = a, !.cost = c, !.evidence = e]
  <2>2. /\ receipt' = [receipt EXCEPT ![k] = r] /\ spent' = spent
        /\ receipt[k].reservation = "reserved"
    BY <2>1 DEF RecordPending, AwaitsAnswer
  <2>3. r \in Receipt /\ r.reservation = receipt[k].reservation
    <3>1. receipt[k] \in Receipt
      BY DEF TypeOK
    <3>2. a \in Answers \cup {NoAnswer} /\ c \in Costs \cup {NoCost}
      OBVIOUS
    <3> QED BY <3>1, <3>2 DEF Receipt
  <2> HIDE DEF r
  <2> QED BY <2>2, <2>3, UnsettledMoney
<1>4. CASE Settle
  <2>1. PICK s \in Scopes, k \in Keys, a \in Answers, c \in Costs :
          \/ SettleReceiptOnly(s, k, a, c)
          \/ SettleAndSaveUnbudgeted(s, k, a, c)
          \/ SettleAndSaveBudgeted(s, k, a, c)
    BY <1>4 DEF Settle
  <2>2. CASE SettleReceiptOnly(s, k, a, c) \/ SettleAndSaveUnbudgeted(s, k, a, c)
    <3>1. /\ receipt' = [receipt EXCEPT ![k] = Settled(receipt[k], a, c, "none")]
          /\ spent' = spent /\ receipt[k].reservation = "none"
      BY <2>2 DEF SettleReceiptOnly, SettleAndSaveUnbudgeted, Unreserved, TypeOK
    <3>2. /\ Settled(receipt[k], a, c, "none") \in Receipt
          /\ Settled(receipt[k], a, c, "none").reservation = "none"
      BY SettledType DEF TypeOK
    <3> QED BY <3>1, <3>2, UnsettledMoney
  <2>3. CASE SettleAndSaveBudgeted(s, k, a, c)
    BY <2>3, BudgetedMoney
  <2> QED BY <2>1, <2>2, <2>3
<1> QED BY <1>1, <1>2, <1>3, <1>4 DEF Next

\* The amount a scope spent is at every moment the sum of the costs of its
\* settled reservations.
THEOREM SpentIsAccounted == Spec => []SpentIsSettledCost
<1>1. MoneyInv => SpentIsSettledCost
  BY DEF MoneyInv
<1> QED BY <1>1, InitMoney, NextMoney, LedgerInvariant, PTL DEF Spec

----------------------------------------------------------------------------
(* What a step may never do. *)

\* No step rewrites an answer, its cost or a settled receipt.
LEMMA StepKeepsEvidence == LedgerInv /\ [Next]_ledgerVars => [KeepsEvidence]_ledgerVars
<1> SUFFICES ASSUME LedgerInv, Next
             PROVE  KeepsEvidence
  OBVIOUS
<1> USE DEF LedgerInv
<1>1. CASE Register
  BY <1>1 DEF Register, RegisterReviewedScope, RegisterBudget, KeepsEvidence
<1>2. CASE Begin
  <2>1. PICK k \in Keys, r \in Receipt :
           /\ receipt' = [receipt EXCEPT ![k] = r]
           /\ receipt[k].status = "absent"
    BY <1>2, DispatchedType DEF Begin, BeginUnbudgeted, BeginBudgeted, Unasked
  <2> QED BY <2>1, NullAssumption DEF TypeOK, ReceiptShape, NoReceipt, KeepsEvidence
<1>3. CASE Record
  BY <1>3 DEF Record, RecordPending, AwaitsAnswer, TypeOK, Receipt, KeepsEvidence
<1>4. CASE Settle
  <2>1. PICK s \in Scopes, k \in Keys, a \in Answers, c \in Costs :
          \/ SettleReceiptOnly(s, k, a, c)
          \/ SettleAndSaveUnbudgeted(s, k, a, c)
          \/ SettleAndSaveBudgeted(s, k, a, c)
    BY <1>4 DEF Settle
  <2>2. /\ receipt[k].status = "dispatched"
        /\ receipt[k].answer # NoAnswer => receipt[k].answer = a /\ receipt[k].cost = c
    BY <2>1 DEF SettleReceiptOnly, SettleAndSaveUnbudgeted, SettleAndSaveBudgeted,
       AwaitsSettlement, Unreserved, MatchesPending, ReceiptShape
  <2>3. PICK r \in Receipt :
          /\ receipt' = [receipt EXCEPT ![k] = r]
          /\ r.answer = a /\ r.cost = c
    BY <2>1, SettledType DEF SettleReceiptOnly, SettleAndSaveUnbudgeted,
       SettleAndSaveBudgeted, Unreserved, TypeOK
  <2> QED BY <2>2, <2>3 DEF TypeOK, KeepsEvidence
<1> QED BY <1>1, <1>2, <1>3, <1>4 DEF Next

\* No step touches a request of an overrun scope.
LEMMA StepKeepsOverrunScopes ==
  LedgerInv /\ [Next]_ledgerVars => [KeepsOverrunScopes]_ledgerVars
<1> SUFFICES ASSUME LedgerInv, Next,
                    NEW s \in Scopes, NEW k \in Keys, budgetStatus[s] = "overrun",
                    receipt'[k] # receipt[k]
             PROVE  receipt[k].scope # s /\ receipt'[k].scope # s
  BY DEF KeepsOverrunScopes
<1> USE DEF LedgerInv
<1>1. CASE Register
  BY <1>1 DEF Register, RegisterReviewedScope, RegisterBudget
<1>2. CASE Begin
  <2>1. PICK q \in Scopes, t \in Tests, j \in Keys, r \in Receipt :
          /\ receipt' = [receipt EXCEPT ![j] = r]
          /\ r.scope = q
          /\ receipt[j].status = "absent"
          /\ budgetStatus[q] # "overrun"
    <3>1. PICK q \in Scopes, t \in Tests, j \in Keys, v \in {"none", "reserved"},
               e \in {"none", "open"} :
            /\ receipt' = [receipt EXCEPT ![j] = Dispatched(q, t, v, e)]
            /\ receipt[j].status = "absent"
            /\ budgetStatus[q] # "overrun"
      BY <1>2 DEF Begin, BeginUnbudgeted, BeginBudgeted, Unasked
    <3>2. Dispatched(q, t, v, e) \in Receipt /\ Dispatched(q, t, v, e).scope = q
      BY DispatchedType DEF Dispatched
    <3> QED BY <3>1, <3>2
  <2> QED BY <2>1, NullAssumption DEF TypeOK, ReceiptShape, NoReceipt
<1>3. CASE Record
  <2>1. PICK q \in Scopes, j \in Keys, a \in Answers, c \in Costs \cup {NoCost},
             e \in {"none", "open", "bound", "unbound"} : RecordPending(q, j, a, c, e)
    BY <1>3 DEF Record
  <2>2. receipt'[k].scope = receipt[k].scope /\ j = k
    BY <2>1 DEF RecordPending, AwaitsAnswer, TypeOK, Receipt
  <2>3. receipt[k].status = "dispatched"
    BY <2>1, <2>2 DEF RecordPending, AwaitsAnswer
  <2> QED BY <2>2, <2>3 DEF ReceiptShape
<1>4. CASE Settle
  <2>1. PICK q \in Scopes, j \in Keys, a \in Answers, c \in Costs :
          \/ SettleReceiptOnly(q, j, a, c)
          \/ SettleAndSaveUnbudgeted(q, j, a, c)
          \/ SettleAndSaveBudgeted(q, j, a, c)
    BY <1>4 DEF Settle
  <2>2. receipt[j].scope = q /\ budgetStatus[q] # "overrun"
    BY <2>1 DEF SettleReceiptOnly, SettleAndSaveUnbudgeted, SettleAndSaveBudgeted,
       AwaitsSettlement, Unreserved, NoUnreservedAttempt
  <2>3. PICK r \in Receipt : receipt' = [receipt EXCEPT ![j] = r] /\ r.scope = q
    BY <2>1, <2>2, SettledType DEF SettleReceiptOnly, SettleAndSaveUnbudgeted,
       SettleAndSaveBudgeted, Unreserved, TypeOK
  <2> QED BY <2>2, <2>3 DEF TypeOK
<1> QED BY <1>1, <1>2, <1>3, <1>4 DEF Next

\* No later call rewrites provider evidence.
THEOREM EvidenceKept == Spec => EvidenceIsFinal
  BY LedgerInvariant, StepKeepsEvidence, PTL DEF Spec, EvidenceIsFinal

\* An overrun is terminal for its scope.
THEOREM OverrunIsTerminal == Spec => OverrunStopsScope
  BY LedgerInvariant, StepKeepsOverrunScopes, PTL DEF Spec, OverrunStopsScope


(******************************************************************************)
(* The controlled run.                                                        *)
(******************************************************************************)

\* A worker between its dispatch and its settlement is bound to its request.
Binds(w) == pc[w] \in {"send", "sent", "record", "settle"}

\* What a worker at each place of the step relies on: the request it dispatched
\* is unresolved and no other worker's, it is called once it was sent, and
\* what the worker carries is what the provider answered.
Relies(w) ==
  LET s == job[w].scope
      t == job[w].test
      k == job[w].key
  IN /\ s \in Scopes /\ t \in Tests /\ k \in Keys
     /\ pc[w] \notin {"register", "budget"} => budgetStatus[s] # "absent"
     /\ Binds(w) =>
          /\ receipt[k].scope = s /\ receipt[k].test = t
          /\ receipt[k].status = "dispatched" /\ receipt[k].reservation = "reserved"
          /\ calls[<<s, t>>] = IF pc[w] = "send" THEN 0 ELSE 1
     /\ pc[w] \in {"send", "sent", "record"} => receipt[k].answer = NoAnswer
     /\ pc[w] \in {"record", "settle"} =>
          job[w].reply = reply[k] /\ reply[k].answer \in Answers
     /\ pc[w] = "settle" => reply[k].cost \in Costs
     /\ pc[w] = "score" => receipt[k].reservation = "settled"

WorkerInv ==
  /\ \A w \in Workers : pc[w] # "idle" => Relies(w)
  /\ \A v, w \in Workers : Binds(v) /\ Binds(w) /\ job[v].key = job[w].key => v = w

\* The rows agree: an overrun stops its scope, only a question with a receipt
\* was called, only a settled request was scored, and what is recorded is what
\* the provider answered.
RowsInv ==
  /\ \A k \in Keys : receipt[k].reservation = "overrun" => budgetStatus[receipt[k].scope] = "overrun"
  /\ \A s \in Scopes, t \in Tests : Receipts(s, t) = {} => calls[<<s, t>>] = 0
  /\ \A k \in Keys : evals[k] <= 1 /\ (evals[k] = 1 => receipt[k].reservation = "settled")
  /\ \A k \in Keys : receipt[k].answer # NoAnswer =>
       receipt[k].answer = reply[k].answer /\ receipt[k].cost = reply[k].cost

RunInv == RunTypeOK /\ LedgerInv /\ WorkerInv /\ RowsInv

\* The initial state of a run satisfies its invariant.
LEMMA InitRun == RunInit => RunInv
<1> SUFFICES ASSUME RunInit PROVE RunInv
  OBVIOUS
<1>1. LedgerInv
  BY InitInv DEF RunInit
<1>2. NoReply \in Reply /\ NoJob \in Job
  BY DEF NoReply, Reply, NoJob, Job
<1>3. RunTypeOK
  BY <1>1, <1>2 DEF RunInit, RunTypeOK, LedgerInv, Stages
<1>4. WorkerInv
  BY DEF RunInit, WorkerInv, Binds
<1>5. \A k \in Keys : receipt[k] = NoReceipt /\ evals[k] = 0
  BY DEF RunInit, Init
<1>6. RowsInv
  BY <1>5 DEF RunInit, RowsInv, NoReceipt
<1> QED BY <1>1, <1>3, <1>4, <1>6 DEF RunInv

\* A worker goes on relying on the rows as long as nobody changes those of its
\* request, and budgets are not given up.
LEMMA StillRelies ==
  ASSUME NEW v \in Workers, Relies(v), pc'[v] = pc[v], job'[v] = job[v],
         budgetStatus[job[v].scope] # "absent" => budgetStatus'[job[v].scope] # "absent",
         Binds(v) \/ pc[v] = "score" => receipt'[job[v].key] = receipt[job[v].key],
         Binds(v) => /\ calls'[<<job[v].scope, job[v].test>>] = calls[<<job[v].scope, job[v].test>>]
                     /\ reply'[job[v].key] = reply[job[v].key]
  PROVE  Relies(v)'
  BY DEF Relies, Binds

\* A step of worker w that leaves the rows of the other workers' requests alone
\* preserves the workers' part of the invariant.
LEMMA StepOfWorker ==
  ASSUME WorkerInv, NEW w \in Workers,
         \A v \in Workers \ {w} : pc'[v] = pc[v] /\ job'[v] = job[v],
         \A s \in Scopes : budgetStatus[s] # "absent" => budgetStatus'[s] # "absent",
         \A v \in Workers \ {w} : pc[v] # "idle" =>
           /\ Binds(v) \/ pc[v] = "score" => receipt'[job[v].key] = receipt[job[v].key]
           /\ Binds(v) => /\ calls'[<<job[v].scope, job[v].test>>] = calls[<<job[v].scope, job[v].test>>]
                          /\ reply'[job[v].key] = reply[job[v].key],
         pc'[w] # "idle" => Relies(w)',
         Binds(w)' => \A v \in Workers \ {w} : Binds(v) => job[v].key # job'[w].key
  PROVE  WorkerInv'
<1>1. ASSUME NEW v \in Workers, pc'[v] # "idle"
      PROVE  Relies(v)'
  <2>1. CASE v = w
    BY <1>1, <2>1
  <2>2. CASE v # w
    <3>1. Relies(v) /\ job[v].scope \in Scopes
      BY <1>1, <2>2 DEF WorkerInv, Relies
    <3> QED BY <1>1, <2>2, <3>1, StillRelies
  <2> QED BY <2>1, <2>2
<1>2. \A u, v \in Workers : (Binds(u) /\ Binds(v) /\ job[u].key = job[v].key => u = v)'
  BY DEF WorkerInv, Binds
<1> QED BY <1>1, <1>2 DEF WorkerInv

\* A step that changes no row and no call, only where one worker is.
LEMMA MoveKeepsRun ==
  ASSUME RunInv, NEW w \in Workers, UNCHANGED <<ledgerVars, calls, reply, evals>>,
         pc' \in [Workers -> Stages], job' \in [Workers -> Job],
         lock' \in [Scopes -> Workers \cup {NoWorker}],
         \A v \in Workers \ {w} : pc'[v] = pc[v] /\ job'[v] = job[v],
         pc'[w] # "idle" => Relies(w)',
         Binds(w)' => Binds(w) /\ job'[w].key = job[w].key
  PROVE  RunInv'
<1>1. /\ scopeStatus' = scopeStatus /\ budgetStatus' = budgetStatus /\ spent' = spent
      /\ receipt' = receipt /\ saved' = saved
      /\ calls' = calls /\ reply' = reply /\ evals' = evals
  BY DEF ledgerVars
<1>2. LedgerInv'
  BY NextInv DEF RunInv
<1>3. RunTypeOK'
  BY <1>1, <1>2 DEF RunInv, RunTypeOK, LedgerInv
<1>4. WorkerInv'
  <2>1. WorkerInv
    BY DEF RunInv
  <2>2. Binds(w)' => \A v \in Workers \ {w} : Binds(v) => job[v].key # job'[w].key
    BY <2>1 DEF WorkerInv
  <2> QED BY <1>1, <2>1, <2>2, StepOfWorker
<1>5. RowsInv'
  BY <1>1 DEF RunInv, RowsInv, Receipts
<1> QED BY <1>2, <1>3, <1>4, <1>5 DEF RunInv

\* Leaving the step ends it for this worker only, and its locks with it.
LEMMA LeaveIsTyped ==
  ASSUME RunTypeOK, NEW w \in Workers, Leave(w)
  PROVE  /\ pc' \in [Workers -> Stages] /\ job' \in [Workers -> Job]
         /\ lock' \in [Scopes -> Workers \cup {NoWorker}]
         /\ pc'[w] = "idle"
         /\ \A v \in Workers \ {w} : pc'[v] = pc[v] /\ job'[v] = job[v]
<1>1. NoJob \in Job
  BY DEF NoJob, NoReply, Reply, Job
<1> QED BY <1>1 DEF Leave, Goto, Released, RunTypeOK, Stages

\* A worker that only goes on to another place keeps its request and its locks.
LEMMA GotoIsTyped ==
  ASSUME RunTypeOK, NEW w \in Workers, NEW stage \in Stages, Goto(w, stage)
  PROVE  /\ pc' \in [Workers -> Stages] /\ pc'[w] = stage
         /\ \A v \in Workers \ {w} : pc'[v] = pc[v]
  BY DEF Goto, RunTypeOK


\* A step starts, waits for its locks or passes its checks, or ends early.  A
\* saved answer that passed the preflight was settled within the budget.
LEMMA MovesKeepRun ==
  ASSUME RunInv, NEW w \in Workers,
         \/ \E s \in Scopes, t \in Tests, k \in Keys : Start(w, s, t, k)
         \/ Lock(w) \/ Preflight(w) \/ Stop(w)
  PROVE  RunInv'
<1> USE DEF RunInv
<1>2. ASSUME NEW s \in Scopes, NEW t \in Tests, NEW k \in Keys, Start(w, s, t, k)
      PROVE  RunInv'
  <2> DEFINE j == [NoJob EXCEPT !.scope = s, !.test = t, !.key = k]
  <2>1. j \in Job /\ j.scope = s /\ j.test = t /\ j.key = k
    BY DEF NoJob, NoReply, Reply, Job
  <2>2. job' = [job EXCEPT ![w] = j] /\ Goto(w, "register") /\ "register" \in Stages
    BY <1>2 DEF Start, Stages
  <2> HIDE DEF j
  <2>3. /\ job' \in [Workers -> Job] /\ job'[w] = j /\ \A v \in Workers \ {w} : job'[v] = job[v]
        /\ pc' \in [Workers -> Stages] /\ pc'[w] = "register"
        /\ \A v \in Workers \ {w} : pc'[v] = pc[v]
    BY <2>1, <2>2, GotoIsTyped DEF RunTypeOK
  <2>4. Relies(w)' /\ ~Binds(w)'
    BY <2>1, <2>3 DEF Relies, Binds
  <2>5. UNCHANGED <<ledgerVars, calls, reply, evals>> /\ lock' \in [Scopes -> Workers \cup {NoWorker}]
    BY <1>2 DEF Start, RunTypeOK
  <2> QED BY <2>3, <2>4, <2>5, MoveKeepsRun
<1>3. CASE Lock(w)
  <2>1. /\ Goto(w, "preflight") /\ "preflight" \in Stages /\ job' = job
        /\ UNCHANGED <<ledgerVars, calls, reply, evals>> /\ pc[w] = "lock"
        /\ lock' \in [Scopes -> Workers \cup {NoWorker}]
    BY <1>3 DEF Lock, Stages, RunTypeOK
  <2>2. /\ pc' \in [Workers -> Stages] /\ pc'[w] = "preflight"
        /\ \A v \in Workers \ {w} : pc'[v] = pc[v]
    BY <2>1, GotoIsTyped
  <2>3. Relies(w)' /\ ~Binds(w)'
    BY <2>1, <2>2 DEF WorkerInv, Relies, Binds, ledgerVars
  <2>4. job' \in [Workers -> Job]
    BY <2>1 DEF RunTypeOK
  <2> QED BY <2>1, <2>2, <2>3, <2>4, MoveKeepsRun
<1>4. CASE Preflight(w)
  <2> DEFINE s == job[w].scope
             k == job[w].key
  <2>1. /\ pc[w] = "preflight" /\ job' = job /\ lock' = lock
        /\ UNCHANGED <<ledgerVars, calls, reply, evals>>
    BY <1>4 DEF Preflight
  <2>2. Relies(w) /\ budgetStatus[s] # "absent" /\ s \in Scopes /\ k \in Keys
    BY <2>1 DEF WorkerInv, Relies
  <2>3. \/ Goto(w, "dispatch")
        \/ /\ Goto(w, "score") /\ scopeStatus[s] = "active"
           /\ receipt[k].scope = s /\ receipt[k].status = "settled"
    BY <1>4 DEF Preflight, PreflightHolds
  <2> HIDE DEF s, k
  <2>4. receipt[k].scope = s /\ receipt[k].status = "settled" /\ scopeStatus[s] = "active" =>
          receipt[k].reservation = "settled"
    <3>1. receipt[k].status = "settled" => receipt[k].reservation \in {"none", "settled", "overrun"}
      BY <2>2 DEF LedgerInv, ReceiptShape
    <3>2. receipt[k].scope = s /\ receipt[k].status = "settled" => receipt[k].reservation # "none"
      BY <2>2 DEF LedgerInv, NoUnreservedAttempt
    <3>3. scopeStatus[s] = "active" => budgetStatus[s] # "overrun"
      BY <2>2 DEF LedgerInv, OneUnresolvedAttempt
    <3>4. receipt[k].reservation = "overrun" => budgetStatus[receipt[k].scope] = "overrun"
      BY <2>2 DEF RowsInv
    <3> QED BY <3>1, <3>2, <3>3, <3>4
  <2>5. /\ pc' \in [Workers -> Stages] /\ pc'[w] \in {"dispatch", "score"}
        /\ \A v \in Workers \ {w} : pc'[v] = pc[v]
        /\ pc'[w] = "score" => receipt[k].reservation = "settled"
    BY <2>3, <2>4, GotoIsTyped DEF Stages
  <2>6. Relies(w)' /\ ~Binds(w)'
    BY <2>1, <2>2, <2>5 DEF Relies, Binds, ledgerVars, s, k
  <2>7. job' \in [Workers -> Job] /\ lock' \in [Scopes -> Workers \cup {NoWorker}]
    BY <2>1 DEF RunTypeOK
  <2> QED BY <2>1, <2>5, <2>6, <2>7, MoveKeepsRun
<1>5. CASE Stop(w)
  <2>1. Leave(w) /\ UNCHANGED <<ledgerVars, calls, reply, evals>>
    BY <1>5 DEF Stop
  <2>2. /\ pc' \in [Workers -> Stages] /\ job' \in [Workers -> Job]
        /\ lock' \in [Scopes -> Workers \cup {NoWorker}]
        /\ pc'[w] = "idle" /\ \A v \in Workers \ {w} : pc'[v] = pc[v] /\ job'[v] = job[v]
    BY <2>1, LeaveIsTyped
  <2>3. ~Binds(w)'
    BY <2>2 DEF Binds
  <2> QED BY <2>1, <2>2, <2>3, MoveKeepsRun
<1> QED BY <1>2, <1>3, <1>4, <1>5

\* The locks may go while the worker goes on: nothing relies on them.
LEMMA LostLockKeepsRun ==
  ASSUME RunInv, NEW s \in Scopes, LoseLock(s)
  PROVE  RunInv'
<1>1. /\ scopeStatus' = scopeStatus /\ budgetStatus' = budgetStatus /\ spent' = spent
      /\ receipt' = receipt /\ saved' = saved /\ pc' = pc /\ job' = job
      /\ calls' = calls /\ reply' = reply /\ evals' = evals
      /\ lock' = [lock EXCEPT ![s] = NoWorker]
  BY DEF LoseLock, ledgerVars
<1>2. LedgerInv'
  BY <1>1, NextInv DEF RunInv, ledgerVars
<1>3. RunTypeOK'
  BY <1>1, <1>2 DEF RunInv, RunTypeOK, LedgerInv
<1>4. \A w \in Workers : Relies(w)' = Relies(w) /\ Binds(w)' = Binds(w)
  BY <1>1 DEF Relies, Binds
<1>5. WorkerInv'
  BY <1>1, <1>4 DEF RunInv, WorkerInv
<1>6. RowsInv'
  BY <1>1 DEF RunInv, RowsInv, Receipts
<1> QED BY <1>2, <1>3, <1>5, <1>6 DEF RunInv

\* Registration writes the scope or its budget; no request of the scope can be
\* overrun before it has a budget.
LEMMA RegistrationKeepsRun ==
  ASSUME RunInv, NEW w \in Workers, RegisterScope(w) \/ EnsureBudget(w)
  PROVE  RunInv'
<1> DEFINE s == job[w].scope
<1> USE DEF RunInv
<1>1. /\ pc[w] \in {"register", "budget"} /\ Relies(w)
      /\ s \in Scopes /\ job[w].test \in Tests /\ job[w].key \in Keys
  BY DEF RegisterScope, EnsureBudget, WorkerInv, Relies
<1>2. /\ receipt' = receipt /\ spent' = spent /\ saved' = saved /\ job' = job
      /\ lock' = lock /\ calls' = calls /\ reply' = reply /\ evals' = evals
  BY DEF RegisterScope, EnsureBudget, RegisterReviewedScope, RegisterBudget, ledgerVars
<1>3. Register \/ UNCHANGED ledgerVars
  BY <1>1 DEF RegisterScope, EnsureBudget, Register
<1>4. LedgerInv'
  BY <1>3, NextInv DEF Next
<1>5. /\ pc' \in [Workers -> Stages] /\ \A v \in Workers \ {w} : pc'[v] = pc[v]
      /\ pc'[w] = "budget" \/ (pc'[w] = "lock" /\ budgetStatus'[s] # "absent")
  <2>1. CASE RegisterScope(w)
    BY <2>1, GotoIsTyped DEF RegisterScope, Stages
  <2>2. CASE EnsureBudget(w)
    <3>1. budgetStatus'[s] # "absent"
      BY <1>1, <2>2 DEF EnsureBudget, RegisterBudget, LedgerInv, TypeOK, ledgerVars
    <3> QED BY <2>2, <3>1, GotoIsTyped DEF EnsureBudget, Stages
  <2> QED BY <2>1, <2>2
<1>6. \A q \in Scopes : budgetStatus[q] # "absent" => budgetStatus'[q] = budgetStatus[q]
  BY <1>1 DEF RegisterScope, EnsureBudget, RegisterReviewedScope, RegisterBudget,
     LedgerInv, TypeOK, ledgerVars
<1>7. RunTypeOK'
  BY <1>2, <1>4, <1>5 DEF RunTypeOK, LedgerInv
<1>8. WorkerInv'
  <2>1. Relies(w)' /\ ~Binds(w)'
    BY <1>1, <1>2, <1>5 DEF Relies, Binds
  <2> QED BY <1>2, <1>5, <1>6, <2>1, StepOfWorker
<1>9. RowsInv'
  <2>1. \A k \in Keys : receipt[k].reservation = "overrun" => receipt[k].scope \in Scopes
    BY DEF LedgerInv, ReceiptShape, NoReceipt
  <2> QED BY <1>2, <1>6, <2>1 DEF RowsInv, Receipts
<1> QED BY <1>4, <1>7, <1>8, <1>9


\* The requests of other workers are other requests, and other questions.
LEMMA OthersAreElsewhere ==
  ASSUME RunInv, NEW w \in Workers, Binds(w), NEW v \in Workers \ {w}, pc[v] # "idle"
  PROVE  /\ Binds(v) => /\ job[v].key # job[w].key
                        /\ <<job[v].scope, job[v].test>> # <<job[w].scope, job[w].test>>
         /\ pc[v] = "score" => job[v].key # job[w].key
<1>1. /\ Relies(v) /\ Relies(w)
      /\ Binds(v) => job[v].key # job[w].key
  BY DEF RunInv, WorkerInv, Binds
<1>2. Binds(v) => <<job[v].scope, job[v].test>> # <<job[w].scope, job[w].test>>
  BY <1>1 DEF Relies, RunInv, LedgerInv, OneRequestPerQuestion
<1>3. pc[v] = "score" => job[v].key # job[w].key
  BY <1>1 DEF Relies
<1> QED BY <1>1, <1>2, <1>3

\* A dispatch binds the worker to a request that nobody else is bound to, of a
\* question that was never called.
LEMMA DispatchKeepsRun ==
  ASSUME RunInv, NEW w \in Workers, Dispatch(w)
  PROVE  RunInv'
<1> DEFINE s == job[w].scope
           t == job[w].test
           k == job[w].key
           r == Dispatched(s, t, "reserved", "open")
<1> USE DEF RunInv
<1>1. /\ pc[w] = "dispatch" /\ Relies(w) /\ s \in Scopes /\ t \in Tests /\ k \in Keys
      /\ budgetStatus[s] = "active" /\ Unasked(s, k, t)
      /\ BeginBudgeted(s, k, t, "open") /\ Goto(w, "send")
      /\ UNCHANGED <<job, lock, calls, reply, evals>>
  BY DEF Dispatch, BeginBudgeted, WorkerInv, Relies
<1>2. /\ r \in Receipt /\ r.scope = s /\ r.test = t /\ r.status = "dispatched"
      /\ r.reservation = "reserved" /\ r.answer = NoAnswer
  <2>1. r \in Receipt
    BY <1>1, DispatchedType
  <2> QED BY <2>1 DEF Dispatched
<1>3. /\ receipt' = [receipt EXCEPT ![k] = r] /\ budgetStatus' = budgetStatus
      /\ receipt[k] = NoReceipt
  BY <1>1 DEF BeginBudgeted, Unasked, LedgerInv, ReceiptShape
<1>4. LedgerInv'
  <2>1. Begin
    BY <1>1 DEF Begin
  <2> QED BY <2>1, NextInv DEF Next
<1>5. pc' \in [Workers -> Stages] /\ pc'[w] = "send" /\ \A v \in Workers \ {w} : pc'[v] = pc[v]
  BY <1>1, GotoIsTyped DEF Stages
<1>6. calls[<<s, t>>] = 0
  BY <1>1 DEF RowsInv, Unasked, Receipts
<1> HIDE DEF r
<1>7. receipt'[k] = r /\ \A j \in Keys : j # k => receipt'[j] = receipt[j]
  BY <1>1, <1>2, <1>3 DEF LedgerInv, TypeOK
<1>8. RunTypeOK'
  BY <1>1, <1>4, <1>5 DEF RunTypeOK, LedgerInv
<1>9. WorkerInv'
  <2>1. Relies(w)'
    BY <1>1, <1>2, <1>3, <1>5, <1>6, <1>7 DEF Relies, Binds
  <2>2. ASSUME NEW v \in Workers \ {w}, pc[v] # "idle", Binds(v) \/ pc[v] = "score"
        PROVE  job[v].key \in Keys /\ job[v].key # k
    <3>1. Relies(v)
      BY <2>2 DEF WorkerInv
    <3>2. receipt[k].status = "absent" /\ receipt[k].reservation = "none"
      BY <1>3 DEF NoReceipt
    <3>3. /\ job[v].key \in Keys
          /\ receipt[job[v].key].status = "dispatched" \/ receipt[job[v].key].reservation = "settled"
      BY <2>2, <3>1 DEF Relies
    <3> QED BY <3>2, <3>3
  <2>3. \A v \in Workers \ {w} : Binds(v) => job[v].key # job'[w].key
    BY <1>1, <2>2 DEF Binds
  <2> QED BY <1>1, <1>3, <1>5, <1>7, <2>1, <2>2, <2>3, StepOfWorker
<1>10. RowsInv'
  <2>1. /\ \A j \in Keys : receipt'[j].reservation = "overrun" => receipt'[j] = receipt[j]
        /\ \A j \in Keys : receipt'[j].answer # NoAnswer => receipt'[j] = receipt[j]
        /\ \A j \in Keys : receipt[j].reservation = "settled" => receipt'[j] = receipt[j]
    BY <1>2, <1>3, <1>7 DEF NoReceipt
  <2>2. \A q \in Scopes, u \in Tests : Receipts(q, u)' = {} => Receipts(q, u) = {}
    <3>1. s # NoScope
      BY <1>1, NullAssumption
    <3>2. \A q \in Scopes, u \in Tests : k \notin Receipts(q, u)
      BY <1>3, NullAssumption DEF Receipts, NoReceipt
    <3> QED BY <1>7, <3>2 DEF Receipts
  <2> QED BY <1>1, <1>3, <2>1, <2>2 DEF RowsInv
<1> QED BY <1>4, <1>8, <1>9, <1>10

\* The request is sent, once.
LEMMA SendKeepsRun ==
  ASSUME RunInv, NEW w \in Workers, Send(w)
  PROVE  RunInv'
<1> DEFINE s == job[w].scope
           t == job[w].test
           k == job[w].key
<1> USE DEF RunInv
<1>1. /\ pc[w] = "send" /\ Relies(w) /\ Binds(w)
      /\ s \in Scopes /\ t \in Tests /\ k \in Keys /\ Goto(w, "sent")
      /\ calls' = [calls EXCEPT ![<<s, t>>] = @ + 1]
  BY DEF Send, WorkerInv, Relies, Binds
<1>2. /\ scopeStatus' = scopeStatus /\ budgetStatus' = budgetStatus /\ spent' = spent
      /\ receipt' = receipt /\ saved' = saved
      /\ job' = job /\ lock' = lock /\ reply' = reply /\ evals' = evals
  BY DEF Send, ledgerVars
<1>3. LedgerInv'
  BY <1>2, NextInv DEF ledgerVars
<1>4. pc' \in [Workers -> Stages] /\ pc'[w] = "sent" /\ \A v \in Workers \ {w} : pc'[v] = pc[v]
  BY <1>1, GotoIsTyped DEF Stages
<1>5. calls[<<s, t>>] = 0 /\ k \in Receipts(s, t)
  BY <1>1 DEF Relies, Receipts
<1>6. /\ calls' \in [Scopes \X Tests -> Nat] /\ calls'[<<s, t>>] = 1
      /\ \A q \in Scopes \X Tests : q # <<s, t>> => calls'[q] = calls[q]
  BY <1>1, <1>5 DEF RunTypeOK
<1>7. RunTypeOK'
  BY <1>2, <1>3, <1>4, <1>6 DEF RunTypeOK, LedgerInv
<1>8. WorkerInv'
  <2>1. Relies(w)'
    BY <1>1, <1>2, <1>4, <1>6 DEF Relies, Binds
  <2>2. ASSUME NEW v \in Workers \ {w}, pc[v] # "idle", Binds(v)
        PROVE  calls'[<<job[v].scope, job[v].test>>] = calls[<<job[v].scope, job[v].test>>]
    <3>1. <<job[v].scope, job[v].test>> \in Scopes \X Tests
      BY <2>2 DEF WorkerInv, Relies
    <3> QED BY <1>1, <1>6, <2>2, <3>1, OthersAreElsewhere
  <2>3. \A v \in Workers \ {w} : Binds(v) => job[v].key # job'[w].key
    BY <1>1, <1>2 DEF WorkerInv
  <2> QED BY <1>2, <1>4, <2>1, <2>2, <2>3, StepOfWorker
<1>9. RowsInv'
  <2>1. ASSUME NEW q \in Scopes, NEW u \in Tests, Receipts(q, u) = {}
        PROVE  calls'[<<q, u>>] = 0
    BY <1>5, <1>6, <2>1 DEF RowsInv
  <2> QED BY <1>2, <2>1 DEF RowsInv, Receipts
<1> QED BY <1>3, <1>7, <1>8, <1>9

\* What the provider answers is kept with the worker that called it; nothing was
\* recorded for the request yet.
LEMMA ReceiveKeepsRun ==
  ASSUME RunInv, NEW w \in Workers, NEW a \in Answers, NEW c \in Costs \cup {NoCost},
         Receive(w, a, c)
  PROVE  RunInv'
<1> DEFINE k == job[w].key
           r == [answer |-> a, cost |-> c]
<1> USE DEF RunInv
<1>1. /\ pc[w] = "sent" /\ Relies(w) /\ Binds(w) /\ k \in Keys /\ Goto(w, "record")
      /\ reply' = [reply EXCEPT ![k] = r] /\ job' = [job EXCEPT ![w].reply = r]
  BY DEF Receive, WorkerInv, Relies, Binds
<1>2. /\ scopeStatus' = scopeStatus /\ budgetStatus' = budgetStatus /\ spent' = spent
      /\ receipt' = receipt /\ saved' = saved
      /\ calls' = calls /\ lock' = lock /\ evals' = evals
  BY DEF Receive, ledgerVars
<1>3. LedgerInv'
  BY <1>2, NextInv DEF ledgerVars
<1>4. pc' \in [Workers -> Stages] /\ pc'[w] = "record" /\ \A v \in Workers \ {w} : pc'[v] = pc[v]
  BY <1>1, GotoIsTyped DEF Stages
<1>5. r \in Reply /\ r.answer = a /\ r.cost = c
  BY DEF Reply
<1> HIDE DEF r
<1>6. /\ reply' \in [Keys -> Reply] /\ reply'[k] = r
      /\ \A j \in Keys : j # k => reply'[j] = reply[j]
  BY <1>1, <1>5 DEF RunTypeOK
<1>7. /\ job' \in [Workers -> Job] /\ \A v \in Workers \ {w} : job'[v] = job[v]
      /\ job'[w].scope = job[w].scope /\ job'[w].test = job[w].test /\ job'[w].key = k
      /\ job'[w].reply = r
  <2>1. job[w] \in Job
    BY DEF RunTypeOK
  <2> QED BY <1>1, <1>5, <2>1 DEF RunTypeOK, Job
<1>8. RunTypeOK'
  BY <1>2, <1>3, <1>4, <1>6, <1>7 DEF RunTypeOK, LedgerInv
<1>9. WorkerInv'
  <2>1. Relies(w)'
    BY <1>1, <1>2, <1>4, <1>5, <1>6, <1>7 DEF Relies, Binds
  <2>2. ASSUME NEW v \in Workers \ {w}, pc[v] # "idle", Binds(v)
        PROVE  reply'[job[v].key] = reply[job[v].key]
    <3>1. job[v].key \in Keys
      BY <2>2 DEF WorkerInv, Relies
    <3> QED BY <1>1, <1>6, <2>2, <3>1, OthersAreElsewhere
  <2>3. \A v \in Workers \ {w} : Binds(v) => job[v].key # job'[w].key
    BY <1>1, <1>7 DEF WorkerInv
  <2> QED BY <1>2, <1>4, <1>7, <2>1, <2>2, <2>3, StepOfWorker
<1>10. RowsInv'
  <2>1. receipt[k].answer = NoAnswer
    BY <1>1 DEF Relies
  <2> QED BY <1>2, <1>6, <2>1 DEF RowsInv, Receipts
<1> QED BY <1>3, <1>8, <1>9, <1>10


\* The answer that is recorded is the one the worker carries.
LEMMA RecordKeepsRun ==
  ASSUME RunInv, NEW w \in Workers, NEW e \in {"open", "bound", "unbound"}, RecordAnswer(w, e)
  PROVE  RunInv'
<1> DEFINE s == job[w].scope
           k == job[w].key
           a == job[w].reply.answer
           c == job[w].reply.cost
           r == [receipt[k] EXCEPT !.answer = a, !.cost = c, !.evidence = e]
<1> USE DEF RunInv
<1>1. /\ pc[w] = "record" /\ Relies(w) /\ Binds(w) /\ s \in Scopes /\ k \in Keys
      /\ a \in Answers /\ job[w].reply = reply[k]
      /\ RecordPending(s, k, a, c, e)
      /\ calls' = calls /\ reply' = reply /\ evals' = evals
  BY DEF RecordAnswer, WorkerInv, Relies, Binds
<1>2. c \in Costs \cup {NoCost}
  <2>1. reply[k] \in Reply
    BY <1>1 DEF RunTypeOK
  <2> QED BY <1>1, <2>1 DEF Reply
<1>3. LedgerInv'
  <2>1. Record
    BY <1>1, <1>2 DEF Record
  <2> QED BY <2>1, NextInv DEF Next
<1>4. /\ \/ Leave(w)
         \/ Goto(w, "settle") /\ job' = job /\ lock' = lock /\ c # NoCost
  BY DEF RecordAnswer
<1>5. /\ pc' \in [Workers -> Stages] /\ job' \in [Workers -> Job]
      /\ lock' \in [Scopes -> Workers \cup {NoWorker}]
      /\ \A v \in Workers \ {w} : pc'[v] = pc[v] /\ job'[v] = job[v]
      /\ pc'[w] # "idle" => pc'[w] = "settle" /\ job'[w] = job[w] /\ c # NoCost
  <2>1. CASE Leave(w)
    BY <2>1, LeaveIsTyped
  <2>2. CASE Goto(w, "settle") /\ job' = job /\ lock' = lock /\ c # NoCost
    BY <2>2, GotoIsTyped DEF RunTypeOK, Stages
  <2> QED BY <1>4, <2>1, <2>2
<1>6. receipt' = [receipt EXCEPT ![k] = r] /\ budgetStatus' = budgetStatus
  BY <1>1 DEF RecordPending
<1>7. /\ r.scope = receipt[k].scope /\ r.test = receipt[k].test /\ r.status = receipt[k].status
      /\ r.reservation = receipt[k].reservation /\ r.answer = a /\ r.cost = c
  <2>1. receipt[k] \in Receipt
    BY <1>1 DEF LedgerInv, TypeOK
  <2> QED BY <2>1 DEF Receipt
<1> HIDE DEF r
<1>8. receipt'[k] = r /\ \A j \in Keys : j # k => receipt'[j] = receipt[j]
  BY <1>1, <1>6 DEF LedgerInv, TypeOK
<1>9. RunTypeOK'
  BY <1>1, <1>3, <1>5 DEF RunTypeOK, LedgerInv
<1>10. WorkerInv'
  <2>1. pc'[w] # "idle" => Relies(w)'
    BY <1>1, <1>2, <1>5, <1>6, <1>7, <1>8 DEF Relies, Binds
  <2>2. ASSUME NEW v \in Workers \ {w}, pc[v] # "idle", Binds(v) \/ pc[v] = "score"
        PROVE  receipt'[job[v].key] = receipt[job[v].key]
    <3>1. job[v].key \in Keys
      BY <2>2 DEF WorkerInv, Relies
    <3> QED BY <1>1, <1>8, <2>2, <3>1, OthersAreElsewhere
  <2>3. Binds(w)' => \A v \in Workers \ {w} : Binds(v) => job[v].key # job'[w].key
    BY <1>1, <1>5 DEF WorkerInv, Binds
  <2> QED BY <1>1, <1>5, <1>6, <2>1, <2>2, <2>3, StepOfWorker
<1>11. RowsInv'
  <2>1. /\ \A j \in Keys : /\ receipt'[j].reservation = receipt[j].reservation
                           /\ receipt'[j].scope = receipt[j].scope
                           /\ receipt'[j].test = receipt[j].test
    BY <1>7, <1>8
  <2>2. \A q \in Scopes, u \in Tests : Receipts(q, u)' = Receipts(q, u)
    BY <2>1 DEF Receipts
  <2>3. \A j \in Keys : receipt'[j].answer # NoAnswer =>
          receipt'[j].answer = reply[j].answer /\ receipt'[j].cost = reply[j].cost
    BY <1>1, <1>7, <1>8 DEF RowsInv
  <2> QED BY <1>1, <1>6, <2>1, <2>2, <2>3 DEF RowsInv
<1> QED BY <1>3, <1>9, <1>10, <1>11

\* A settlement ends the worker's claim; only within the budget does it go on to
\* the evaluation.
LEMMA SettleKeepsRun ==
  ASSUME RunInv, NEW w \in Workers, SettleAnswer(w)
  PROVE  RunInv'
<1> DEFINE s == job[w].scope
           k == job[w].key
           a == job[w].reply.answer
           c == job[w].reply.cost
           over == Overruns(s, c)
           r == Settled(receipt[k], a, c, IF over THEN "overrun" ELSE "settled")
<1> USE DEF RunInv
<1>1. /\ pc[w] = "settle" /\ Relies(w) /\ Binds(w) /\ s \in Scopes /\ k \in Keys
      /\ job[w].reply = reply[k] /\ a \in Answers /\ c \in Costs
      /\ SettleAndSaveBudgeted(s, k, a, c)
      /\ calls' = calls /\ reply' = reply /\ evals' = evals
  BY DEF SettleAnswer, WorkerInv, Relies, Binds
<1>2. LedgerInv'
  <2>1. Settle
    BY <1>1 DEF Settle
  <2> QED BY <2>1, NextInv DEF Next
<1>3. IF over THEN Leave(w) ELSE Goto(w, "score") /\ job' = job /\ lock' = lock
  BY DEF SettleAnswer
<1>4. /\ pc' \in [Workers -> Stages] /\ job' \in [Workers -> Job]
      /\ lock' \in [Scopes -> Workers \cup {NoWorker}]
      /\ \A v \in Workers \ {w} : pc'[v] = pc[v] /\ job'[v] = job[v]
      /\ pc'[w] # "idle" => pc'[w] = "score" /\ job'[w] = job[w] /\ ~over
  <2>1. CASE over
    BY <1>3, <2>1, LeaveIsTyped
  <2>2. CASE ~over
    BY <1>3, <2>2, GotoIsTyped DEF RunTypeOK, Stages
  <2> QED BY <2>1, <2>2
<1>5. /\ receipt' = [receipt EXCEPT ![k] = r]
      /\ budgetStatus' = [budgetStatus EXCEPT ![s] = IF over THEN "overrun" ELSE "active"]
      /\ budgetStatus[s] = "active"
  BY <1>1 DEF SettleAndSaveBudgeted, LedgerInv, TypeOK
<1>6. /\ r.scope = receipt[k].scope /\ r.test = receipt[k].test /\ r.answer = a /\ r.cost = c
      /\ r.reservation = IF over THEN "overrun" ELSE "settled"
  BY <1>1, SettledType DEF LedgerInv, TypeOK
<1> HIDE DEF r, over
<1>7. receipt'[k] = r /\ \A j \in Keys : j # k => receipt'[j] = receipt[j]
  BY <1>1, <1>5 DEF LedgerInv, TypeOK
<1>8. \A q \in Scopes : /\ q # s => budgetStatus'[q] = budgetStatus[q]
                        /\ budgetStatus'[s] = IF over THEN "overrun" ELSE "active"
  BY <1>1, <1>5 DEF LedgerInv, TypeOK
<1>9. RunTypeOK'
  BY <1>1, <1>2, <1>4 DEF RunTypeOK, LedgerInv
<1>10. WorkerInv'
  <2>1. (pc'[w] # "idle" => Relies(w)') /\ ~Binds(w)'
    BY <1>1, <1>4, <1>6, <1>7, <1>8 DEF Relies, Binds
  <2>2. ASSUME NEW v \in Workers \ {w}, pc[v] # "idle", Binds(v) \/ pc[v] = "score"
        PROVE  receipt'[job[v].key] = receipt[job[v].key]
    <3>1. job[v].key \in Keys
      BY <2>2 DEF WorkerInv, Relies
    <3> QED BY <1>1, <1>7, <2>2, <3>1, OthersAreElsewhere
  <2>3. \A q \in Scopes : budgetStatus[q] # "absent" => budgetStatus'[q] # "absent"
    BY <1>1, <1>8
  <2> QED BY <1>1, <1>4, <2>1, <2>2, <2>3, StepOfWorker
<1>11. RowsInv'
  <2>1. receipt[k].scope = s /\ receipt[k].reservation = "reserved"
    BY <1>1 DEF Relies
  <2>2. \A q \in Scopes, u \in Tests : Receipts(q, u)' = Receipts(q, u)
    BY <1>6, <1>7 DEF Receipts
  <2>3. ASSUME NEW j \in Keys, receipt'[j].reservation = "overrun"
        PROVE  budgetStatus'[receipt'[j].scope] = "overrun"
    <3>1. CASE j = k
      BY <1>1, <1>6, <1>7, <1>8, <2>1, <2>3, <3>1
    <3>2. CASE j # k
      <4>1. receipt'[j] = receipt[j] /\ budgetStatus[receipt[j].scope] = "overrun"
        BY <1>7, <2>3, <3>2 DEF RowsInv
      <4>2. receipt[j].scope \in Scopes
        BY <2>3, <4>1 DEF LedgerInv, ReceiptShape, NoReceipt
      <4> QED BY <1>5, <1>8, <4>1, <4>2
    <3> QED BY <3>1, <3>2
  <2>4. \A j \in Keys : evals[j] <= 1 /\ (evals[j] = 1 => receipt'[j].reservation = "settled")
    BY <1>7, <2>1 DEF RowsInv
  <2>5. \A j \in Keys : receipt'[j].answer # NoAnswer =>
          receipt'[j].answer = reply[j].answer /\ receipt'[j].cost = reply[j].cost
    BY <1>1, <1>6, <1>7 DEF RowsInv
  <2> QED BY <1>1, <2>2, <2>3, <2>4, <2>5 DEF RowsInv
<1> QED BY <1>2, <1>9, <1>10, <1>11

\* The evaluation is added once, to a request settled within the budget.
LEMMA ScoreKeepsRun ==
  ASSUME RunInv, NEW w \in Workers, Score(w)
  PROVE  RunInv'
<1> DEFINE k == job[w].key
<1> USE DEF RunInv
<1>1. /\ pc[w] = "score" /\ k \in Keys /\ receipt[k].reservation = "settled"
      /\ evals' = [evals EXCEPT ![k] = IF @ = 0 THEN 1 ELSE @] /\ Leave(w)
      /\ calls' = calls /\ reply' = reply
  BY DEF Score, WorkerInv, Relies
<1>2. /\ scopeStatus' = scopeStatus /\ budgetStatus' = budgetStatus /\ spent' = spent
      /\ receipt' = receipt /\ saved' = saved
  BY DEF Score, ledgerVars
<1>3. LedgerInv'
  BY <1>2, NextInv DEF ledgerVars
<1>4. /\ pc' \in [Workers -> Stages] /\ job' \in [Workers -> Job]
      /\ lock' \in [Scopes -> Workers \cup {NoWorker}]
      /\ pc'[w] = "idle" /\ \A v \in Workers \ {w} : pc'[v] = pc[v] /\ job'[v] = job[v]
  BY <1>1, LeaveIsTyped
<1>5. /\ evals' \in [Keys -> Nat]
      /\ \A j \in Keys : evals'[j] = evals[j] \/ (j = k /\ evals'[j] = 1)
  BY <1>1 DEF RunTypeOK
<1>6. RunTypeOK'
  BY <1>1, <1>2, <1>3, <1>4, <1>5 DEF RunTypeOK, LedgerInv
<1>7. WorkerInv'
  <2>1. ~Binds(w)'
    BY <1>4 DEF Binds
  <2> QED BY <1>1, <1>2, <1>4, <2>1, StepOfWorker
<1>8. RowsInv'
  <2>1. \A j \in Keys : evals'[j] <= 1 /\ (evals'[j] = 1 => receipt[j].reservation = "settled")
    BY <1>1, <1>5 DEF RowsInv
  <2> QED BY <1>1, <1>2, <2>1 DEF RowsInv, Receipts
<1> QED BY <1>3, <1>6, <1>7, <1>8

\* Every step of the run preserves its invariant.
LEMMA NextRun == RunInv /\ [RunNext]_vars => RunInv'
<1> SUFFICES ASSUME RunInv, [RunNext]_vars PROVE RunInv'
  OBVIOUS
<1>1. ASSUME NEW w \in Workers, Advance(w) PROVE RunInv'
  <2>1. CASE RegisterScope(w) \/ EnsureBudget(w)
    BY <2>1, RegistrationKeepsRun
  <2>2. CASE Lock(w) \/ Preflight(w)
    BY <2>2, MovesKeepRun
  <2>3. CASE Dispatch(w)
    BY <2>3, DispatchKeepsRun
  <2>4. CASE Send(w)
    BY <2>4, SendKeepsRun
  <2>5. CASE \E a \in Answers, c \in Costs \cup {NoCost} : Receive(w, a, c)
    BY <2>5, ReceiveKeepsRun
  <2>6. CASE \E evidence \in {"open", "bound", "unbound"} : RecordAnswer(w, evidence)
    BY <2>6, RecordKeepsRun
  <2>7. CASE SettleAnswer(w)
    BY <2>7, SettleKeepsRun
  <2>8. CASE Score(w)
    BY <2>8, ScoreKeepsRun
  <2> QED BY <1>1, <2>1, <2>2, <2>3, <2>4, <2>5, <2>6, <2>7, <2>8 DEF Advance
<1>2. ASSUME NEW w \in Workers,
             (\E s \in Scopes, t \in Tests, k \in Keys : Start(w, s, t, k)) \/ Stop(w)
      PROVE  RunInv'
  BY <1>2, MovesKeepRun
<1>3. ASSUME NEW s \in Scopes, LoseLock(s) PROVE RunInv'
  BY <1>3, LostLockKeepsRun
<1>4. CASE UNCHANGED vars
  <2>1. /\ scopeStatus' = scopeStatus /\ budgetStatus' = budgetStatus /\ spent' = spent
        /\ receipt' = receipt /\ saved' = saved /\ pc' = pc /\ job' = job /\ lock' = lock
        /\ calls' = calls /\ reply' = reply /\ evals' = evals
    BY <1>4 DEF vars, ledgerVars
  <2>2. LedgerInv'
    BY <2>1, NextInv DEF RunInv, ledgerVars
  <2>3. RunTypeOK'
    BY <2>1, <2>2 DEF RunInv, RunTypeOK, LedgerInv
  <2>4. \A w \in Workers : Relies(w)' = Relies(w) /\ Binds(w)' = Binds(w)
    BY <2>1 DEF Relies, Binds
  <2>5. WorkerInv'
    BY <2>1, <2>4 DEF RunInv, WorkerInv
  <2>6. RowsInv'
    BY <2>1 DEF RunInv, RowsInv, Receipts
  <2> QED BY <2>2, <2>3, <2>5, <2>6 DEF RunInv
<1> QED BY <1>1, <1>2, <1>3, <1>4 DEF RunNext

\* Every reachable state of a controlled run satisfies its invariant.
THEOREM RunInvariant == RunSpec => []RunInv
  BY InitRun, NextRun, PTL DEF RunSpec

\* The columns, the workers, the locks and the answers have their types.
THEOREM RunTypeCorrect == RunSpec => []RunTypeOK
<1>1. RunInv => RunTypeOK
  BY DEF RunInv
<1> QED BY <1>1, RunInvariant, PTL

\* Whatever a run records or saves is what the provider answered to that request.
THEOREM AnswersAreProviderAnswers == RunSpec => []SavedIsProviderAnswer
<1>1. RunInv => SavedIsProviderAnswer
  BY DEF RunInv, RowsInv, LedgerInv, SavedMatchesReceipt, SavedIsProviderAnswer
<1> QED BY <1>1, RunInvariant, PTL

\* An answer is scored at most once, after it was settled and saved, and never
\* after an overrun.
THEOREM ScoresFollowSettlement == RunSpec => []ScoredOnceIfSettled
<1>1. RunInv => ScoredOnceIfSettled
  <2> SUFFICES ASSUME RunInv, NEW k \in Keys
               PROVE  evals[k] <= 1 /\ (evals[k] = 1 => saved[k] # NoAnswer /\ receipt[k].reservation = "settled")
    BY DEF ScoredOnceIfSettled
  <2>1. receipt[k].reservation = "settled" => receipt[k].status = "settled"
    <3>1. receipt[k].status \in {"absent", "dispatched", "settled"}
      BY DEF RunInv, LedgerInv, TypeOK, Receipt
    <3> QED BY <3>1 DEF RunInv, LedgerInv, ReceiptShape, NoReceipt
  <2>2. receipt[k].reservation = "settled" => saved[k] # NoAnswer
    BY <2>1 DEF RunInv, LedgerInv, SavedMatchesReceipt
  <2> QED BY <2>2 DEF RunInv, RowsInv
<1> QED BY <1>1, RunInvariant, PTL


----------------------------------------------------------------------------
(* The run implements PaidOnce: a dispatch claims its question, the request   *)
(* that is sent calls it, a settlement answers it, and all else is a stutter. *)

PhaseOf(s, t) ==
  IF Receipts(s, t) = {} THEN "open"
  ELSE IF \E k \in Receipts(s, t) : receipt[k].status = "settled" THEN "answered"
  ELSE IF calls[<<s, t>>] = 0 THEN "claimed" ELSE "called"

Halted == [s \in Scopes |-> budgetStatus[s] = "overrun"]

\* The phases of the questions, one by one.
LEMMA PhaseIsOf ==
  /\ \A s \in Scopes, t \in Tests : Phase[<<s, t>>] = PhaseOf(s, t)
  /\ Phase = [q \in Scopes \X Tests |-> PhaseOf(q[1], q[2])]
<1>1. \A q \in Scopes \X Tests : q = <<q[1], q[2]>> /\ q[1] \in Scopes /\ q[2] \in Tests
  OBVIOUS
<1>2. Phase = [q \in Scopes \X Tests |-> PhaseOf(q[1], q[2])]
  BY <1>1 DEF Phase, PhaseOf
<1> QED BY <1>2

\* A step that moves one question changes the abstract phase of that one.
LEMMA PhaseMoves ==
  ASSUME NEW s \in Scopes, NEW t \in Tests,
         \A q \in Scopes, u \in Tests : <<q, u>> # <<s, t>> => PhaseOf(q, u)' = PhaseOf(q, u)
  PROVE  Phase' = [Phase EXCEPT ![<<s, t>>] = PhaseOf(s, t)']
<1>1. \A q \in Scopes \X Tests : q = <<q[1], q[2]>> /\ q[1] \in Scopes /\ q[2] \in Tests
  OBVIOUS
<1>2. Phase' = [q \in Scopes \X Tests |-> PhaseOf(q[1], q[2])']
  BY <1>1 DEF Phase, PhaseOf
<1>3. Phase = [q \in Scopes \X Tests |-> PhaseOf(q[1], q[2])]
  BY PhaseIsOf
<1>4. \A q \in Scopes \X Tests :
        PhaseOf(q[1], q[2])' = IF q = <<s, t>> THEN PhaseOf(s, t)' ELSE PhaseOf(q[1], q[2])
  BY <1>1
<1> QED BY <1>2, <1>3, <1>4

\* A question keeps its phase when its receipts and its calls stay.
LEMMA PhaseStays ==
  ASSUME NEW s \in Scopes, NEW t \in Tests, Receipts(s, t)' = Receipts(s, t),
         \A k \in Receipts(s, t) : receipt'[k].status = receipt[k].status,
         calls'[<<s, t>>] = calls[<<s, t>>]
  PROVE  PhaseOf(s, t)' = PhaseOf(s, t)
  BY DEF PhaseOf

\* A step that moves no question, calls no provider and overruns no budget is a
\* stutter.
LEMMA RunStutters ==
  ASSUME \A s \in Scopes, t \in Tests : PhaseOf(s, t)' = PhaseOf(s, t), calls' = calls,
         \A s \in Scopes : budgetStatus'[s] = "overrun" <=> budgetStatus[s] = "overrun"
  PROVE  UNCHANGED <<Phase, calls, Halted>>
<1>1. \A q \in Scopes \X Tests : q = <<q[1], q[2]>> /\ q[1] \in Scopes /\ q[2] \in Tests
  OBVIOUS
<1>2. Phase' = [q \in Scopes \X Tests |-> PhaseOf(q[1], q[2])']
  BY <1>1 DEF Phase, PhaseOf
<1>3. Phase' = Phase
  BY <1>1, <1>2, PhaseIsOf
<1>4. Halted' = Halted
  BY DEF Halted
<1> QED BY <1>3, <1>4

\* The initial states of a run are initial states of PaidOnce.
LEMMA RunInitMaps == RunInit => Abstract!Init
<1> SUFFICES ASSUME RunInit PROVE Abstract!Init
  OBVIOUS
<1>1. \A s \in Scopes, t \in Tests : Receipts(s, t) = {}
  BY NullAssumption DEF RunInit, Init, NoReceipt, Receipts
<1>2. Phase = [q \in Scopes \X Tests |-> "open"]
  BY <1>1 DEF Phase
<1>3. calls = [q \in Scopes \X Tests |-> 0] /\ [s \in Scopes |-> budgetStatus[s] = "overrun"] = [s \in Scopes |-> FALSE]
  BY DEF RunInit, Init
<1> QED BY <1>2, <1>3 DEF Abstract!Init

\* A dispatch claims its question: it has no receipt, and none of its scope is
\* unresolved.
LEMMA RunClaims ==
  ASSUME RunInv, NEW w \in Workers, Dispatch(w)
  PROVE  \E s \in Scopes, t \in Tests : Abstract!Claim(s, t)
<1>1. PICK s \in Scopes, t \in Tests, k \in Keys : BeginBudgeted(s, k, t, "open") /\ calls' = calls
  BY DEF Dispatch, RunInv, WorkerInv, Relies
<1> DEFINE r == Dispatched(s, t, "reserved", "open")
<1>2. /\ r.scope = s /\ r.test = t /\ r.status = "dispatched" /\ r \in Receipt
      /\ receipt' = [receipt EXCEPT ![k] = r] /\ budgetStatus' = budgetStatus
      /\ scopeStatus[s] = "active" /\ budgetStatus[s] = "active" /\ Unasked(s, k, t)
      /\ receipt[k] = NoReceipt
  BY <1>1, DispatchedType DEF BeginBudgeted, Dispatched, Unasked, RunInv, LedgerInv, ReceiptShape
<1> HIDE DEF r
<1>3. receipt'[k] = r /\ \A j \in Keys : j # k => receipt'[j] = receipt[j]
  BY <1>2 DEF RunInv, LedgerInv, TypeOK
<1>4. Receipts(s, t) = {} /\ Receipts(s, t)' = {k} /\ calls[<<s, t>>] = 0
  <2>1. Receipts(s, t) = {}
    BY <1>2 DEF Unasked, Receipts
  <2>2. Receipts(s, t)' = {k}
    BY <1>2, <1>3, <2>1 DEF Receipts
  <2> QED BY <2>1, <2>2 DEF RunInv, RowsInv
<1>5. PhaseOf(s, t) = "open" /\ PhaseOf(s, t)' = "claimed"
  BY <1>1, <1>2, <1>3, <1>4 DEF PhaseOf
<1>6. ASSUME NEW q \in Scopes, NEW u \in Tests, <<q, u>> # <<s, t>>
      PROVE  PhaseOf(q, u)' = PhaseOf(q, u)
  <2>1. k \notin Receipts(q, u) /\ k \notin Receipts(q, u)'
    BY <1>2, <1>3, <1>6, NullAssumption DEF Receipts, NoReceipt
  <2>2. Receipts(q, u)' = Receipts(q, u) /\ \A j \in Receipts(q, u) : receipt'[j] = receipt[j]
    BY <1>3, <2>1 DEF Receipts
  <2> QED BY <1>1, <2>2, PhaseStays
<1>7. Phase' = [Phase EXCEPT ![<<s, t>>] = "claimed"]
  BY <1>5, <1>6, PhaseMoves
<1>8. \A u \in Tests : PhaseOf(s, u) \in {"open", "answered"}
  <2>1. \A j \in Keys : receipt[j].scope = s => receipt[j].status # "dispatched"
    BY <1>2 DEF RunInv, LedgerInv, OneUnresolvedAttempt, Outstanding
  <2>2. \A j \in Keys : receipt[j].scope = s => receipt[j].status = "settled"
    BY <2>1, NullAssumption DEF RunInv, LedgerInv, TypeOK, Receipt, ReceiptShape, NoReceipt
  <2> QED BY <2>2 DEF PhaseOf, Receipts
<1>9. /\ Phase[<<s, t>>] = "open" /\ \A u \in Tests : Phase[<<s, u>>] \in {"open", "answered"}
  BY <1>5, <1>8, PhaseIsOf
<1> QED BY <1>1, <1>2, <1>7, <1>9 DEF Abstract!Claim

\* The request that is sent is the one call of its question.
LEMMA RunCalls ==
  ASSUME RunInv, NEW w \in Workers, Send(w)
  PROVE  \E s \in Scopes, t \in Tests : Abstract!Call(s, t)
<1>1. PICK s \in Scopes, t \in Tests, k \in Keys :
        /\ s = job[w].scope /\ t = job[w].test
        /\ receipt[k].scope = s /\ receipt[k].test = t /\ receipt[k].status = "dispatched"
        /\ calls[<<s, t>>] = 0
  BY DEF Send, RunInv, WorkerInv, Relies, Binds
<1>2. /\ receipt' = receipt /\ budgetStatus' = budgetStatus
      /\ calls' = [calls EXCEPT ![<<s, t>>] = @ + 1]
  BY <1>1 DEF Send, ledgerVars
<1>3. k \in Receipts(s, t) /\ \A j \in Receipts(s, t) : receipt[j].status # "settled"
  BY <1>1 DEF Receipts, RunInv, LedgerInv, OneRequestPerQuestion
<1>4. calls'[<<s, t>>] = 1 /\ \A q \in Scopes \X Tests : q # <<s, t>> => calls'[q] = calls[q]
  BY <1>1, <1>2 DEF RunInv, RunTypeOK
<1>5. PhaseOf(s, t) = "claimed" /\ PhaseOf(s, t)' = "called"
  BY <1>1, <1>2, <1>3, <1>4 DEF PhaseOf, Receipts
<1>6. ASSUME NEW q \in Scopes, NEW u \in Tests, <<q, u>> # <<s, t>>
      PROVE  PhaseOf(q, u)' = PhaseOf(q, u)
  BY <1>2, <1>4, <1>6 DEF PhaseOf, Receipts
<1>7. Phase' = [Phase EXCEPT ![<<s, t>>] = "called"]
  BY <1>5, <1>6, PhaseMoves
<1>8. Phase[<<s, t>>] = "claimed"
  BY <1>5, PhaseIsOf
<1> QED BY <1>2, <1>7, <1>8 DEF Abstract!Call

\* A settlement answers the question that was called, and an overrun halts its scope.
LEMMA RunAnswers ==
  ASSUME RunInv, NEW w \in Workers, SettleAnswer(w)
  PROVE  \E s \in Scopes, t \in Tests : Abstract!Answer(s, t)
<1>1. PICK s \in Scopes, t \in Tests, k \in Keys, a \in Answers, c \in Costs :
        /\ receipt[k].scope = s /\ receipt[k].test = t /\ receipt[k].status = "dispatched"
        /\ calls[<<s, t>>] = 1 /\ calls' = calls
        /\ SettleAndSaveBudgeted(s, k, a, c)
  BY DEF SettleAnswer, RunInv, WorkerInv, Relies, Binds
<1>2. PICK v \in {"overrun", "settled"} : receipt' = [receipt EXCEPT ![k] = Settled(receipt[k], a, c, v)]
  BY <1>1 DEF SettleAndSaveBudgeted, RunInv, LedgerInv, TypeOK
<1>3. PICK over \in BOOLEAN : budgetStatus' = [budgetStatus EXCEPT ![s] = IF over THEN "overrun" ELSE "active"]
  BY <1>1 DEF SettleAndSaveBudgeted, Overruns
<1> DEFINE r == Settled(receipt[k], a, c, v)
<1>4. r.scope = s /\ r.test = t /\ r.status = "settled"
  BY <1>1, SettledType DEF RunInv, LedgerInv, TypeOK
<1> HIDE DEF r
<1>5. receipt'[k] = r /\ \A j \in Keys : j # k => receipt'[j] = receipt[j]
  BY <1>2 DEF RunInv, LedgerInv, TypeOK, r
<1>6. k \in Receipts(s, t) /\ \A j \in Receipts(s, t) : receipt[j].status # "settled"
  BY <1>1 DEF Receipts, RunInv, LedgerInv, OneRequestPerQuestion
<1>7. k \in Receipts(s, t)'
  BY <1>4, <1>5 DEF Receipts
<1>8. PhaseOf(s, t) = "called" /\ PhaseOf(s, t)' = "answered"
  BY <1>1, <1>4, <1>5, <1>6, <1>7 DEF PhaseOf
<1>9. ASSUME NEW q \in Scopes, NEW u \in Tests, <<q, u>> # <<s, t>>
      PROVE  PhaseOf(q, u)' = PhaseOf(q, u)
  <2>1. k \notin Receipts(q, u) /\ k \notin Receipts(q, u)'
    BY <1>1, <1>4, <1>5, <1>9 DEF Receipts
  <2>2. Receipts(q, u)' = Receipts(q, u) /\ \A j \in Receipts(q, u) : receipt'[j] = receipt[j]
    BY <1>5, <2>1 DEF Receipts
  <2> QED BY <1>1, <2>2, PhaseStays
<1>10. Phase' = [Phase EXCEPT ![<<s, t>>] = "answered"]
  BY <1>8, <1>9, PhaseMoves
<1>11. \E o \in BOOLEAN : Halted' = [Halted EXCEPT ![s] = o]
  <2>1. Halted' = [Halted EXCEPT ![s] = over]
    BY <1>3 DEF Halted, RunInv, LedgerInv, TypeOK
  <2> QED BY <2>1
<1>12. Phase[<<s, t>>] = "called"
  BY <1>8, PhaseIsOf
<1>13. Abstract!Answer(s, t)
  BY <1>1, <1>10, <1>11, <1>12 DEF Abstract!Answer, Halted
<1> QED BY <1>13

\* Every other step of a worker, and the loss of a lock, is a stutter.
LEMMA RunOthersStutter ==
  ASSUME RunInv, NEW w \in Workers,
         \/ \E s \in Scopes, t \in Tests, k \in Keys : Start(w, s, t, k)
         \/ RegisterScope(w) \/ EnsureBudget(w) \/ Lock(w) \/ Preflight(w)
         \/ \E a \in Answers, c \in Costs \cup {NoCost} : Receive(w, a, c)
         \/ \E e \in {"open", "bound", "unbound"} : RecordAnswer(w, e)
         \/ Score(w) \/ Stop(w)
  PROVE  UNCHANGED <<Phase, calls, Halted>>
<1>1. ASSUME NEW e \in {"open", "bound", "unbound"}, RecordAnswer(w, e)
      PROVE  UNCHANGED <<Phase, calls, Halted>>
  <2> DEFINE k == job[w].key
             r == [receipt[k] EXCEPT !.answer = job[w].reply.answer,
                                     !.cost = job[w].reply.cost, !.evidence = e]
  <2>1. /\ k \in Keys /\ receipt' = [receipt EXCEPT ![k] = r]
        /\ budgetStatus' = budgetStatus /\ calls' = calls
    BY <1>1 DEF RecordAnswer, RecordPending, RunInv, WorkerInv, Relies
  <2>2. r.scope = receipt[k].scope /\ r.test = receipt[k].test /\ r.status = receipt[k].status
    <3>1. receipt[k] \in Receipt
      BY <2>1 DEF RunInv, LedgerInv, TypeOK
    <3> QED BY <3>1 DEF Receipt
  <2> HIDE DEF r
  <2>3. receipt'[k] = r /\ \A j \in Keys : j # k => receipt'[j] = receipt[j]
    BY <2>1 DEF RunInv, LedgerInv, TypeOK
  <2>4. \A j \in Keys : /\ receipt'[j].scope = receipt[j].scope
                        /\ receipt'[j].test = receipt[j].test
                        /\ receipt'[j].status = receipt[j].status
    BY <2>2, <2>3
  <2>5. ASSUME NEW s \in Scopes, NEW t \in Tests PROVE PhaseOf(s, t)' = PhaseOf(s, t)
    <3>1. Receipts(s, t)' = Receipts(s, t) /\ \A j \in Receipts(s, t) : j \in Keys
      BY <2>4 DEF Receipts
    <3> QED BY <2>1, <2>4, <3>1, PhaseStays
  <2> QED BY <2>1, <2>5, RunStutters
<1>2. ASSUME ~\E e \in {"open", "bound", "unbound"} : RecordAnswer(w, e)
      PROVE  UNCHANGED <<Phase, calls, Halted>>
  <2>1. /\ receipt' = receipt /\ calls' = calls
        /\ \A s \in Scopes : budgetStatus'[s] = "overrun" <=> budgetStatus[s] = "overrun"
    <3>1. ASSUME NEW s \in Scopes, NEW t \in Tests, NEW k \in Keys, Start(w, s, t, k)
          PROVE  <2>1!:
      BY <3>1 DEF Start, ledgerVars
    <3>2. CASE RegisterScope(w)
      BY <3>2 DEF RegisterScope, RegisterReviewedScope, ledgerVars
    <3>3. CASE EnsureBudget(w)
      BY <3>3 DEF EnsureBudget, RegisterBudget, ledgerVars, RunInv, LedgerInv, TypeOK
    <3>4. CASE Lock(w) \/ Preflight(w) \/ Score(w) \/ Stop(w)
      BY <3>4 DEF Lock, Preflight, Score, Stop, ledgerVars
    <3>5. ASSUME NEW a \in Answers, NEW c \in Costs \cup {NoCost}, Receive(w, a, c)
          PROVE  <2>1!:
      BY <3>5 DEF Receive, ledgerVars
    <3> QED BY <1>2, <3>1, <3>2, <3>3, <3>4, <3>5
  <2>2. \A s \in Scopes, t \in Tests : PhaseOf(s, t)' = PhaseOf(s, t)
    BY <2>1 DEF PhaseOf, Receipts
  <2> QED BY <2>1, <2>2, RunStutters
<1> QED BY <1>1, <1>2

\* Every step of the run is a step of PaidOnce or a stutter.
LEMMA RunNextMaps ==
  RunInv /\ [RunNext]_vars => [Abstract!Next]_<<Phase, calls, Halted>>
<1> SUFFICES ASSUME RunInv, [RunNext]_vars
             PROVE  [Abstract!Next]_<<Phase, calls, Halted>>
  OBVIOUS
<1>0. ASSUME NEW s \in Scopes, NEW t \in Tests,
             Abstract!Claim(s, t) \/ Abstract!Call(s, t) \/ Abstract!Answer(s, t)
      PROVE  Abstract!Next
  BY <1>0, Zenon DEF Abstract!Next
<1> USE DEF Halted
<1>1. ASSUME NEW w \in Workers, Dispatch(w) PROVE Abstract!Next
  BY <1>0, <1>1, RunClaims
<1>2. ASSUME NEW w \in Workers, Send(w) PROVE Abstract!Next
  BY <1>0, <1>2, RunCalls
<1>3. ASSUME NEW w \in Workers, SettleAnswer(w) PROVE Abstract!Next
  BY <1>0, <1>3, RunAnswers
<1>4. ASSUME NEW w \in Workers,
             \/ \E s \in Scopes, t \in Tests, k \in Keys : Start(w, s, t, k)
             \/ RegisterScope(w) \/ EnsureBudget(w) \/ Lock(w) \/ Preflight(w)
             \/ \E a \in Answers, c \in Costs \cup {NoCost} : Receive(w, a, c)
             \/ \E e \in {"open", "bound", "unbound"} : RecordAnswer(w, e)
             \/ Score(w) \/ Stop(w)
      PROVE  UNCHANGED <<Phase, calls, Halted>>
  BY <1>4, RunOthersStutter
<1>5. ASSUME (\E s \in Scopes : LoseLock(s)) \/ UNCHANGED vars
      PROVE  UNCHANGED <<Phase, calls, Halted>>
  <2>1. receipt' = receipt /\ calls' = calls /\ budgetStatus' = budgetStatus
    BY <1>5 DEF LoseLock, vars, ledgerVars
  <2>2. \A s \in Scopes, t \in Tests : PhaseOf(s, t)' = PhaseOf(s, t)
    BY <2>1 DEF PhaseOf, Receipts
  <2> QED BY <2>1, <2>2, RunStutters
<1> QED BY <1>1, <1>2, <1>3, <1>4, <1>5 DEF RunNext, Advance

\* The controlled run implements PaidOnce: whatever workers stop, whatever locks are
\* lost, a question is claimed before it is sent, sent once at most, and its scope
\* claims nothing more until it is answered, or ever after an overrun.
THEOREM RunImplementsPaidOnce == RunSpec => ImplementsPaidOnce
<1>1. RunInit => Abstract!Init
  BY RunInitMaps
<1>2. RunInv /\ [RunNext]_vars => [Abstract!Next]_<<Phase, calls, Halted>>
  BY RunNextMaps
<1> QED BY <1>1, <1>2, RunInvariant, PTL
        DEF RunSpec, ImplementsPaidOnce, Abstract!Spec, Halted

=============================================================================
