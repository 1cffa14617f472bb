------------------------------- MODULE Ac3Paired -------------------------------
(***************************************************************************)
(* The paired AC3 study: every frozen question is asked once of the target *)
(* and its saved answer once of a scorer, on one budget.                   *)
(*   backend/app/services/ac3_paired_budget_ledger.py  (PairedBudgetLedger)*)
(*   ac3_paired_target_settlement.py, ac3_paired_target_runner.py,         *)
(*   ac3_paired_scorer_runner.py, ac3_paired_scorer_transport.py           *)
(*                                                                         *)
(* A method of the ledger is one serializable transaction that locks the   *)
(* scope row, so it is one action; one whose checks fail raises, and the   *)
(* step that called it ends (Stop).  One study is one scope.  A receipt is *)
(* unique for a question and a role, and is named by them here: a request  *)
(* key or a contract of another request is refused.  Each step runs under  *)
(* the stage locks of all audits of the study, whose connection may be     *)
(* lost while the step goes on; the ledger uses connections of its own.    *)
(***************************************************************************)
EXTENDS Naturals, FiniteSets, FiniteSetsExt

CONSTANTS
  Tests, Answers, Costs,
  Modes,          \* budget modes a frozen protocol may declare
  Prior,          \* prior_upper_usd of a capped budget
  MaxUsd,            \* max_usd
  TargetReserve, ScorerReserve,
  Workers,
  NoAnswer, NoCost, NoWorker, NoRequest

Roles == {"target", "scorer"}
Requests == Tests \X Roles
Reserve(q) == IF q[2] = "target" THEN TargetReserve ELSE ScorerReserve

ASSUME NullAssumption ==
  /\ NoAnswer \notin Answers /\ NoCost \notin Nat
  /\ NoWorker \notin Workers /\ NoRequest \notin Requests

(* combined_budget_preflight, which every method repeats: what was spent before*)
(* and every reservation of the study fit under the cap.                       *)
ASSUME BudgetAssumption ==
  /\ Costs \subseteq Nat /\ Modes \subseteq {"capped", "tracking_only"}
  /\ {Prior, MaxUsd, TargetReserve, ScorerReserve} \subseteq Nat
  /\ IsFiniteSet(Tests)
  /\ "capped" \in Modes => Prior + Cardinality(Tests) * (TargetReserve + ScorerReserve) <= MaxUsd

VARIABLES
  mode,     \* budget_mode of the frozen protocol
  scope,    \* ac3_paired_budget_scopes.status, "absent" before the row exists
  spent,    \* spent_usd
  receipt,  \* ac3_paired_budget_receipts, by question and role
  saved,    \* TargetResponseModel.response_text, by question
  pc, job,  \* where each worker is, and its arguments and the reply it holds
  lock,     \* who holds the stage locks
  calls,    \* requests sent to a provider
  reply     \* what a provider answered

ledgerVars == <<mode, scope, spent, receipt, saved>>
vars == <<ledgerVars, pc, job, lock, calls, reply>>

NoReceipt == [status |-> "absent", answer |-> NoAnswer, cost |-> NoCost, bound |-> NoAnswer]
NoJob == [request |-> NoRequest, bound |-> NoAnswer, answer |-> NoAnswer, cost |-> NoCost]

TypeOK ==
  /\ mode \in Modes
  /\ scope \in {"absent", "active", "unknown", "overrun"}
  /\ spent \in Nat
  /\ receipt \in [Requests -> [status: {"absent", "dispatched", "pending", "settled", "overrun"},
                               answer: Answers \cup {NoAnswer}, cost: Costs \cup {NoCost},
                               bound: Answers \cup {NoAnswer}]]
  /\ saved \in [Tests -> Answers \cup {NoAnswer}]
  /\ pc \in [Workers -> {"idle", "register", "lock", "preflight", "begin", "send", "sent",
                         "keep", "settle"}]
  /\ job \in [Workers -> [request: Requests \cup {NoRequest}, bound: Answers \cup {NoAnswer},
                          answer: Answers \cup {NoAnswer}, cost: Costs \cup {NoCost}]]
  /\ lock \in Workers \cup {NoWorker}
  /\ calls \in [Requests -> Nat]
  /\ reply \in [Requests -> Answers \cup {NoAnswer}]

Init ==
  /\ mode \in Modes /\ scope = "absent" /\ spent = 0
  /\ receipt = [q \in Requests |-> NoReceipt]
  /\ saved = [t \in Tests |-> NoAnswer]
  /\ pc = [w \in Workers |-> "idle"] /\ job = [w \in Workers |-> NoJob]
  /\ lock = NoWorker
  /\ calls = [q \in Requests |-> 0] /\ reply = [q \in Requests |-> NoAnswer]

-----------------------------------------------------------------------------
(* The ledger                                                                  *)

PriorSpent == IF mode = "capped" THEN Prior ELSE 0

Affordable(q) == mode = "capped" => PriorSpent + spent + Reserve(q) <= MaxUsd

\* A scorer is bound to the settled answer of the target, which is also the
\* one saved for the question.
Answered(t, answer) ==
  /\ receipt[<<t, "target">>].status = "settled"
  /\ receipt[<<t, "target">>].answer = answer
  /\ saved[t] = answer

\* Mutant: a request in flight leaves the scope open.
Blocked_Not(status) == status

Blocked(status) == "unknown"

Begin(q, bound) ==
  /\ scope = "active" /\ receipt[q].status = "absent"
  /\ Affordable(q)
  /\ q[2] = "scorer" => Answered(q[1], bound)
  /\ receipt' = [receipt EXCEPT ![q] = [NoReceipt EXCEPT !.status = "dispatched", !.bound = bound]]
  /\ scope' = Blocked(scope)
  /\ UNCHANGED <<mode, spent, saved>>

(* An answer that was kept can only be settled as it was kept.                 *)
Awaits(q, answer) ==
  /\ scope = "unknown"
  /\ receipt[q].status \in {"dispatched", "pending"}
  /\ receipt[q].answer \in {NoAnswer, answer}

(* settle without a usable cost: the answer is kept and the scope stays blocked*)
Keep(q, answer) ==
  /\ Awaits(q, answer)
  /\ receipt' = [receipt EXCEPT ![q].status = "pending", ![q].answer = answer]
  /\ UNCHANGED <<mode, scope, spent, saved>>

\* Mutant: a reservation is not a bound on the cost of its request.
Overruns_Max(q, cost) == mode = "capped" /\ PriorSpent + spent + cost > MaxUsd

Overruns(q, cost) ==
  mode = "capped" /\ (cost > Reserve(q) \/ PriorSpent + spent + cost > MaxUsd)

\* Mutant: a target is settled like a scorer, its answer not saved.
Saved_Never(q, answer) == saved

Saved(q, answer) == IF q[2] = "target" THEN [saved EXCEPT ![q[1]] = answer] ELSE saved

(* settle_target, and settle of a scorer, with a known cost: the answer, the   *)
(* receipt, the amount spent and the scope change together.                    *)
Settle(q, answer, cost) ==
  /\ Awaits(q, answer)
  /\ q[2] = "target" => saved[q[1]] = NoAnswer
  /\ receipt' = [receipt EXCEPT ![q].answer = answer, ![q].cost = cost,
                   ![q].status = IF Overruns(q, cost) THEN "overrun" ELSE "settled"]
  /\ spent' = spent + cost
  /\ scope' = IF Overruns(q, cost) THEN "overrun" ELSE "active"
  /\ saved' = Saved(q, answer)
  /\ UNCHANGED mode

(* The cost of a kept answer is established later, from billing evidence.      *)
Reconcile(q, cost) ==
  /\ receipt[q].status = "pending"
  /\ Settle(q, receipt[q].answer, cost)
  /\ UNCHANGED <<pc, job, lock, calls, reply>>

-----------------------------------------------------------------------------
(* One step of the study, for one question and role.                           *)

Goto(w, place) == pc' = [pc EXCEPT ![w] = place]

Leave(w) ==
  /\ Goto(w, "idle") /\ job' = [job EXCEPT ![w] = NoJob]
  /\ lock' = IF lock = w THEN NoWorker ELSE lock

Start(w, q) ==
  /\ pc[w] = "idle"
  /\ Goto(w, IF q[2] = "target" THEN "register" ELSE "lock")
  /\ job' = [job EXCEPT ![w].request = q]
  /\ UNCHANGED <<ledgerVars, lock, calls, reply>>

(* A target step registers the scope, or finds it registered and active.       *)
Register(w) ==
  /\ pc[w] = "register" /\ scope \in {"absent", "active"}
  /\ scope' = "active" /\ Goto(w, "lock")
  /\ UNCHANGED <<mode, spent, receipt, saved, job, lock, calls, reply>>

Lock(w) ==
  /\ pc[w] = "lock" /\ lock = NoWorker
  /\ lock' = w /\ Goto(w, "preflight")
  /\ UNCHANGED <<ledgerVars, job, calls, reply>>

(* A scorer step reads the one answer saved for its question.                  *)
Preflight(w) ==
  LET q == job[w].request IN
  /\ pc[w] = "preflight"
  /\ q[2] = "scorer" => saved[q[1]] # NoAnswer
  /\ job' = [job EXCEPT ![w].bound = IF q[2] = "scorer" THEN saved[q[1]] ELSE NoAnswer]
  /\ Goto(w, "begin")
  /\ UNCHANGED <<ledgerVars, lock, calls, reply>>

Dispatch(w) ==
  /\ pc[w] = "begin"
  /\ Begin(job[w].request, job[w].bound) /\ Goto(w, "send")
  /\ UNCHANGED <<job, lock, calls, reply>>

Send(w) ==
  /\ pc[w] = "send"
  /\ calls' = [calls EXCEPT ![job[w].request] = @ + 1] /\ Goto(w, "sent")
  /\ UNCHANGED <<ledgerVars, job, lock, reply>>

(* A target's answer is kept before it is settled.  The scorer's body is       *)
(* settled at once, or kept if its cost is not known: an error body is.        *)
Receive(w, answer, cost) ==
  LET q == job[w].request IN
  /\ pc[w] = "sent"
  /\ reply' = [reply EXCEPT ![q] = answer]
  /\ job' = [job EXCEPT ![w].answer = answer, ![w].cost = cost]
  /\ Goto(w, IF q[2] = "target" \/ cost = NoCost THEN "keep" ELSE "settle")
  /\ UNCHANGED <<ledgerVars, lock, calls>>

KeepAnswer(w) ==
  /\ pc[w] = "keep"
  /\ Keep(job[w].request, job[w].answer)
  /\ IF job[w].cost = NoCost THEN Leave(w) ELSE Goto(w, "settle") /\ UNCHANGED <<job, lock>>
  /\ UNCHANGED <<calls, reply>>

SettleAnswer(w) ==
  /\ pc[w] = "settle"
  /\ Settle(job[w].request, job[w].answer, job[w].cost)
  /\ Leave(w)
  /\ UNCHANGED <<calls, reply>>

(* The step raises or its process dies, at any point.                          *)
Stop(w) ==
  /\ pc[w] # "idle" /\ Leave(w)
  /\ UNCHANGED <<ledgerVars, calls, reply>>

LoseLock ==
  /\ lock # NoWorker /\ lock' = NoWorker
  /\ UNCHANGED <<ledgerVars, pc, job, calls, reply>>

Next ==
  \/ \E w \in Workers :
       \/ \E q \in Requests : Start(w, q)
       \/ Register(w) \/ Lock(w) \/ Preflight(w) \/ Dispatch(w) \/ Send(w)
       \/ \E a \in Answers, c \in Costs \cup {NoCost} : Receive(w, a, c)
       \/ KeepAnswer(w) \/ SettleAnswer(w) \/ Stop(w)
  \/ \E q \in Requests, c \in Costs : Reconcile(q, c)
  \/ LoseLock

Spec == Init /\ [][Next]_vars

-----------------------------------------------------------------------------
(* Properties                                                                  *)

Status(t, role) == receipt[<<t, role>>].status

(* The sum of f over the finite set S.                                         *)
Total(f, S) == FoldFunctionOnSet(+, 0, f, S)

CostOf == [q \in Requests |-> receipt[q].cost]
ReserveOf == [q \in Requests |-> Reserve(q)]
Costed == {q \in Requests : receipt[q].cost # NoCost}
Unsettled == {q \in Requests : receipt[q].status # "settled"}

AnswersAgree ==
  \A t \in Tests :
    /\ saved[t] # NoAnswer <=> Status(t, "target") \in {"settled", "overrun"}
    /\ saved[t] # NoAnswer => saved[t] = receipt[<<t, "target">>].answer
                                /\ saved[t] = reply[<<t, "target">>]
    /\ Status(t, "scorer") # "absent" =>
         Status(t, "target") = "settled" /\ receipt[<<t, "scorer">>].bound = saved[t]

CostsAreCounted == spent = Total(CostOf, Costed)

(* The receipts, the saved answers and the amount spent tell one story, through*)
(* crashes, lost locks and costs that come later: an answer is saved exactly   *)
(* for a target whose cost is known, and it is what the provider answered; a   *)
(* scorer was only ever asked about that answer; every known cost was counted, *)
(* once.                                                                       *)
RecordsAgree == AnswersAgree /\ CostsAreCounted

(* Until an overrun is on record, what was spent before the study, what it     *)
(* spent and the reservations of everything not yet settled, asked or not, fit *)
(* under the cap: the study never gets stuck on "Budget exhausted".            *)
ReservesCoverTheRest ==
  mode = "capped" /\ scope # "overrun" =>
    Prior + spent + Total(ReserveOf, Unsettled) <= MaxUsd

(* The protocol of PaidOnce, the requests of both roles being its questions: a *)
(* request is claimed before it is sent, sent once at most, and no other is    *)
(* claimed until its cost is known, even without the stage locks.              *)
PhaseOf(q) ==
  CASE receipt[q].status = "absent" -> "open"
    [] receipt[q].status \in {"settled", "overrun"} -> "answered"
    [] OTHER -> IF calls[q] = 0 THEN "claimed" ELSE "called"

Phase == [s \in {"study"} \X Requests |-> PhaseOf(s[2])]

Abstract == INSTANCE PaidOnce WITH
  Scopes <- {"study"}, Tests <- Requests, phase <- Phase,
  calls <- [s \in {"study"} \X Requests |-> calls[s[2]]],
  halted <- [s \in {"study"} |-> scope = "overrun"]

ImplementsPaidOnce == Abstract!Spec

=============================================================================
