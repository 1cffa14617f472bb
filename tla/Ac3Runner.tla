------------------------------ MODULE Ac3Runner ------------------------------
(***************************************************************************)
(* run_controlled_ac3_step (backend/app/services/ac3_controlled_runner.py) *)
(* run by several workers at once, over the ledger of Ac3Ledger, the stage *)
(* locks of ac3_locked_preflight.ac3_sequence_locks and a paid provider.   *)
(*                                                                         *)
(* One action per transaction or call of the function.  Between any two of *)
(* them the worker may stop: an exception and a crash both end the step and*)
(* free its locks.  The connection that holds the PostgreSQL advisory locks*)
(* may also be lost while the worker goes on: nothing in the step looks at *)
(* it again.                                                               *)
(***************************************************************************)
EXTENDS Ac3Ledger

CONSTANTS
  Workers, NoWorker,   \* NoWorker: nobody
  NoKey                \* an idle worker has no request key

VARIABLES
  pc,       \* where each worker is in run_controlled_ac3_step
  job,      \* its arguments, and the answer it has obtained
  lock,     \* who holds the stage locks of a scope's audits
  calls,    \* provider calls made for each question
  reply,    \* what the provider answered to each request key
  evals     \* EvaluationResultModel rows, by the receipt of their response

vars == <<ledgerVars, pc, job, lock, calls, reply, evals>>

ASSUME NoWorkerAssumption == NoWorker \notin Workers

Stages == {"idle", "register", "budget", "lock", "preflight", "dispatch", "send",
           "sent", "record", "settle", "score"}

NoReply == [answer |-> NoAnswer, cost |-> NoCost]
Reply == [answer: Answers \cup {NoAnswer}, cost: Costs \cup {NoCost}]

NoJob == [scope |-> NoScope, test |-> NoTest, key |-> NoKey, reply |-> NoReply]
Job == [scope: Scopes \cup {NoScope}, test: Tests \cup {NoTest},
        key: Keys \cup {NoKey}, reply: Reply]

RunTypeOK ==
  /\ TypeOK
  /\ pc \in [Workers -> Stages]
  /\ job \in [Workers -> Job]
  /\ lock \in [Scopes -> Workers \cup {NoWorker}]
  /\ calls \in [Scopes \X Tests -> Nat]
  /\ reply \in [Keys -> Reply]
  /\ evals \in [Keys -> Nat]

RunInit ==
  /\ Init
  /\ pc = [w \in Workers |-> "idle"]
  /\ job = [w \in Workers |-> NoJob]
  /\ lock = [s \in Scopes |-> NoWorker]
  /\ calls = [q \in Scopes \X Tests |-> 0]
  /\ reply = [k \in Keys |-> NoReply]
  /\ evals = [k \in Keys |-> 0]

----------------------------------------------------------------------------
Goto(w, stage) == pc' = [pc EXCEPT ![w] = stage]

\* Leaving the step, by return or by exception, frees the locks it still holds.
Released(w) == [s \in Scopes |-> IF lock[s] = w THEN NoWorker ELSE lock[s]]

Leave(w) ==
  /\ Goto(w, "idle")
  /\ job' = [job EXCEPT ![w] = NoJob]
  /\ lock' = Released(w)

Start(w, s, t, k) ==
  /\ pc[w] = "idle"
  /\ Goto(w, "register")
  /\ job' = [job EXCEPT ![w] = [NoJob EXCEPT !.scope = s, !.test = t, !.key = k]]
  /\ UNCHANGED <<ledgerVars, lock, calls, reply, evals>>

\* AttemptLedger.register_reviewed_scope, which returns when the row exists.
RegisterScope(w) ==
  /\ pc[w] = "register"
  /\ \/ RegisterReviewedScope(job[w].scope)
     \/ /\ scopeStatus[job[w].scope] # "absent"
        /\ UNCHANGED ledgerVars
  /\ Goto(w, "budget")
  /\ UNCHANGED <<job, lock, calls, reply, evals>>

\* BudgetedDispatchLedger.register needs an active scope even when the budget
\* row exists.
EnsureBudget(w) ==
  /\ pc[w] = "budget"
  /\ \/ RegisterBudget(job[w].scope)
     \/ /\ scopeStatus[job[w].scope] = "active"
        /\ budgetStatus[job[w].scope] # "absent"
        /\ UNCHANGED ledgerVars
  /\ Goto(w, "lock")
  /\ UNCHANGED <<job, lock, calls, reply, evals>>

\* ac3_sequence_locks: nonblocking, so a busy lock is a 409 (see Stop).
Lock(w) ==
  /\ pc[w] = "lock"
  /\ lock[job[w].scope] = NoWorker
  /\ lock' = [lock EXCEPT ![job[w].scope] = w]
  /\ Goto(w, "preflight")
  /\ UNCHANGED <<ledgerVars, job, calls, reply, evals>>

----------------------------------------------------------------------------
\* locked_ac3_preflight and inspect_staged_ac3: the scope is active, every
\* receipt of it is settled at a known cost, and the saved answers are those of
\* the settled receipts, word for word.
PreflightHolds(s) ==
  /\ scopeStatus[s] = "active"
  /\ \A k \in Keys : receipt[k].scope = s =>
       /\ receipt[k].status = "settled"
       /\ receipt[k].answer # NoAnswer
       /\ receipt[k].cost # NoCost
       /\ saved[k] = receipt[k].answer

Answered(s, t) == \E k \in Keys : receipt[k].scope = s /\ receipt[k].test = t /\ saved[k] # NoAnswer

\* A saved answer is only scored, and only under the request key it is bound to.
Preflight(w) ==
  LET s == job[w].scope
      t == job[w].test
      k == job[w].key
  IN /\ pc[w] = "preflight"
     /\ PreflightHolds(s)
     /\ IF Answered(s, t)
        THEN /\ receipt[k].scope = s /\ receipt[k].test = t /\ receipt[k].status = "settled"
             /\ Goto(w, "score")
        ELSE Goto(w, "dispatch")
     /\ UNCHANGED <<ledgerVars, job, lock, calls, reply, evals>>

\* Mutant: the request is sent before its receipt is written.
DispatchUnrecorded(w) ==
  /\ pc[w] = "dispatch"
  /\ Goto(w, "send")
  /\ UNCHANGED <<ledgerVars, job, lock, calls, reply, evals>>

\* AC3RequestBinding, called before the request is sent: the receipt and its
\* request evidence are committed first.
Dispatch(w) ==
  /\ pc[w] = "dispatch"
  /\ BeginBudgeted(job[w].scope, job[w].key, job[w].test, "open")
  /\ Goto(w, "send")
  /\ UNCHANGED <<job, lock, calls, reply, evals>>

\* The single HTTP attempt; from here on the call may be charged.
Send(w) ==
  /\ pc[w] = "send"
  /\ calls' = [calls EXCEPT ![<<job[w].scope, job[w].test>>] = @ + 1]
  /\ Goto(w, "sent")
  /\ UNCHANGED <<ledgerVars, job, lock, reply, evals>>

\* The provider answers, with or without a usable cost.
Receive(w, a, c) ==
  /\ pc[w] = "sent"
  /\ reply' = [reply EXCEPT ![job[w].key] = [answer |-> a, cost |-> c]]
  /\ job' = [job EXCEPT ![w].reply = [answer |-> a, cost |-> c]]
  /\ Goto(w, "record")
  /\ UNCHANGED <<ledgerVars, lock, calls, evals>>

\* Mutant: a missing cost is taken to be the declared reservation.
RecordAssumedCost(w, evidence) ==
  /\ pc[w] = "record"
  /\ RecordPending(job[w].scope, job[w].key, job[w].reply.answer, Reservation, evidence)
  /\ Leave(w)
  /\ UNCHANGED <<calls, reply, evals>>

\* record_pending_response; an unknown cost or unverified metadata ends the step.
RecordAnswer(w, evidence) ==
  /\ pc[w] = "record"
  /\ RecordPending(job[w].scope, job[w].key, job[w].reply.answer,
                          job[w].reply.cost, evidence)
  /\ IF job[w].reply.cost = NoCost \/ evidence # "bound"
     THEN Leave(w)
     ELSE Goto(w, "settle") /\ UNCHANGED <<job, lock>>
  /\ UNCHANGED <<calls, reply, evals>>

\* settle_and_save; a budget overrun ends the step before scoring.
SettleAnswer(w) ==
  LET s == job[w].scope
  IN /\ pc[w] = "settle"
     /\ SettleAndSaveBudgeted(s, job[w].key, job[w].reply.answer, job[w].reply.cost)
     /\ IF Overruns(s, job[w].reply.cost)
        THEN Leave(w)
        ELSE Goto(w, "score") /\ UNCHANGED <<job, lock>>
     /\ UNCHANGED <<calls, reply, evals>>

\* Mutant: the evaluations already saved are not looked at.
ScoreAgain(w) ==
  /\ pc[w] = "score"
  /\ evals' = [evals EXCEPT ![job[w].key] = @ + 1]
  /\ Leave(w)
  /\ UNCHANGED <<ledgerVars, calls, reply>>

\* One serializable transaction that finds no evaluation and adds it.
Score(w) ==
  /\ pc[w] = "score"
  /\ evals[job[w].key] <= 1
  /\ evals' = [evals EXCEPT ![job[w].key] = IF @ = 0 THEN 1 ELSE @]
  /\ Leave(w)
  /\ UNCHANGED <<ledgerVars, calls, reply>>

----------------------------------------------------------------------------
\* The step raises or its process dies, at any point.
Stop(w) ==
  /\ pc[w] # "idle"
  /\ Leave(w)
  /\ UNCHANGED <<ledgerVars, calls, reply, evals>>

\* The lock connection is lost; PostgreSQL frees the locks, the worker goes on.
LoseLock(s) ==
  /\ lock[s] # NoWorker
  /\ lock' = [lock EXCEPT ![s] = NoWorker]
  /\ UNCHANGED <<ledgerVars, pc, job, calls, reply, evals>>

Advance(w) ==
  \/ RegisterScope(w) \/ EnsureBudget(w) \/ Lock(w) \/ Preflight(w)
  \/ Dispatch(w) \/ Send(w)
  \/ \E a \in Answers, c \in Costs \cup {NoCost} : Receive(w, a, c)
  \/ \E evidence \in {"open", "bound", "unbound"} : RecordAnswer(w, evidence)
  \/ SettleAnswer(w) \/ Score(w)

RunNext ==
  \/ \E w \in Workers :
       \/ \E s \in Scopes, t \in Tests, k \in Keys : Start(w, s, t, k)
       \/ Advance(w)
       \/ Stop(w)
  \/ \E s \in Scopes : LoseLock(s)

RunSpec == RunInit /\ [][RunNext]_vars

----------------------------------------------------------------------------
(* What a controlled study promises. *)

\* Whatever is recorded or saved for a request is what the provider answered to
\* it, and a cost the provider did not report is never taken for a number.
SavedIsProviderAnswer ==
  \A k \in Keys :
    /\ receipt[k].answer # NoAnswer =>
         receipt[k].answer = reply[k].answer /\ receipt[k].cost = reply[k].cost
    /\ saved[k] # NoAnswer => saved[k] = reply[k].answer

\* An answer is scored once at most, after its settlement, and never when its
\* cost overran the budget.
ScoredOnceIfSettled ==
  \A k \in Keys :
    /\ evals[k] <= 1
    /\ evals[k] = 1 => saved[k] # NoAnswer /\ receipt[k].reservation = "settled"

----------------------------------------------------------------------------
(* The study implements PaidOnce. *)

Receipts(s, t) == {k \in Keys : receipt[k].scope = s /\ receipt[k].test = t}

Phase ==
  [q \in Scopes \X Tests |->
     IF Receipts(q[1], q[2]) = {} THEN "open"
     ELSE IF \E k \in Receipts(q[1], q[2]) : receipt[k].status = "settled" THEN "answered"
     ELSE IF calls[q] = 0 THEN "claimed" ELSE "called"]

\* Seen from outside, the workers, their crashes and the ledger together are the
\* abstract protocol in which a question is claimed, called once and answered: the
\* receipt is durable before the call, and no two calls of a scope are open at
\* once, even without the stage locks.
Abstract == INSTANCE PaidOnce
              WITH phase <- Phase, halted <- [s \in Scopes |-> budgetStatus[s] = "overrun"]

ImplementsPaidOnce == Abstract!Spec

=============================================================================
