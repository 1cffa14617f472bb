--------------------------- MODULE AuditLifecycle ---------------------------
(***************************************************************************)
(* The stages of an audit run and of its comparison group, as the handlers *)
(* of backend/app/api/routes.py change them: create, generate, edit,       *)
(* continue, execute, reuse answers, evaluate, retry and cancel.           *)
(*                                                                         *)
(* Several requests are served at once over a READ COMMITTED database.  A  *)
(* handler is cut where another session can come between: what it read is  *)
(* in its request record, what it flushed and has not committed too.  A    *)
(* flushed row is locked until the commit.  Generation, execution, edits   *)
(* and retries hold nonblocking stage locks; cancellation holds none.      *)
(*                                                                         *)
(* A question is its test and an edition; every rewrite of the canonical   *)
(* row makes a new edition.                                                *)
(***************************************************************************)
EXTENDS Integers, FiniteSets

CONSTANTS
  Runs,        \* the audit runs that may be created
  Tests,       \* the questions a suite may hold
  Workers,     \* concurrent requests
  Grouped,     \* TRUE: the runs are the conditions of one experiment
  MaxEdition,  \* bound: a question is written at most so many times
  NoRun, NoWorker

ASSUME GroupAssumption == Grouped \in BOOLEAN /\ (~Grouped => Cardinality(Runs) = 1)
ASSUME EditionAssumption == MaxEdition \in Nat \ {0}
ASSUME RunsAssumption == IsFiniteSet(Runs) /\ NoRun \notin Runs
ASSUME WorkersAssumption == NoWorker \notin Workers

VARIABLES
  status,      \* AuditRunModel.status; "absent" before the row exists
  group,       \* ExperimentModel.status
  source,      \* ExperimentModel.test_suite_source_run_id
  suite,       \* the edition of each test row of each run, 0 without a row
  answers,     \* the edition each saved target response answers, 0 for none
  scores,      \* the tests of each run with a saved evaluation
  suiteLock,   \* who holds the stage lock "suite:..." of the group
  runLock,     \* who holds the stage lock of each run
  req          \* the request each worker serves

vars == <<status, group, source, suite, answers, scores, suiteLock, runLock, req>>

Terminal == {"COMPLETED", "FAILED", "CANCELLED"}
Status == {"CREATED", "TESTS_GENERATED", "TESTS_EXECUTED"} \cup Terminal
GroupStatus == {"CREATED", "TEST_SUITE_GENERATED", "RUNNING"} \cup Terminal

Steps == {"idle", "create", "start_generate", "generate", "save_suite", "clone",
          "edit", "save_edit", "continue", "save_continue",
          "start_execute", "execute", "share", "start_evaluate", "evaluate",
          "refresh", "fail", "retry", "cancel", "commit"}

NoTests == [t \in Tests |-> 0]
NoWrites == [r \in Runs |-> "none"]

Request ==
  [pc: Steps, run: Runs \cup {NoRun},
   seen: Status \cup {"none"},             \* the status the handler read
   peers: SUBSET Runs,                     \* the other rows it is to write
   answers: [Tests -> 0..MaxEdition],      \* responses flushed, not committed
   scores: SUBSET Tests,                   \* evaluations flushed, not committed
   write: [Runs -> Status \cup {"none"}],  \* statuses flushed, not committed
   group: GroupStatus \cup {"none"}]       \* the group status it will commit

NoRequest ==
  [pc |-> "idle", run |-> NoRun, seen |-> "none", peers |-> {}, answers |-> NoTests,
   scores |-> {}, write |-> NoWrites, group |-> "none"]

TypeOK ==
  /\ status \in [Runs -> Status \cup {"absent"}]
  /\ group \in GroupStatus
  /\ source \in Runs \cup {NoRun}
  /\ suite \in [Runs -> [Tests -> 0..MaxEdition]]
  /\ answers \in [Runs -> [Tests -> 0..MaxEdition]]
  /\ scores \in [Runs -> SUBSET Tests]
  /\ suiteLock \in Workers \cup {NoWorker}
  /\ runLock \in [Runs -> Workers \cup {NoWorker}]
  /\ req \in [Workers -> Request]

Init ==
  /\ status = [r \in Runs |-> "absent"]
  /\ group = "CREATED"
  /\ source = NoRun
  /\ suite = [r \in Runs |-> NoTests]
  /\ answers = [r \in Runs |-> NoTests]
  /\ scores = [r \in Runs |-> {}]
  /\ suiteLock = NoWorker
  /\ runLock = [r \in Runs |-> NoWorker]
  /\ req = [w \in Workers |-> NoRequest]

----------------------------------------------------------------------------
(* Requests, locks and transactions. *)

artifacts == <<suite, answers, scores>>
database == <<status, group, source, artifacts>>
locks == <<suiteLock, runLock>>

At(w, step) == req[w].pc = step
Goto(w, step) == req' = [req EXCEPT ![w].pc = step]

\* The stage locks are nonblocking: a request that finds one busy, or the run in
\* another status, is answered 409 and changes nothing.
LockSuite(w) == suiteLock = NoWorker /\ suiteLock' = w
LockRun(w, r) == runLock[r] = NoWorker /\ runLock' = [runLock EXCEPT ![r] = w]

\* Mutant: no `finally`, so that a handler that raises keeps its locks.
UnlockOnReturn(w) ==
  IF req[w].pc \in {"create", "clone", "save_suite", "save_edit", "save_continue", "share", "commit"}
    THEN /\ suiteLock' = IF suiteLock = w THEN NoWorker ELSE suiteLock
         /\ runLock' = [r \in Runs |-> IF runLock[r] = w THEN NoWorker ELSE runLock[r]]
    ELSE UNCHANGED locks

Unlock(w) ==
  /\ suiteLock' = IF suiteLock = w THEN NoWorker ELSE suiteLock
  /\ runLock' = [r \in Runs |-> IF runLock[r] = w THEN NoWorker ELSE runLock[r]]

\* The handler returns or raises; what it has not committed is rolled back.
Respond(w) == req' = [req EXCEPT ![w] = NoRequest] /\ Unlock(w)

Accept(w, step, r) == At(w, "idle") /\ req' = [req EXCEPT ![w] = [NoRequest EXCEPT !.pc = step, !.run = r]]

\* No other session has flushed a change of these rows: an UPDATE would wait.
Unlocked(w, rows) == \A v \in Workers \ {w}, r \in rows : req[v].write[r] = "none"

Members == {r \in Runs : status[r] # "absent"}
Questions(r) == {t \in Tests : suite[r][t] # 0}

\* reconcile_experiment_terminal_state, on the committed rows and its own.
Verdict(write) ==
  LET final == [r \in Members |-> IF write[r] = "none" THEN status[r] ELSE write[r]]
  IN IF ~Grouped \/ \E r \in Members : final[r] \notin Terminal THEN "none"
     ELSE IF \E r \in Members : final[r] = "CANCELLED" THEN "CANCELLED"
     ELSE IF \A r \in Members : final[r] = "FAILED" THEN "FAILED"
     ELSE "COMPLETED"

\* Flush status s into the rows and derive the group status; commit comes next.
FlushAndReconcile(w, rows, s) ==
  LET write == [r \in Runs |-> IF r \in rows THEN s ELSE "none"]
  IN /\ Unlocked(w, rows)
     /\ req' = [req EXCEPT ![w].pc = "commit", ![w].write = write, ![w].group = Verdict(write)]

SavedAnswers(w) ==
  [answers EXCEPT ![req[w].run] =
     [t \in Tests |-> IF req[w].answers[t] # 0 THEN req[w].answers[t] ELSE @[t]]]

Commit(w) ==
  /\ At(w, "commit")
  /\ status' = [r \in Runs |-> IF req[w].write[r] = "none" THEN status[r] ELSE req[w].write[r]]
  /\ group' = IF req[w].group = "none" THEN group ELSE req[w].group
  /\ IF req[w].run = NoRun THEN UNCHANGED <<answers, scores>>
     ELSE /\ answers' = SavedAnswers(w)
          /\ scores' = [scores EXCEPT ![req[w].run] = @ \cup req[w].scores]
  /\ Respond(w)
  /\ UNCHANGED <<source, suite>>

\* An exception no handler catches, or the death of the process.
Stop(w) == ~At(w, "idle") /\ Respond(w) /\ UNCHANGED database

----------------------------------------------------------------------------
(* create_audit: the membership check and the insert are two statements. *)

CreateAudit(w, r) ==
  /\ status[r] = "absent"
  /\ \A v \in Workers : ~(At(v, "create") /\ req[v].run = r)
  /\ Grouped => group = "CREATED"
  /\ Accept(w, "create", r)
  /\ UNCHANGED <<database, locks>>

InsertAudit(w) ==
  /\ At(w, "create")
  /\ status' = [status EXCEPT ![req[w].run] = "CREATED"]
  /\ Respond(w)
  /\ UNCHANGED <<group, source, artifacts>>

----------------------------------------------------------------------------
(* generate-tests *)

Generate(w, r) ==
  /\ status[r] = "CREATED"
  /\ Accept(w, "start_generate", r)
  /\ LockSuite(w)
  /\ UNCHANGED <<database, runLock>>

\* A group that has a suite already shares it; otherwise the generator is called.
StartGenerate(w) ==
  /\ At(w, "start_generate")
  /\ status[req[w].run] = "CREATED"
  /\ Goto(w, IF source = NoRun THEN "generate" ELSE "clone")
  /\ UNCHANGED <<database, locks>>

CloneSuite(w) ==
  LET r == req[w].run
  IN /\ At(w, "clone")
     /\ Unlocked(w, {r})
     /\ suite' = [suite EXCEPT ![r] = suite[source]]
     /\ status' = [status EXCEPT ![r] = "TESTS_GENERATED"]
     /\ Respond(w)
     /\ UNCHANGED <<group, source, answers, scores>>

\* The generator has replied: the run is read again, and its peers.
Generated(w) ==
  LET r == req[w].run
  IN /\ At(w, "generate")
     /\ status[r] = "CREATED"
     /\ Grouped => group # "CANCELLED"
     /\ req' = [req EXCEPT ![w].pc = "save_suite",
                           ![w].peers = {p \in Runs \ {r} : status[p] = "CREATED"}]
     /\ UNCHANGED <<database, locks>>

SaveSuite(w, questions) ==
  LET rows == req[w].peers \cup {req[w].run}
      edition == [t \in Tests |-> IF t \in questions THEN 1 ELSE 0]
  IN /\ At(w, "save_suite")
     /\ Unlocked(w, rows)
     /\ suite' = [r \in Runs |-> IF r \in rows THEN edition ELSE suite[r]]
     /\ status' = [r \in Runs |-> IF r \in rows THEN "TESTS_GENERATED" ELSE status[r]]
     /\ IF Grouped THEN group' = "TEST_SUITE_GENERATED" /\ source' = req[w].run
        ELSE UNCHANGED <<group, source>>
     /\ Respond(w)
     /\ UNCHANGED <<answers, scores>>

----------------------------------------------------------------------------
(* Review and regeneration of one question, and of the whole suite. *)

Started == {"TESTS_EXECUTED"} \cup Terminal

\* Mutant: only the run under review is looked at.
EditableAlone(r) == status[r] = "TESTS_GENERATED"

\* require_state and ensure_suite_editable
Editable(r) ==
  /\ status[r] = "TESTS_GENERATED"
  /\ Grouped => /\ group \notin {"RUNNING"} \cup Terminal
                /\ \A p \in Runs \ {r} : status[p] \notin Started

CanonicalRun(r) == IF source = NoRun THEN r ELSE source

Edit(w, r) ==
  /\ Editable(r)
  /\ \E t \in Tests : suite[CanonicalRun(r)][t] \in 1..MaxEdition - 1
  /\ Accept(w, "edit", r)
  /\ LockSuite(w)
  /\ UNCHANGED <<database, runLock>>

\* The replacement has arrived: run and group are read again.
EditChecked(w) ==
  /\ At(w, "edit")
  /\ Editable(req[w].run)
  /\ Goto(w, "save_edit")
  /\ UNCHANGED <<database, locks>>

\* Mutant: the clones of the canonical row keep the old question.
SaveEditAlone(w, t) ==
  LET canonical == CanonicalRun(req[w].run)
  IN /\ At(w, "save_edit")
     /\ suite[canonical][t] + 1 \in 2..MaxEdition
     /\ suite' = [suite EXCEPT ![canonical][t] = @ + 1]
     /\ Respond(w)
     /\ UNCHANGED <<status, group, source, answers, scores>>

\* The canonical row is rewritten and copied to every clone of it.
SaveEdit(w, t) ==
  LET edition == suite[CanonicalRun(req[w].run)][t] + 1
  IN /\ At(w, "save_edit")
     /\ edition \in 2..MaxEdition
     /\ suite' = [r \in Runs |-> IF suite[r][t] = 0 THEN suite[r] ELSE [suite[r] EXCEPT ![t] = edition]]
     /\ Respond(w)
     /\ UNCHANGED <<status, group, source, answers, scores>>

\* Mutant: the suite lock is not taken.
ContinueUnlocked(w, r) ==
  /\ Editable(r)
  /\ Questions(CanonicalRun(r)) # Tests
  /\ Grouped => group = "TEST_SUITE_GENERATED"
  /\ \A m \in Members : status[m] = "TESTS_GENERATED" /\ answers[m] = NoTests
  /\ At(w, "idle")
  /\ req' = [req EXCEPT ![w] = [NoRequest EXCEPT !.pc = "continue", !.run = r, !.peers = Members]]
  /\ UNCHANGED <<database, locks>>

\* continue-generation, while no condition has started.
ContinueGeneration(w, r) ==
  /\ Editable(r)
  /\ Questions(CanonicalRun(r)) # Tests
  /\ Grouped => group = "TEST_SUITE_GENERATED"
  /\ \A m \in Members : status[m] = "TESTS_GENERATED" /\ answers[m] = NoTests
  /\ At(w, "idle")
  /\ req' = [req EXCEPT ![w] = [NoRequest EXCEPT !.pc = "continue", !.run = r, !.peers = Members]]
  /\ LockSuite(w)
  /\ UNCHANGED <<database, runLock>>

Continued(w) ==
  /\ At(w, "continue")
  /\ status[CanonicalRun(req[w].run)] = "TESTS_GENERATED"
  /\ Goto(w, "save_continue")
  /\ UNCHANGED <<database, locks>>

\* A larger suite replaces the saved one in every condition; deleting a test row
\* deletes its response and evaluation (ON DELETE CASCADE).
SaveContinued(w, questions) ==
  LET old == suite[CanonicalRun(req[w].run)]
      new == [t \in Tests |-> IF t \in questions THEN old[t] + 1 ELSE 0]
  IN /\ At(w, "save_continue")
     /\ Cardinality(questions) > Cardinality(Questions(CanonicalRun(req[w].run)))
     /\ new \in [Tests -> 0..MaxEdition]
     /\ suite' = [r \in Runs |-> IF r \in req[w].peers THEN new ELSE suite[r]]
     /\ answers' = [r \in Runs |-> IF r \in req[w].peers THEN NoTests ELSE answers[r]]
     /\ scores' = [r \in Runs |-> IF r \in req[w].peers THEN {} ELSE scores[r]]
     /\ Respond(w)
     /\ UNCHANGED <<status, group, source>>

----------------------------------------------------------------------------
(* execute *)

Execute(w, r) ==
  /\ status[r] = "TESTS_GENERATED"
  /\ Accept(w, "start_execute", r)
  /\ LockSuite(w)
  /\ LockRun(w, r)
  /\ UNCHANGED database

\* The group is marked RUNNING unless it is terminal; its own transaction.
StartExecute(w) ==
  /\ At(w, "start_execute")
  /\ status[req[w].run] = "TESTS_GENERATED"
  /\ group' = IF Grouped /\ group \notin Terminal THEN "RUNNING" ELSE group
  /\ Goto(w, "execute")
  /\ UNCHANGED <<status, source, artifacts, locks>>

\* Mutant: saved responses are not skipped.
UnaskedNow(w, t) == req[w].answers[t] = 0

\* No response to the question is saved, and none was obtained in this request.
Unasked(w, t) == answers[req[w].run][t] = 0 /\ req[w].answers[t] = 0

\* One question: the run is refreshed, the target answers, the row is flushed.
Ask(w, t) ==
  LET r == req[w].run
  IN /\ At(w, "execute")
     /\ t \in Questions(r)
     /\ Unasked(w, t)
     /\ status[r] # "CANCELLED"
     /\ req' = [req EXCEPT ![w].answers[t] = suite[r][t]]
     /\ UNCHANGED <<database, locks>>

\* Mutant: the answers obtained so far are rolled back.
StopAskingUnsaved(w) ==
  /\ At(w, "execute")
  /\ \E t \in Questions(req[w].run) : Unasked(w, t)
  /\ status[req[w].run] = "CANCELLED"
  /\ req' = [req EXCEPT ![w].pc = "refresh", ![w].answers = NoTests]
  /\ UNCHANGED <<database, locks>>

\* A cancellation seen between two questions: the answers so far are committed.
StopAsking(w) ==
  /\ At(w, "execute")
  /\ \E t \in Questions(req[w].run) : Unasked(w, t)
  /\ status[req[w].run] = "CANCELLED"
  /\ answers' = SavedAnswers(w)
  /\ req' = [req EXCEPT ![w].pc = "refresh", ![w].answers = NoTests]
  /\ UNCHANGED <<status, group, source, suite, scores, locks>>

\* Mutant: the status is written without a condition.
WriteStatus(w, from, to) == FlushAndReconcile(w, {req[w].run}, to)

\* transition_audit_status: the compare-and-set decides, not what was read.
Transition(w, from, to) ==
  LET r == req[w].run
  IN /\ Unlocked(w, {r})
     /\ IF status[r] = from THEN FlushAndReconcile(w, {r}, to) ELSE Goto(w, "refresh")

Executed(w) ==
  /\ At(w, "execute")
  /\ \A t \in Questions(req[w].run) : ~Unasked(w, t)
  /\ Transition(w, "TESTS_GENERATED", "TESTS_EXECUTED")
  /\ UNCHANGED <<database, locks>>

----------------------------------------------------------------------------
(* reuse-answers: an evaluator ablation takes over the answers of another     *)
(* condition.  It holds the locks of both runs, and not that of the suite.    *)

\* A condition that got its answers so may itself be taken here as a source,
\* which the code refuses.
ShareAnswers(w, r, from) ==
  /\ Grouped /\ group # "CANCELLED"
  /\ from # r /\ status[from] \in {"TESTS_EXECUTED", "COMPLETED"}
  /\ status[r] = "TESTS_GENERATED" /\ answers[r] = NoTests
  /\ Questions(r) # {} /\ suite[r] = suite[from]
  /\ \A t \in Questions(from) : answers[from][t] # 0
  /\ At(w, "idle") /\ \A p \in {r, from} : runLock[p] = NoWorker
  /\ runLock' = [p \in Runs |-> IF p \in {r, from} THEN w ELSE runLock[p]]
  /\ req' = [req EXCEPT ![w] = [NoRequest EXCEPT !.pc = "share", !.run = r, !.answers = answers[from]]]
  /\ UNCHANGED <<database, suiteLock>>

\* The copies, the status of the run and that of the group are one commit, with
\* no look at what was cancelled meanwhile.
SaveShared(w) ==
  LET r == req[w].run
  IN /\ At(w, "share")
     /\ Unlocked(w, {r})
     /\ answers' = SavedAnswers(w)
     /\ status' = [status EXCEPT ![r] = "TESTS_EXECUTED"]
     /\ group' = "RUNNING"
     /\ Respond(w)
     /\ UNCHANGED <<source, suite, scores>>

----------------------------------------------------------------------------
(* evaluate *)

Evaluate(w, r) ==
  /\ status[r] = "TESTS_EXECUTED"
  /\ Accept(w, "start_evaluate", r)
  /\ LockRun(w, r)
  /\ UNCHANGED <<database, suiteLock>>

StartEvaluate(w) ==
  /\ At(w, "start_evaluate")
  /\ status[req[w].run] = "TESTS_EXECUTED"
  /\ Goto(w, "evaluate")
  /\ UNCHANGED <<database, locks>>

Unscored(w) == Questions(req[w].run) \ (scores[req[w].run] \cup req[w].scores)

\* An answer the evaluator needs is missing only if the handler breaks there.
Score(w, t) ==
  /\ At(w, "evaluate")
  /\ t \in Unscored(w)
  /\ status[req[w].run] # "CANCELLED"
  /\ answers[req[w].run][t] # 0
  /\ req' = [req EXCEPT ![w].scores = @ \cup {t}]
  /\ UNCHANGED <<database, locks>>

StopScoring(w) ==
  /\ At(w, "evaluate")
  /\ Unscored(w) # {}
  /\ status[req[w].run] = "CANCELLED"
  /\ Goto(w, "refresh")
  /\ UNCHANGED <<database, locks>>

\* Mutant: the run is completed by its first evaluation.
EvaluatedOne(w) ==
  /\ At(w, "evaluate")
  /\ req[w].scores # {}
  /\ Transition(w, "TESTS_EXECUTED", "COMPLETED")
  /\ UNCHANGED <<database, locks>>

Evaluated(w) ==
  /\ At(w, "evaluate")
  /\ Unscored(w) = {}
  /\ Transition(w, "TESTS_EXECUTED", "COMPLETED")
  /\ UNCHANGED <<database, locks>>

----------------------------------------------------------------------------
(* The except HTTPException branch of execute and evaluate. *)

\* Mutant: the evaluator can still fail after its last evaluation.
ProviderFailsLate(w) ==
  /\ At(w, "execute") \/ At(w, "evaluate")
  /\ Goto(w, "refresh")
  /\ UNCHANGED <<database, locks>>

\* A provider error, a spent call budget or a time limit.
ProviderFails(w) ==
  /\ At(w, "execute") \/ (At(w, "evaluate") /\ Unscored(w) # {})
  /\ Goto(w, "refresh")
  /\ UNCHANGED <<database, locks>>

Refresh(w) ==
  /\ At(w, "refresh")
  /\ req' = [req EXCEPT ![w].pc = "fail", ![w].seen = status[req[w].run]]
  /\ UNCHANGED <<database, locks>>

\* The FAILED write is unconditional: only what was read can hold it back.
Fail(w) ==
  LET rows == IF req[w].seen \in {"CANCELLED", "FAILED"} THEN {} ELSE {req[w].run}
  IN /\ At(w, "fail")
     /\ FlushAndReconcile(w, rows, "FAILED")
     /\ UNCHANGED <<database, locks>>

----------------------------------------------------------------------------
(* retry *)

\* AuditExecutionService.plan_for on the saved artifacts.
NextStage(r) ==
  IF Questions(r) = {} THEN "generate"
  ELSE IF \E t \in Questions(r) : answers[r][t] = 0 THEN "execute"
  ELSE IF Questions(r) \ scores[r] # {} THEN "evaluate"
  ELSE "none"

\* The branch that completes a FAILED run with nothing left to do is not needed:
\* FailedRunHasWork.
Retry(w, r) ==
  /\ status[r] \in Status \ {"CANCELLED", "COMPLETED"}
  /\ NextStage(r) # "none"
  /\ At(w, "idle")
  /\ req' = [req EXCEPT ![w] = [NoRequest EXCEPT !.pc = "retry", !.run = r, !.seen = status[r]]]
  /\ LockSuite(w)
  /\ LockRun(w, r)
  /\ UNCHANGED database

\* The status a stage starts from, and its first step.
Entry ==
  [generate |-> [status |-> "CREATED", step |-> "start_generate"],
   execute  |-> [status |-> "TESTS_GENERATED", step |-> "start_execute"],
   evaluate |-> [status |-> "TESTS_EXECUTED", step |-> "start_evaluate"]]

\* The run is put back to the status the stage starts from, and the stage begins.
RetryStage(w, stage) ==
  LET r == req[w].run
  IN /\ At(w, "retry")
     /\ stage = NextStage(r)
     /\ IF req[w].seen = Entry[stage].status THEN UNCHANGED status
        ELSE Unlocked(w, {r}) /\ status' = [status EXCEPT ![r] = Entry[stage].status]
     /\ req' = [req EXCEPT ![w] = [NoRequest EXCEPT !.pc = Entry[stage].step, !.run = r]]
     /\ UNCHANGED <<group, source, artifacts, locks>>

----------------------------------------------------------------------------
(* cancel_audit and cancel_experiment: no stage lock *)

Cancel(w, r) ==
  /\ r \in Members
  /\ status[r] \notin Terminal
  /\ At(w, "idle")
  /\ req' = [req EXCEPT ![w] = [NoRequest EXCEPT !.pc = "cancel", !.peers = {r}]]
  /\ UNCHANGED <<database, locks>>

CancelGroup(w) ==
  /\ Grouped
  /\ At(w, "idle")
  /\ req' = [req EXCEPT ![w] =
       IF Members = {} THEN [NoRequest EXCEPT !.pc = "commit", !.group = "CANCELLED"]
       ELSE [NoRequest EXCEPT !.pc = "cancel", !.peers = {r \in Members : status[r] \notin Terminal}]]
  /\ UNCHANGED <<database, locks>>

WriteCancelled(w) ==
  /\ At(w, "cancel")
  /\ FlushAndReconcile(w, req[w].peers, "CANCELLED")
  /\ UNCHANGED <<database, locks>>

----------------------------------------------------------------------------
\* A check that no longer holds ends the request with a 409, and a regeneration
\* that finds no more questions keeps the saved suite.
Refuse(w) ==
  LET r == req[w].run
  IN /\ \/ At(w, "start_generate") /\ status[r] # "CREATED"
        \/ At(w, "generate") /\ (status[r] # "CREATED" \/ (Grouped /\ group = "CANCELLED"))
        \/ At(w, "edit") /\ ~Editable(r)
        \/ At(w, "continue") /\ status[CanonicalRun(r)] # "TESTS_GENERATED"
        \/ At(w, "save_continue")
        \/ At(w, "start_execute") /\ status[r] # "TESTS_GENERATED"
        \/ At(w, "start_evaluate") /\ status[r] # "TESTS_EXECUTED"
     /\ Respond(w)
     /\ UNCHANGED database

Receive(w) ==
  \/ \E r \in Runs : \/ CreateAudit(w, r) \/ Generate(w, r) \/ Edit(w, r)
                     \/ ContinueGeneration(w, r) \/ Execute(w, r) \/ Evaluate(w, r)
                     \/ Retry(w, r) \/ Cancel(w, r)
                     \/ \E from \in Runs : ShareAnswers(w, r, from)
  \/ CancelGroup(w)

\* What the handler does next by itself.
Work(w) ==
  \/ InsertAudit(w) \/ StartGenerate(w) \/ CloneSuite(w) \/ Generated(w)
  \/ \E questions \in (SUBSET Tests) \ {{}} : SaveSuite(w, questions) \/ SaveContinued(w, questions)
  \/ EditChecked(w) \/ \E t \in Tests : SaveEdit(w, t)
  \/ Continued(w)
  \/ StartExecute(w) \/ (\E t \in Tests : Ask(w, t)) \/ StopAsking(w) \/ Executed(w)
  \/ SaveShared(w)
  \/ StartEvaluate(w) \/ (\E t \in Tests : Score(w, t)) \/ StopScoring(w) \/ Evaluated(w)
  \/ Refresh(w) \/ Fail(w)
  \/ (\E stage \in DOMAIN Entry : RetryStage(w, stage))
  \/ WriteCancelled(w) \/ Commit(w) \/ Refuse(w)

Next == \E w \in Workers : Receive(w) \/ Work(w) \/ ProviderFails(w) \/ Stop(w)

Spec == Init /\ [][Next]_vars

----------------------------------------------------------------------------
(* What the comparison rests on. *)

\* A saved answer is an answer to the question now in the suite: a suite is
\* frozen once execution has started (ensure_suite_editable).  This holds of a
\* comparison; a run of its own is editable after a retry that stopped early.
AnswersMatchQuestions ==
  \A r \in Runs, t \in Tests : answers[r][t] # 0 => answers[r][t] = suite[r][t]

\* Every condition that has a suite has the same questions in the same edition.
SameQuestions ==
  \A p, r \in Runs : Questions(p) # {} /\ Questions(r) # {} => suite[p] = suite[r]

\* A completed run has an answer and an evaluation for each of its questions,
\* whatever failed, was retried or raced on the way.
CompletedHasEverything ==
  \A r \in Runs : status[r] = "COMPLETED" =>
    /\ Questions(r) # {}
    /\ \A t \in Questions(r) : answers[r][t] # 0 /\ t \in scores[r]

\* A failed run always has a stage left to resume.
FailedRunHasWork == \A r \in Runs : status[r] = "FAILED" => NextStage(r) # "none"

\* No question is put to the target again while an answer to it is saved, nor by
\* two requests at once.
NotAskedAgain ==
  \A w \in Workers, t \in Tests : req[w].answers[t] # 0 =>
    /\ answers[req[w].run][t] = 0
    /\ \A v \in Workers \ {w} : req[v].run = req[w].run => req[v].answers[t] = 0

\* Saved answers and evaluations are never lost or replaced.
KeepsArtifacts ==
  /\ \A r \in Runs, t \in Tests : answers[r][t] # 0 => answers'[r][t] = answers[r][t]
  /\ \A r \in Runs : scores[r] \subseteq scores'[r]

ArtifactsAreKept == [][KeepsArtifacts]_vars

\* Until it commits, an executor or evaluator that has advanced a run still finds
\* it where it took it from: no cancellation slips under the compare-and-set.
Before(s) == IF s = "TESTS_EXECUTED" THEN "TESTS_GENERATED" ELSE "TESTS_EXECUTED"

AdvancesWhatItRead ==
  \A w \in Workers, r \in Runs :
    req[w].write[r] \in {"TESTS_EXECUTED", "COMPLETED"} => status[r] = Before(req[w].write[r])

\* Answers a request has obtained reach the database unless the process is
\* interrupted: neither a failure nor a lost compare-and-set drops them.
LosesAnswers(w) ==
  \E t \in Tests : /\ req[w].answers[t] # 0 /\ req'[w].answers[t] = 0
                   /\ answers'[req[w].run][t] # req[w].answers[t]

AnswersReachDatabase == [][\A w \in Workers : LosesAnswers(w) => Stop(w)]_vars

\* At the suite: a request writes the questions of the group, or asks them and
\* has not committed the answers.  Copied answers are under the run locks only.
SuiteSteps ==
  {"start_generate", "generate", "save_suite", "clone", "edit", "save_edit",
   "continue", "save_continue", "start_execute", "execute", "retry"}

AtSuite == {w \in Workers : req[w].pc \in SuiteSteps \/ (req[w].answers # NoTests /\ ~At(w, "share"))}

\* At a run: a request asks its questions, copies answers to it, scores them or
\* moves its status on.
RunSteps ==
  {"retry", "start_execute", "execute", "share", "start_evaluate", "evaluate",
   "refresh", "fail", "commit"}

AtRun(r) == {w \in Workers : req[w].run = r /\ req[w].pc \in RunSteps}

\* What the handlers take their locks for: one request at a time is at the suite
\* of a group, and one at each run.
SuiteStage == INSTANCE OneAtATime WITH Visitors <- Workers, inside <- AtSuite
RunStage(r) == INSTANCE OneAtATime WITH Visitors <- Workers, inside <- AtRun(r)

----------------------------------------------------------------------------
(* What the comments promise and these handlers do not keep. *)

\* "Completed conditions remain immutable" (cancel_experiment), "Never revive a
\* terminal run" (_generate): a run that was completed or cancelled stays so.
TerminalIsFinal ==
  [][\A r \in Runs : status[r] \in {"COMPLETED", "CANCELLED"} => status'[r] = status[r]]_vars

\* "Experiment membership is frozen once its shared test suite has been generated
\* or the experiment is terminal" (build_audit).
MembershipIsFrozen == [][group # "CREATED" => Members' = Members]_vars

\* "Finish a comparison group once every condition has a terminal status."
GroupFinishes ==
  Members # {} /\ (\A r \in Members : status[r] \in Terminal) /\ (\A w \in Workers : At(w, "idle"))
    => group \in Terminal

----------------------------------------------------------------------------
(* A handler that can go on does: a thread of the server runs it, and         *)
(* PostgreSQL gives a row to the session that waits for it when the holder's  *)
(* transaction ends (strong fairness).  No failure of a provider and no death *)
(* of a process is counted on.                                                *)
FairSpec == Spec /\ \A w \in Workers : SF_vars(Work(w))

\* Every stage lock is free again and again: whichever way a request ends
\* (answered, refused, cancelled under its feet, failed at the provider, behind
\* another session's rows), it ends, and its locks with it.  A lock that stayed
\* would be a 409 for everyone else.
StageLocksReturn ==
  /\ []<>(suiteLock = NoWorker)
  /\ \A r \in Runs : []<>(runLock[r] = NoWorker)

=============================================================================
