--------------------------- MODULE AuditExecution ---------------------------
(***************************************************************************)
(* AuditExecutionService (backend/app/services/audit_execution.py): the    *)
(* retry plan of a snapshot and resume, which runs stages until the plan   *)
(* is empty.  One action per collaborator call; the caller may resume again *)
(* whenever the service has returned.                                      *)
(***************************************************************************)
EXTENDS Integers, FiniteSets

CONSTANTS
  Tests,
  WithCancelled   \* TRUE: the caller may hand over a cancelled audit

ASSUME CancelAssumption == WithCancelled \in BOOLEAN

VARIABLES
  status,       \* snapshot.audit.status
  staged,       \* the audit carries an ac3_staged_suite or ac3_paired_retest mark
  tests,        \* snapshot.artifacts.tests, and so on
  responses,
  evaluations,
  completed,    \* snapshot.completed_stages
  stage,        \* the stage resume is in, "none" when it has returned
  pending,      \* plan.pending_test_ids still to be handled
  executed,     \* responses the connector has given for each test
  judged        \* evaluations the evaluator has given for each test

vars == <<status, staged, tests, responses, evaluations, completed, stage, pending, executed, judged>>
snapshot == <<status, staged, tests, responses, evaluations, completed>>

Status == {"CREATED", "TESTS_GENERATED", "TESTS_EXECUTED", "COMPLETED", "FAILED", "CANCELLED",
           "RESEARCH_STAGED"}
Stages == {"generate_tests", "execute_tests", "evaluate_responses"}

TypeOK ==
  /\ status \in Status
  /\ staged \in BOOLEAN
  /\ tests \subseteq Tests
  /\ responses \subseteq tests
  /\ evaluations \subseteq responses
  /\ completed \subseteq Stages
  /\ stage \in Stages \cup {"resume", "none"}
  /\ pending \subseteq tests
  /\ executed \in [Tests -> Nat]
  /\ judged \in [Tests -> Nat]

\* A snapshot loaded from saved rows: completed_stages is never persisted.
Init ==
  /\ status \in Status
  /\ staged \in BOOLEAN
  /\ status = "RESEARCH_STAGED" => staged
  /\ tests \in SUBSET Tests
  /\ responses \in SUBSET tests
  /\ evaluations \in SUBSET responses
  /\ status = "CANCELLED" => WithCancelled
  /\ status \in {"CREATED", "RESEARCH_STAGED"} => responses = {}
  /\ status = "CREATED" => tests = {}
  /\ status \in {"TESTS_GENERATED", "RESEARCH_STAGED"} => evaluations = {}
  /\ status \in {"TESTS_EXECUTED", "COMPLETED"} => responses = tests
  /\ status = "COMPLETED" => evaluations = tests
  /\ status = "FAILED" => evaluations = {} \/ (responses = tests /\ evaluations # tests)
  /\ completed = {}
  /\ stage = "none"
  /\ pending = {}
  /\ executed = [t \in Tests |-> 0]
  /\ judged = [t \in Tests |-> 0]

----------------------------------------------------------------------------
(* plan_for *)

\* Mutant: only the saved tests tell that generation is over.
GeneratedIfTests == tests # {}

\* _completed_stages, for generation: an empty suite counts by its status or by
\* the stage having run in this snapshot.
GenerationDone ==
  \/ tests # {}
  \/ "generate_tests" \in completed
  \/ status \in {"TESTS_GENERATED", "TESTS_EXECUTED", "COMPLETED"}

\* Mutant: an audit with all its responses is taken to be complete.
NextStageUnjudged ==
  IF staged \/ status \in {"CANCELLED", "COMPLETED"} THEN "none"
  ELSE IF ~GenerationDone THEN "generate_tests"
  ELSE IF tests \ responses # {} THEN "execute_tests"
  ELSE "none"

NextStage ==
  IF staged \/ status \in {"CANCELLED", "COMPLETED"} THEN "none"
  ELSE IF ~GenerationDone THEN "generate_tests"
  ELSE IF tests \ responses # {} THEN "execute_tests"
  ELSE IF tests \ evaluations # {} THEN "evaluate_responses"
  ELSE "none"

\* Mutant: a stage is run again for all of its tests.
PendingAll(next) == IF next = "generate_tests" THEN {} ELSE tests

Pending(next) ==
  CASE next = "execute_tests" -> tests \ responses
    [] next = "evaluate_responses" -> tests \ evaluations
    [] OTHER -> {}

----------------------------------------------------------------------------
(* resume *)

\* A staged audit is returned as it is.
Resume ==
  /\ stage = "none"
  /\ ~staged
  /\ stage' = "resume"
  /\ UNCHANGED <<snapshot, pending, executed, judged>>

\* The head of the loop: the next stage, or _mark_completed and return.
Plan ==
  /\ stage = "resume"
  /\ stage' = NextStage
  /\ pending' = Pending(NextStage)
  /\ status' = IF NextStage = "none" THEN "COMPLETED" ELSE status
  /\ UNCHANGED <<staged, tests, responses, evaluations, completed, executed, judged>>

Finish(s) == completed' = completed \cup {s} /\ stage' = "resume"

GenerateTests(generated) ==
  /\ stage = "generate_tests"
  /\ tests' = tests \cup generated
  /\ status' = "TESTS_GENERATED"
  /\ Finish("generate_tests")
  /\ UNCHANGED <<staged, responses, evaluations, pending, executed, judged>>

ExecuteTest(t) ==
  /\ stage = "execute_tests"
  /\ t \in pending
  /\ responses' = responses \cup {t}
  /\ executed' = [executed EXCEPT ![t] = @ + 1]
  /\ pending' = pending \ {t}
  /\ UNCHANGED <<status, staged, tests, evaluations, completed, stage, judged>>

FinishExecution ==
  /\ stage = "execute_tests"
  /\ pending = {}
  /\ status' = "TESTS_EXECUTED"
  /\ Finish("execute_tests")
  /\ UNCHANGED <<staged, tests, responses, evaluations, pending, executed, judged>>

EvaluateResponse(t) ==
  /\ stage = "evaluate_responses"
  /\ t \in pending
  /\ evaluations' = evaluations \cup {t}
  /\ judged' = [judged EXCEPT ![t] = @ + 1]
  /\ pending' = pending \ {t}
  /\ UNCHANGED <<status, staged, tests, responses, completed, stage, executed>>

FinishEvaluation ==
  /\ stage = "evaluate_responses"
  /\ pending = {}
  /\ Finish("evaluate_responses")
  /\ UNCHANGED <<status, staged, tests, responses, evaluations, pending, executed, judged>>

\* A collaborator raises, or answers for another test; resume returns.
Fail ==
  /\ stage \in Stages
  /\ stage = "generate_tests" \/ pending # {}
  /\ status' = "FAILED"
  /\ stage' = "none"
  /\ pending' = {}
  /\ UNCHANGED <<staged, tests, responses, evaluations, completed, executed, judged>>

Serve ==
  \/ Plan \/ FinishExecution \/ FinishEvaluation
  \/ \E generated \in SUBSET Tests : GenerateTests(generated)
  \/ \E t \in Tests : ExecuteTest(t) \/ EvaluateResponse(t)

Next == Resume \/ Serve \/ Fail

Spec == Init /\ [][Next]_vars

\* resume is a loop in one thread: it goes on as long as the collaborators return.
FairSpec == Spec /\ WF_vars(Serve)

----------------------------------------------------------------------------
\* "a completed response or evaluation is never submitted to a provider a second
\* time": not within a resume, and not after a failure.
NothingRepeated == \A t \in Tests : executed[t] <= 1 /\ judged[t] <= 1

\* An audit is complete only when each of its tests has a response and an
\* evaluation, wherever its last resume started from.
CompleteHasEverything == status = "COMPLETED" => responses = tests /\ evaluations = tests

\* A failed audit has a stage to resume, and all it had obtained.
FailedIsResumable ==
  status = "FAILED" /\ ~staged /\ stage = "none" =>
    /\ NextStage # "none"
    /\ \A t \in Tests : (executed[t] > 0 => t \in responses) /\ (judged[t] > 0 => t \in evaluations)

\* A staged research audit is never run, completed or changed.
StagedIsInert == [][staged => UNCHANGED <<snapshot, executed, judged>>]_vars

\* resume returns: every stage it starts leaves less to do, an empty suite included.
ResumeReturns == []<>(stage = "none")

\* "This audit was cancelled and is terminal." (plan_for)
CancelledIsTerminal == [][status = "CANCELLED" => status' = "CANCELLED"]_vars

=============================================================================
