# AI Memory Health Auditor: verification project

TLA+ models of the AI Memory Health Auditor (`src/backend`), the TLC
configurations that check them on small instances, and proofs checked by TLAPS.
`PROJECT.json` is the index: which definition models which lines, what each run
checks, which change of the code would break each property, and which hazards of
the code are covered.

Contents: [the system](#1-the-system) ·
[modules](#2-modules-and-their-correspondence-to-the-code) ·
[runs](#3-runs-bounds-and-what-they-show) ·
[fairness](#4-fairness) · [proofs](#5-what-is-proved) ·
[findings](#6-where-the-code-and-its-text-disagree) ·
[limits](#7-only-model-checked-and-not-modelled) · [plan](#8-plan)

To repeat the checks, in this directory:

    tlc -config AuditLifecycle.cfg MCAuditLifecycle     # a run
    tlapm Ac3Ledger_proofs.tla                          # a proof module

## 1. The system

The auditor imports a conversation, has memories extracted from it and reviewed,
generates test questions about them, puts the questions to a target AI that
remembers the conversation, and evaluates the answers. Several *conditions*
(audit runs) over one suite of questions form a comparison group (*experiment*).
A research layer (*AC3*) runs frozen suites against paid providers under a
durable ledger and a budget. Backend: FastAPI handlers over one SQLAlchemy
session each (READ COMMITTED, no autoflush: `database/session.py`), PostgreSQL
in production.

| Component | State it keeps | Operations | What makes it correct |
|---|---|---|---|
| AC3 attempt ledger, budget guard, settlement (`services/ac3_attempt_ledger.py`, `ac3_budget_guard.py`, `ac3_atomic_settlement.py`) | scope rows, receipts, reservations, evidence, saved answers | register, begin, record_pending, settle, settle_and_save | one unresolved attempt per scope, no question bound twice, reservations within the limit, evidence never rewritten, an overrun stops the scope |
| AC3 controlled run (`ac3_controlled_runner.py`, `ac3_locked_preflight.py`, `ac3_request_binding.py`) | its position; advisory locks; the provider call in flight | one step: lock, preflight, dispatch, call, record, settle, score | no question is paid for twice, whatever crashes or is lost; scored once, after settlement |
| Stage lock (`services/stage_lock.py`) | lease row, heartbeat thread, advisory lock, in-process set | claim, renew, release, expire, probe | a punctual holder is alone; an abandoned lease ends |
| Audit and experiment lifecycle (`api/routes.py`) | run status, group status, questions, responses, evaluations | create, generate, regenerate, continue, execute, evaluate, retry, cancel | conditions stay comparable; completed means complete; nothing saved is lost; terminal is final |
| Idempotent creation (`api/routes.py`) | creation key and fingerprint of conversations, experiments, audits | create, repeat, delete | one row per key, each request answered with its own row |
| Audit execution service (`services/audit_execution.py`) | a snapshot with its artifacts | plan_for, resume | resumed after any failure without repeating or losing a result |
| Shared answers (`services/shared_answers.py`) | responses copied from another condition | reuse | copied once, onto the same questions, without a call to the target |
| Conversations, extraction, memory review (`api/routes.py`, `extraction/`) | messages, memories, UPDATE edges, provenance | extract, add, patch, reject, confirm, first audit | extraction runs once; edges stay acyclic; frozen with the first audit |
| AC3 study service, result files (`ac3_study_service.py`, `ac3_run_export.py`) | run files, blind-review directory | run_study, export | a repeated study completes the same files |
| AC3 paired ledger and runners (`ac3_paired_*.py`) | one scope, a receipt for each question and role, saved answers | register, begin, settle, settle_target; a target step, a scorer step | the scorer is bound to the settled and saved target answer; nothing is paid for twice; the reservations always cover the rest of the study |
| AC3 simulation, staging, import | rehearsals; frozen source rows | simulate, stage, import | idempotent by fixed identifiers |
| Target memory agent (`memory_agent/`, called by `target_systems/controlled.py`) | records, links, lifecycle states of one run | ingest, reconcile, evict, retrieve, let an agent choose | one history per run; capacity kept; conflicts and the newest facts survive; a conflict is given whole |
| Test generator (`test_generator/`) | plan, suite and repair counters of one call | plan, draft, repair, review, reword, check | a completed suite is balanced, within budget, without repeats; the repairs end |
| Benchmark plans, model availability, operator sessions | plan receipts; cached probes; sessions | claim a trial; probe; log in | a trial runs once; a cooldown is kept; sessions expire |
| Evaluators, metrics, providers, freezes | none of their own | calls | (language processing and hashing) |

**Interactions.** Handlers call each other as functions (`_retry_audit` calls
`_generate`, `_execute`, `_evaluate`), share rows, and exclude one another only by
stage locks; cancellation takes no lock. The AC3 runner calls the ledger from
three different transactions (the preflight transaction stays open during the
provider call; the dispatch is committed on another connection) and relies on
stage locks that live on yet another connection. The execution service works on
a snapshot that was loaded before and is saved after. The target's store works in the
executor's session: what it ingests is committed or lost with the answers. The
generator is one call of `_generate`; `AuditLifecycle` takes any suite as its result.

**Hard behaviours.** Interleaved handlers that read, call a provider for seconds
or minutes, and then write; row locks that delay an UPDATE without re-checking
what it was based on; crashes between a dispatch and its answer; leases renewed
by a thread that can be late; locks lost with their connection; retries that
must not pay twice; repeated creation requests; memory edits checked against a lineage
that others change; bounded selections that must not split a conflict; repair loops whose
steps undo each other. They are listed line by line
under `hazards`, each with the property that covers it or the reason why none does.

## 2. Modules and their correspondence to the code

| Module | Models | Composes |
|---|---|---|
| `Ac3Ledger` | the ledger, the budget guard and the settlement | |
| `Ac3Runner` | workers that run the controlled step, the provider, the locks | extends `Ac3Ledger` |
| `Ac3Paired` | the paired ledger, its target and scorer steps, the providers, the locks | |
| `PaidOnce` | the abstract promise of a study | implemented by `Ac3Runner` and by `Ac3Paired` |
| `AuditLifecycle` | the handlers of a run and its group, shared answers included | |
| `MemoryReview` | extraction, memory edits and the first audit of a conversation | |
| `TargetMemory` | the target's memory over the executions of one run | |
| `TestGenerator` | the agent that writes a suite | |
| `OneAtATime` | the abstract promise of a stage lock | implemented by `StageLock`, and by the stages of `AuditLifecycle` that its locks protect |
| `Creation` | keyed creation requests and deletions | |
| `StageLock` | the row lease and its heartbeat | |
| `AuditExecution` | plan_for and resume | |
| `*_proofs` | theorems about the module of that name; `Ac3Ledger_proofs` is about `Ac3Runner` too, `Services_proofs` about `AuditExecution` and `StageLock` | extends it and TLAPS |
| `MC*` | symmetry and constants for TLC | extends its module |

A definition marked *Mutant* in a module is not used by the specification: it is
the changed form of the next definition that `PROJECT.json` names to show that a
property depends on that piece of code.

**Ac3Ledger.** Each method is one transaction that locks its scope row, so each is
one action; a call whose checks fail raises, rolls back, and is a step that is not
enabled. `scopeStatus`, `budgetStatus`, `spent` are columns; `receipt[k]` gathers
the receipt, reservation and evidence rows of request key `k`; `saved[k]` is the
response text that settles it. Actions: `RegisterReviewedScope`, `RegisterBudget`,
`BeginBudgeted`/`BeginUnbudgeted` (dispatch with or without a budget; blocks the
scope), `RecordPending`, `SettleReceiptOnly`, `SettleAndSaveBudgeted`/`Unbudgeted`.
Digests and contracts are abstracted to the bijection between a scope and its
frozen suite.

**Ac3Runner.** One action per transaction or call of `run_controlled_ac3_step`:
`RegisterScope`, `EnsureBudget`, `Lock`, `Preflight`, `Dispatch`, `Send`, `Receive`,
`RecordAnswer`, `SettleAnswer`, `Score`; those that write to the ledger contain its action. Between any two the worker may `Stop` (an exception or
a crash; its locks are freed). `LoseLock` is a broken advisory-lock connection:
PostgreSQL frees the locks and the worker goes on without knowing. A worker
decides by what `Preflight` saw; by the time it dispatches this may be stale.

**PaidOnce.** Questions are open, claimed, called, answered; at most one call, no
claim while another question of the scope is claimed or called, nothing after a
halt. `Ac3Runner` refines it with `phase` computed from receipts and calls and
`halted` from the budget status; `Ac3Paired` with the requests of both roles as questions.

**Ac3Paired.** A method of the paired ledger is one transaction on the scope row and one
action: `Register`, `Begin`, `Keep` (settle without a usable cost), `Settle` (with one; a target's
answer is saved in the same transaction). A step of a worker is `Start`, `Register`, `Lock`,
`Preflight`, `Dispatch`, `Send`, `Receive`, `KeepAnswer`, `SettleAnswer`, for either role; a scorer step
takes the settled answer along as what it is `bound` to. `Reconcile` is the settlement of a kept answer
whose cost is learnt later, `Stop` and `LoseLock` are as in `Ac3Runner`. A failed check
raises and ends the step, which is `Stop`. `mode` is capped or tracking only, where nothing
overruns and prior spending is not counted.

**AuditLifecycle.** A handler is cut where another session can come between.
`req[w]` holds what the handler read (`seen`, `peers`) and what it flushed and has
not committed (`write`, `answers`, `scores`, `group`). `Unlocked` is PostgreSQL's row
lock on a flushed row: an UPDATE waits for it and then overwrites. `Transition` is
the compare-and-set of `transition_audit_status`; `FlushAndReconcile` and `Verdict`
are `reconcile_experiment_terminal_state`, which sees committed rows and its own.
Generation, edits, continuation, execution and retry hold nonblocking stage locks
(a busy lock is a 409, a request that is not received); `Cancel` and `CancelGroup`
hold none. `ProviderFails`, `Refresh`, `Fail` are the exception path that saves the
answers obtained so far and marks the run FAILED; `Stop` is a crash or an uncaught
exception, with rollback. A question is a test and an *edition*: each rewrite of
the canonical row makes a new edition (bound `MaxEdition`), which is how the model
tells an answer to the old wording from one to the new. `ShareAnswers` and `SaveShared` are
`reuse_target_answers`: under both run locks it copies the responses of a finished condition
and then writes the statuses of the run and the group without a condition. Any run with
answers to all of its questions may be a source, one whose answers were copied too. `Grouped` selects an
experiment of several runs or one standalone audit. The repair branch of
`_retry_audit` (2296) is absent: it handles a FAILED run without work, and
`FailedRunHasWork` shows that none occurs.

**Creation.** `Lookup` is `existing_creation` at the head of a handler, `Check` the
validations that follow, `Insert` the flush and commit (one step, because the unique
constraint makes other inserts of the key wait from the flush on), `RollBack` and
`LookupAgain` the `IntegrityError` path. `made[i]` remembers what a row was made from
after its deletion; `due` is a history variable: the row a repeated request had when it
came. `Freeze`, `DeleteRoot` and `DeleteParent` are the rest of the system: the group
leaves CREATED, a conversation is deleted with all that belongs to it. Requests
without a key make a row of their own and are left out.

**MemoryReview.** `Extract` takes the stage lock and the conversation's row (NOWAIT) and finds
nothing extracted; `Saved`, `Failed` and `RolledBack` are its three endings, `StageLockIsLost` the
broken connection of the advisory lock, which leaves the row lock as the only guard. An edit is
two steps: `Add`, `Patch`, `Reject` and `Confirm` check and remember what they will write (`edit[w]`),
`Save` commits it and waits while an extraction holds the row if it inserts. `BuildAudit`, `SaveAudit`
are `create_audit`, which does not exclude edits. A lineage is a function from a memory to those
it updates; `stale` and `raced` are history variables that record whether an edit was saved over
a lineage it had not seen.

**TargetMemory.** The session of one run: `Begin` an execution, `Ask` a question, `Extract` what the
writer returns (any well-formed `Batches` element), `Write` the records (`HomeOf` merges duplicates and
near duplicates), `Link` them one link at a time, evict (`Evict` or `EvictForCoverage`), then
`Retrieve` for each question. Retrieval ranks by integer keys (the code's tuples), and selects
groups of conflicting records under the room and character budgets (`Profiled`) or trims a packet
(`Trimmed`), both as folds that take the records in the order of the code's loops; with a retrieval agent the candidates are narrowed batch by batch (`Narrow`) and chosen
from (`Choose`). `Finish`, `ExtractFails` and `ExecutionFails` commit, `Crash` rolls back to `saved`. A record is
its place in the writer's output; a text is a fact with a gist, weight, time, size and relevance.

**TestGenerator.** One call of `generate`: `Allocate` (one iteration of the loop in `_dimension_quotas`), `Gate`,
`Plan`, `Draft` slot by slot, `Mend` (coverage repair in rounds), `Clean` (exact repeats),
`Review`/`ReviewIsClear`, `Reword`, and the last checks; `Fail` forgets what the call had, as an exception does.
`At(s, places)` is a list comprehension: the elements of `s` at a set of places, in their order. What a model
returns is any text, or nothing; of a text matters whether it is poor, blank or a repeat. Ids are
kept as the code assigns them, collisions included, because later steps go by id.

**OneAtATime.** A visitor enters the protected stage when nobody is in it, and leaves. `StageLock` implements it with
the punctual holders as visitors. In `AuditLifecycle` the visitors are requests, by what they are doing and not by the
lock: `AtSuite` are those that write the questions of the group or ask them, `AtRun(r)` those at work on the answers,
evaluations or status of a run.

**StageLock.** The row (`owner`, `left`), the claims (`state`), the heartbeat threads
(`beat`) and the age of their last renewal (`since`). The clock is read before the
transaction that uses it, so every comparison and every new lease may be up to
`Delay` old. `Release` deletes only the own row, may fail, and may leave one late
renewal behind (the join has a timeout); `Crash` leaves the row; `Tick` advances the
time and never lets the renewal of claim `c` be overdue by more than `Stall[c]`, which is
a parameter: a claim that is later than its lease is a legal instance.

**AuditExecution.** One action per collaborator call. Init is every consistent saved
snapshot; `WithCancelled` adds the cancelled ones. `executed` and `judged` count
the results obtained for each test. `resume_matrix` is the same call for one snapshot
after another.

## 3. Runs, bounds and what they show

| Run | Instance | Shows |
|---|---|---|
| `ledger` | 2 scopes, 3 keys, 2 questions, 2 answers, costs 0, 2, 3, limit 3, reservation 2 | one unresolved attempt per scope, reservations within the limit, receipts and saved answers that agree and are final, over every order of calls, with foreign answers, missing costs and overruns |
| `study` | 1 scope, 2 keys, 2 questions, 2 workers, 2 answers, costs 1, 3 | two workers on one scope with crashes and lost locks: the refinement `ImplementsPaidOnce`, `SavedIsProviderAnswer`, `ScoredOnceIfSettled` |
| `paired` | 2 questions in 2 roles, 2 workers, 2 answers, costs 1 to 3, cap 7, prior 1, reservations 2 and 1, both modes | the same promise for targets and scorers; `RecordsAgree` ties receipts, saved answers and spending; the study never gets stuck on "Budget exhausted" |
| `lifecycle` | 2 runs in a group, 2 questions, 2 requests, 2 editions | conditions answer the same questions in the same edition, complete is complete, no artifact is lost or asked for twice |
| `lifecycle_ends` | 2 runs in a group, 1 question, 2 requests | every stage lock is given back, whichever way its holder ends |
| `creation` | 3 workers, a root key and a joining key, 2 payloads, 3 rows | each request gets its own row, a repeated one its first, errors only after deletions |
| `review` | 2 extractions, 2 editors, 3 memories, 4 edits, extractor output with and without a lineage | extracted once; cycles only from overlapping patches or from the extractor; after the first audit only an edit already open changes the evidence |
| `memory` | 4 facts, batches of up to 3 with up to 2 links, 2 questions, 2 executions, 6 settings | capacity, conflicts, newest facts and one history, over merges, links, evictions, failures, crashes and retries; conflicts are selected whole |
| `generator` | 2 abilities, 3 slots, 4 good texts, a poor and a blank one, budgets 1 to 4, 2 rounds of either repair | completed suites are sound and no longer than requested, the late checks find nothing new, quantity filling is never needed, the generation ends |
| `lease` | 3 claims, lease 3, delay 1, stalls 1, 1, 4 | exclusion among punctual holders while the third is later than a whole lease; an abandoned lease ends |
| `resume` | 3 tests, all snapshots that are not cancelled | nothing paid for is repeated or lost; resume returns |
| `terminal_final` | as `lifecycle`, smaller | the disagreement of section 6 |

**Why the bounds are enough.** The ledger's rules relate two attempts of a scope
(one unresolved, one question twice) and a third key shows a change after both;
limit 3 with reservation 2 admits a second reservation after a cost of 0 and
refuses it after 2, and cost 3 overruns. Two workers, two questions and two keys are the
least with which a study can repeat a question under another key, or call two questions at
once. In the lifecycle every race found or excluded is between two
requests on one or two conditions; one condition answers while the other is edited.
Two questions are needed for a half-executed run, two editions for an outdated
answer (a third differs from the second by nothing a handler reads).
In `creation` a third worker can delete between the refusal and the
second lookup of another and repeat the key of both. The lease of 3
ticks stands for 180 s with renewals every 30 s: what matters is which claims satisfy
`Delay + Stall < Lease`, and there is one on either side; the proof covers all other values.

In `paired` the cap is exactly prior spending plus all reservations, the tightest a registered
study may have, and cost 3 is above either reservation. In `review` two editors are the least that
can close a cycle together, and three memories the least for a cycle through an added one; four
edits let both act again after a race. In `memory` three records are the least where a group of
conflicting ones competes with a third under a capacity or room of two; four facts let one of
them be a near duplicate. Capacities 1 to 3 and both limits of a context are met, exceeded and
impossible to keep. Two executions are a failure and its retry. In `generator` the
budgets go from less than the abilities to more than the evidence; three slots are the least with which ids
collide after the first cleaning, and four wordings the least with which a slot asked twice is completed
(with three it goes unnoticed); two
rounds of coverage repair (three in the code) and two of semantic repair let every round be the first, the
last and one that undoes an earlier repair.

Counters are not capped by constraints: `calls`, `evals`, `executed` and `judged` stay bounded
because the properties hold. The bounds in guards are `MaxEdition`, `Ids`, `MaxEdits` and `MaxExecutions`;
the two round limits of the generator are the code's own.
Deadlock is checked except where the system may stop: in `ledger` all keys
may be used up, in `resume` a staged audit is returned as it is, in `review` the edits are used
up under an audit, in `generator` the generation is over.
Liveness runs use no symmetry.

## 4. Fairness

- `lifecycle_ends`: strong fairness of `Work(w)`, what a handler does next by itself.
  A server thread runs it, and PostgreSQL hands a row lock to a waiting session when
  the holder's transaction ends. No fairness on `ProviderFails` or `Stop`: a request does
  not end because something is counted on to fail. A request takes the rows it writes in one step: sessions that wait
  for each other's rows are left to PostgreSQL, which aborts one of them, a `Stop`.
- `lease`: weak fairness of `Tick` and of each heartbeat. A heartbeat that stops with its
  process is disabled by `Crash`.
- `generator`: weak fairness of `Next`: one thread runs the loop, and each call to a model returns,
  fails or times out. Which of these happens, and what a review finds, is not constrained.
- `resume`: weak fairness of `Serve`: the loop is one thread and continues while its
  collaborators return. `Fail` and `Resume` have none.

## 5. What is proved

Assumptions are the named ASSUMEs of the modules: null values are not data values;
`Reservation` is positive and at most `Limit` (checked by `register`); `Delay < Lease`;
the error replies of `Creation` are not row identifiers; weights and times of observation are natural
numbers and capacities positive; an extractor's output and a patch refer to memories; at least one edition (`MaxEdition`); the paired
study's cap covers its prior spending and reservations (checked by `register`). `Keys`, the paired
study's questions, the generator's slots and `Runs` are finite, which the sums of costs and the counts over a group or a suite need; slots are numbers, for their order, and an ability is listed once. Sets are otherwise arbitrary: any number of
scopes, keys, questions, claims, tests, requests, workers, rows, records and links. `MaxEdition` bounds
a counter of the model; the proofs hold for each value of it.

Each proof module proves the type invariant first (`TypeCorrect`; `LeaseTypeCorrect`, `RunTypeCorrect`, `GeneratorTypeCorrect` where the name is taken
or the invariant comes before it); the types are proved and not also run. Other theorems
about properties that no run lists (`QuestionsAskedOnce`, `AttemptsAreReserved`, `OverrunIsTerminal`,
`LiveLeaseIsKept`, `LostLeaseIsLost`, `StagedStaysInert`, `FailedAuditsResume`, `RowsAreUnique`,
`AgentDecidesAll`, `ExtractionIsFirst`) state definitions of the module as well. `RunInvariant`,
`PairedInvariant`, `LifecycleInvariant` and `GeneratorInvariant` state the inductive invariants themselves, from which the theorems
after them follow.

Sums and folds are computed by recursive functions over finite sets. Induction over such a set is done without
the library's induction rules: of the subsets for which a statement fails, a smallest one exists
(`Smallest`, from the well-foundedness of the strict subset ordering), and taking one element out of it gives the contradiction.

**`Ac3Ledger_proofs`** — `TypeCorrect`, `AttemptsAreSerial`, `QuestionsAskedOnce`,
`BudgetIsKept`, `AttemptsAreReserved`, `SavedAnswersAgree`, `EvidenceKept`, `OverrunIsTerminal`.
Inductive invariant `LedgerInv`: the safety properties together, `NoUnreservedAttempt`, and
`ReceiptShape`, which ties the columns of a receipt to each other. The budget fits only
because a scope has one unresolved attempt, and that holds only because a budget
cannot be registered once a receipt exists; neither part is inductive alone. The two
action properties follow from it, one case per method. `SpentIsAccounted` adds `MoneyInv`: the column
`spent` is the sum of the settled costs, which a settlement changes in one term.

The module goes on to `Ac3Runner`, whose steps contain those of the ledger: `RunInvariant`,
`RunTypeCorrect`, `AnswersAreProviderAnswers`, `ScoresFollowSettlement`, `RunImplementsPaidOnce`. `RunInv` adds to
`LedgerInv` what a worker between two calls may rely on though others run and locks get lost
(`WorkerInv`): from the commit of a dispatch to the settlement the unresolved receipt of its scope is its
own, bound to its question, and what it carries is what the provider said; and what each saved, scored or called question owes to its
receipt (`RowsInv`). Under it every step of any number of workers is a step of `PaidOnce` or a stutter: no question is
paid for twice.

**`Ac3Paired_proofs`** — `PairedInvariant`, `TypeCorrect`, `RecordsAlwaysAgree`, `BudgetSuffices`,
`PairedImplementsPaidOnce`. `PairedInv` is: the shape of a receipt, one unresolved receipt, what a worker at each position
knows, one sender, answers that agree with their receipts and with what the scorer was bound to, spending that is the
sum of the costs, and reservations that cover the requests still to come. The last two carry each other: a settlement
below its reservation frees the difference, one above it stops the study, and in between nothing else is reserved. The
refinement of `PaidOnce` has the requests of both roles as its questions.

**`Services_proofs`** — of `AuditExecution`: `TypeCorrect`, `NothingIsRepeated`,
`CompleteAuditsAreWhole` (without cancelled audits), `StagedStaysInert`, `FailedAuditsResume`. `ExecutionInv` adds to
the types that the pending tests of a stage still lack its result, and that a counted
result is kept; `CompletionInv` adds what an empty plan means; `FailureInv` that generation runs only when it is
not done, so that a stage that fails leaves a stage to resume.

Of `StageLock`, whose specification is `LeaseSpec`: `LeaseTypeCorrect`, `HolderKeepsRow`, `LeaseIsSection`,
`LiveLeaseIsKept`, `LostLeaseIsLost`. `HolderKeepsRow` says that a claim with `Delay + Stall[c] < Lease`
owns its row until its stage ends. That it owns the row is not inductive: the
strengthening `HolderIsCovered` adds that its heartbeat runs and that the lease left and
the age of the last renewal add up to at least `Lease - Delay`, so that no other claim can find it expired. From it follows
that the lease implements `OneAtATime` for such claims (`LeaseIsSection`): a claim that succeeds has found none of them inside.

**`AuditLifecycle_proofs`** — `LifecycleInvariant`, `TypeCorrect`, `AnswersFitTheSuite`,
`ConditionsShareQuestions`, `CompletedIsComplete`, `FailedCanResume`, `AskedOnce`, `AdvancesFromWhereItWas`,
`WorkIsKept`, `AnswersAreSaved`, `SuiteStageIsExclusive`, `RunStageIsExclusive`, for any number of runs, questions and overlapping requests. `LifecycleInv` has three
parts: what the rows of a run, its group and its suite say of each other (`Rows`); for each request, what of the things it read is still
true, given the locks it holds (`Knows(w)`); and which two requests cannot be under way together (`Apart`). None is inductive without
the others: a row stays consistent because a request that writes it still knows what it read, and it knows
that because those that could have changed it are apart from it. `AnswersFitTheSuite` assumes `Grouped`; section 6 shows the trace
of a run on its own. The four action properties follow from the invariant, one case per kind of step.
The last two theorems say that the requests at the suite of a group, and those at each run, follow `OneAtATime`. They are
about the handlers: each takes the lock of what it works on before its first step there and keeps it to the last, answers on their way
to the commit and retries that go from stage to stage included (`HoldsLocks`). A handler that forgot its
lock, as `ContinueUnlocked` does, would enter while another is inside. That a lock has one holder is `LeaseIsSection` of the
lease; that every holder is punctual is taken for granted here.

**`Creation_proofs`** — `TypeCorrect`, `RowsAreUnique`, `AnswersAreOwn`,
`RepeatsAreAnswered`, `ErrorsNeedDeletions`. `CreationInv` adds to the properties that saved
rows have origins and `Progress`: a request is past its first lookup only if the row it
repeats is gone. `FailureInv` adds that a refused insert met a row or a deletion; the lemma
`KeysStayKnown` carries this over the steps of others.

**`TargetMemory_proofs`** — `TypeCorrect`, `HistoryIsOne`, `AgentDecidesAll`,
`ConflictsSurvive`, `NewestSurvives`, `CapacityIsHeld`, `ConflictsStayWhole`, for every writer output, setting and number of
executions. Every invariant has two halves, one for the working state and one for `saved`, to which a
crash returns. `HistoryInv` adds that answers given from a memory come from its latest writing, and that with one of
them, committed or not, nothing is written again; `LinksInv` that each applied link has done its work and no
later one undid it but by an UPDATE; `RetentionInv`
that eviction stops exactly at the capacity and has taken records in the order of their retention,
which is why no kept record outside a conflict weighs less than one that went. For `ConflictsStayWhole` the
sets of candidates that hold each conflict whole (`WholeSets`) are shown to be kept by each step of the two folds: the
group of a record is such a set, however long the chain of its conflicts, and what a trimmed packet loses is one when no record
has two opponents, in whatever order the rows come. The folds need their choices to exist, which is
where the ranking is shown to be a total order (`LowestIsIn`).

**`MemoryReview_proofs`** — `TypeCorrect`, `ExtractionIsOnce`, `ExtractionIsFirst`,
`GroundTruthIsFrozen`, `CyclesAreExplained`. `OnceInv` adds that an extraction goes on exactly as long as its session holds
the conversation's row (so a lost stage lock does no harm), that an audit has
memories, and that once it is saved every edit under way was under way then. `LineageInv` adds that an
edit that is not stale saw the lineage there is now, and that no two edits under way add one memory; so its check
still holds when it is saved and it closes no cycle, in lineages of any size.

**`TestGenerator_proofs`** — `GeneratorInvariant`, `GeneratorTypeCorrect`, `NothingIsLeftToFill`,
`CompletedSuitesAreSound`, `LastChecksRefuseNothing`, for any abilities, slots, texts, evidence, requests and numbers
of rounds, whatever the models return. First come lemmas about selecting and counting: what `At` returns
(`AtProperties`, from the ranks of a set of numbers), and that the questions of a suite, counted by ability, are
no more than its length (`AskingCounts`). `GeneratorInv` has four parts. `QuotasOK`: the quotas are within the request, no ability
is two ahead of one with evidence left (each question goes to one with the fewest), and when they are given out
the request or the evidence is used up. `PlanOK`: a plan lists that many slots, each once. `SuiteOK`: in each phase, which slots of the plan
have a question, which wordings may still repeat, and that after a repair every slot is either asked or among the gaps the repair began with.
`TodoOK`: what is left to do fits the phase, and a test that is to be replaced is there. Nothing is assumed of ids: every slot is
found again by its place in the plan, which is why colliding ids lose no slot. `CompletedIsSound` then is a matter
of counting: a suite with at least the quotas and at most the request has exactly the quotas if they exhaust
the request, and if they do not, they exhaust the evidence.

## 6. Where the code and its text disagree

The run `terminal_final` (its quotes are in `PROJECT.json`): the reply of the generator is checked against the
run and saved without a condition, so a cancellation in between is undone
(`routes.py:1381`; TLC's trace). The same window is open at 2116, 2221 and 2303-2307, in
`shared_answers.py:70-71`, and in the other direction where a cancellation overwrites a
completion (2134, 1940).

The following are stated as definitions of their modules. They are not in a run; add the
definition to the configuration named and TLC shows the trace.

- `MembershipIsFrozen` (`AuditLifecycle.cfg`): an audit joins an experiment whose suite was generated, or which
  was cancelled, between the check and the insert (`routes.py:966`, against the comment at 969).
- `GroupFinishes` (`AuditLifecycle.cfg`): the last two conditions end in transactions that do not see each other,
  and the group stays open for good (`routes.py:1911`, against 1901).
- `AnswersMatchQuestions` (`AuditLifecycle.cfg` with one run and `Grouped = FALSE`): a retry that stops after its status reset
  leaves saved answers under a status that allows edits (`routes.py:2305`, 1131-1166, against "The test suite is
  frozen once execution has started." at 1141). In a group the other checks of `ensure_suite_editable` prevent
  this, which `lifecycle` confirms and `AnswersFitTheSuite` proves.
- `CancelledIsTerminal` (`AuditExecution.cfg` with `WithCancelled = TRUE`): `resume` turns a cancelled audit into a
  completed one (`audit_execution.py:191`, against 156).
- `LineageIsAcyclic` (`MemoryReview.cfg`): two overlapping patches are each checked against the committed lineage and
  together close a cycle (`routes.py:331-364`); the extractor's own output is saved without the check
  (`tests/test_input_and_relationship_guards.py:51-88` expects the refusal of a cycle).
- `PacketKeepsConflicts` (`TargetMemory.cfg`): an oversized packet drops lines in one pass over rows in no particular
  order, so the partner of a dropped line may already have been kept (`memory_agent/store.py:418-430`;
  `tests/test_persistent_target_memory_store.py:161`, "never splits conflicts", has a single pair). A
  record with two opponents is needed; without one `ConflictsAreWhole` holds for packets too.
- `PlanMeetsQuotas` (`TestGenerator.cfg`): the plan's ids are counted under the ability the model listed them
  (`agent.py:599-603`), not under the one they belong to, which only the provider's schema asks for, and
  one provider is sent no enumeration (`extraction/llm.py:266-272`). The shortage is noticed at 369-391,
  after every call was paid for; `LastChecksAreIdle` therefore assumes it away.

- `EverySlotOnce` (`TestGenerator.cfg`): additions are numbered before the gate drops some of them, so a later round can
  give an id that is taken (`agent.py:1128`). A quality repair of that id writes one question over both
  (1647); if it has no letters the wording check spares both (1008), and the next review has them
  reworded one by one. The slot that was written over is asked again, and the suite is completed with
  a slot asked twice ("Do not add a question whose intent is already covered by another slot", 469). It takes a plan
  shorter than the request: otherwise the budget check of 1172 ends the generation, which `NothingToFill` states.

Observations without a definition:

- `database_stage_busy` (`stage_lock.py:174`) learns whether a stage is busy by claiming its lock for a
  moment, so a look at the status can get a real stage refused with 409. `StageLock` treats the
  probe as a short claim.
- An extraction of the target's writer that is empty is repeated by each retrieval
  (`store.py:183-189`), so answers given before and after may differ in what they knew;
  `OneHistory` exempts them. Links between merged candidates can leave both records of a fact
  SUPERSEDED, and a CONFLICT link after an UPDATE makes a superseded record CONFLICTED again
  (`store.py:327-329`); `NewestIsKept` and `ConflictsAreKept` say what still holds.
- `confirm_ground_truth` writes over a rejection saved after it read (`routes.py:844`).
- "Budget exhausted" (`ac3_paired_budget_ledger.py:104`) cannot be met in a capped study: `ReservesCoverTheRest`
  shows that registration already ensures it. The body of a failed scorer request is kept like an
  answer (`ac3_paired_scorer_transport.py:33-36`).
- Quantity filling (`agent.py:329-358`) is not reached by a complete generation: `NothingToFill`.

## 7. Only model-checked, and not modelled

Every invariant and action property of a run is stated by a theorem. Only model-checked is liveness (`StageLocksReturn`, `AbandonedLeaseEnds`,
`ResumeReturns`, `GenerationEnds`), which is out of the prover's reach: it has neither fairness nor ENABLED.
Modules with theorems use no RECURSIVE operators.

Abstracted everywhere: texts, prompts, scores and fingerprints (values that are equal or
not), time budgets and limits (`ProviderFails` at any question), deadlocks that PostgreSQL
resolves by aborting a session (`Stop`), the in-process lock layer in front of the
database lock.

Not modelled, and why: prompts, parsing and text comparison of generation, evaluation, extraction and
retrieval; metrics and exports (queries over finished runs); the frontend, offline scripts and
recorded research data, which are the larger part of the repository's lines; frozen copies of
former implementations; credentials.

Left out inside the modelled components:

- lifecycle: human quality reviews, observations, generation receipts;
- stage lock: claiming several scopes in one call (runs first, then `suite:...`, while
  `execute` takes the suite first; the locks are nonblocking, so opposite orders end in 409s);
- target memory: scope-aware and temporal-importance rankings, message context, project isolation,
  `prefer_current_state`, the diagnostic replay, a store without a capacity, the
  character limit of agent requests (`Request` counts records);
- test generator: the replacement of a single question, the split review of local models, transport
  retries inside a call;
- paired study: the row locks of the preflight (the model has more interleavings), the exports, the
  replay, the scorer and the snapshots of the earlier study.

The listed hazards are those of modelled code. Two more wait for their modules: the blind-review
directory that two studies can both find absent (`ac3_study_service.py:98`), and an audit two
benchmark plans can claim together (`benchmark_plan.py:119`).

## 8. Plan

Done, the most expensive mistakes first: `Ac3Ledger` (money), `Ac3Runner`
with `PaidOnce` (payments under crashes), `AuditLifecycle` (comparability), `StageLock` (the
exclusion the lifecycle rests on), `AuditExecution`, `Creation`; then shared answers,
`TargetMemory` (what the audited system knows), `MemoryReview` (what it is audited against), `TestGenerator`
(what it is asked) and `Ac3Paired`. Proofs of all of these, the refinements of `PaidOnce` and of `OneAtATime` included.

Next, modelling:

1. Quality reviews in the lifecycle (pending, accepted and rejected questions gate execution).
2. `StudyFiles`: receipts, run file and blind-review directory over interrupted studies.
3. The multi-scope claim of `StageLock`, and the advisory lock as an implementation of `OneAtATime`, its broken
   connections included.
4. `BenchmarkPlan`, model availability, operator sessions.

Next, proving:

1. One lifecycle composed with one lease per scope: what of `LifecycleInv` is left when a holder is late, which
   `LeaseIsSection` and the two theorems on the stages exclude.
2. Liveness, when a prover for it is at hand.
