------------------------ MODULE AuditLifecycle_proofs ------------------------
(***************************************************************************)
(* What AuditLifecycle keeps, proved for any number of conditions,         *)
(* questions and concurrent requests.                                      *)
(*                                                                         *)
(* The invariant has three kinds of parts: what the committed rows say by  *)
(* themselves (Rows), what one request knows of the rows and of the locks  *)
(* it holds (Knows), and what two requests say of each other (Apart).      *)
(* A step of one request is then checked once against its own knowledge    *)
(* and once against that of the others.                                    *)
(***************************************************************************)
EXTENDS AuditLifecycle, FiniteSetTheorems, TLAPS

----------------------------------------------------------------------------
(* The invariant. *)

Answered(r) == \A t \in Questions(r) : answers[r][t] # 0
HasUnscored(r) == \E t \in Questions(r) : t \notin scores[r]
GroupStarted == group \in {"RUNNING"} \cup Terminal
NoAnswers == \A r \in Runs : answers[r] = NoTests

\* What the status of a run says of its artifacts.
StatusMatchesArtifacts ==
  \A r \in Runs :
    /\ status[r] \in {"absent", "CREATED"} => suite[r] = NoTests
    /\ status[r] \in {"TESTS_GENERATED", "FAILED"} => HasUnscored(r)
    /\ status[r] \in {"TESTS_EXECUTED", "COMPLETED"} => Questions(r) # {} /\ Answered(r)
    /\ status[r] = "COMPLETED" => ~HasUnscored(r)

\* A response belongs to a question, an evaluation to a response.
ArtifactsNest ==
  \A r \in Runs, t \in Tests :
    /\ answers[r][t] # 0 => suite[r][t] # 0
    /\ t \in scores[r] => answers[r][t] # 0

\* The canonical suite, and the questions of a group.
SourceHasSuite ==
  /\ source # NoRun => Grouped /\ Questions(source) # {}
  /\ Grouped /\ source = NoRun => \A r \in Runs : suite[r] = NoTests

\* A group with a saved answer has been marked as started.
AnswersStartGroup == Grouped /\ ~NoAnswers => GroupStarted

Rows ==
  /\ StatusMatchesArtifacts
  /\ ArtifactsNest
  /\ SourceHasSuite
  /\ SameQuestions
  /\ AnswersStartGroup
  /\ Grouped => AnswersMatchQuestions

\* The request is at work on the answers or the evaluations of its run.
Busy(w) ==
  \/ req[w].pc \in {"execute", "share", "evaluate", "refresh", "fail"}
  \/ req[w].pc = "commit" /\ req[w].run # NoRun

\* Which fields of a request are in use at which step.
Shape(w) ==
  /\ req[w].pc = "idle" => req[w] = NoRequest
  /\ req[w].run = NoRun => req[w].pc \in {"idle", "cancel", "commit"}
  /\ req[w].run # NoRun => req[w].pc \notin {"idle", "cancel"}
  /\ req[w].answers # NoTests => Busy(w) /\ req[w].pc # "evaluate"
  /\ req[w].scores # {} => Busy(w) /\ req[w].pc \notin {"execute", "share"}
  /\ req[w].write # NoWrites => req[w].pc = "commit"
  /\ req[w].group \in Terminal \cup {"none"}

\* Answers on their way hold the lock of the suite, copied ones apart.
HoldsLocks(w) ==
  /\ req[w].pc \in SuiteSteps => suiteLock = w
  /\ req[w].answers # NoTests /\ req[w].pc # "share" => suiteLock = w
  /\ Busy(w) \/ req[w].pc \in {"retry", "start_execute", "start_evaluate"} => runLock[req[w].run] = w

\* A request works on rows that exist, unless it is to insert its own.
KnowsRows(w) ==
  /\ req[w].pc = "create" => status[req[w].run] = "absent"
  /\ req[w].run # NoRun /\ req[w].pc # "create" => status[req[w].run] # "absent"
  /\ \A p \in req[w].peers : status[p] # "absent"
  /\ \A r \in Runs : req[w].write[r] # "none" => status[r] # "absent"

\* The rows a new suite is to be written to have none.
Fresh(r) == status[r] \in {"CREATED", "CANCELLED"} /\ suite[r] = NoTests

KnowsSuite(w) ==
  /\ req[w].pc = "clone" => source # NoRun /\ Fresh(req[w].run)
  /\ req[w].pc \in {"generate", "save_suite"} => source = NoRun
  /\ req[w].pc = "save_suite" => \A r \in req[w].peers \cup {req[w].run} : Fresh(r)
  /\ req[w].pc = "save_edit" /\ Grouped => NoAnswers
  /\ req[w].pc \in {"continue", "save_continue"} =>
       /\ NoAnswers
       /\ Grouped => source # NoRun
       /\ \A p \in req[w].peers : status[p] # "CREATED"
       /\ \A r \in Runs \ req[w].peers : suite[r] = NoTests

\* What a request at work knows of its run: nobody but a cancellation has moved
\* it, and what it is to add is not there yet.
KnowsRun(w) ==
  /\ Busy(w) =>
       /\ status[req[w].run] \in {"TESTS_GENERATED", "TESTS_EXECUTED", "CANCELLED"}
       /\ Questions(req[w].run) # {}
  /\ req[w].pc = "execute" => status[req[w].run] # "TESTS_EXECUTED"
  /\ req[w].pc = "share" =>
       /\ \A t \in Questions(req[w].run) : req[w].answers[t] # 0
       /\ ~NoAnswers
  /\ req[w].pc = "evaluate" \/ req[w].scores # {} => status[req[w].run] # "TESTS_GENERATED"
  /\ \A t \in Tests : req[w].answers[t] # 0 =>
       /\ answers[req[w].run][t] = 0
       /\ suite[req[w].run][t] # 0
       /\ Grouped => req[w].answers[t] = suite[req[w].run][t]
  /\ \A t \in req[w].scores : answers[req[w].run][t] # 0
  /\ Grouped /\ (req[w].pc = "execute" \/ req[w].answers # NoTests) => GroupStarted

\* A run that is to be failed has something left to evaluate.
KnowsWork(w) ==
  /\ req[w].pc = "execute" => Unscored(w) # {}
  /\ req[w].pc = "refresh" => Unscored(w) # {} \/ status[req[w].run] = "CANCELLED"
  /\ req[w].pc = "fail" => Unscored(w) # {} \/ req[w].seen = "CANCELLED"

\* What the flushed statuses of a request say.
KnowsWrites(w) ==
  \A r \in Runs :
    /\ req[w].write[r] \in {"none", "TESTS_EXECUTED", "COMPLETED", "FAILED", "CANCELLED"}
    /\ req[w].write[r] = "CANCELLED" <=> req[w].write[r] # "none" /\ req[w].run = NoRun
    /\ req[w].write[r] \in {"TESTS_EXECUTED", "COMPLETED", "FAILED"} => r = req[w].run
    /\ req[w].write[r] \in {"TESTS_EXECUTED", "COMPLETED"} => status[r] = Before(req[w].write[r])
    /\ req[w].write[r] = "TESTS_EXECUTED" => \A t \in Questions(r) : ~Unasked(w, t)
    /\ req[w].write[r] = "COMPLETED" => Unscored(w) = {}
    /\ req[w].write[r] = "FAILED" => Unscored(w) # {}

Knows(w) ==
  /\ Shape(w) /\ HoldsLocks(w) /\ KnowsRows(w)
  /\ KnowsSuite(w) /\ KnowsRun(w) /\ KnowsWork(w) /\ KnowsWrites(w)

\* No two requests write one row or insert one run.
Apart ==
  \A v, w \in Workers : v # w =>
    /\ \A r \in Runs : req[v].write[r] = "none" \/ req[w].write[r] = "none"
    /\ ~(At(v, "create") /\ At(w, "create") /\ req[v].run = req[w].run)

LifecycleInv ==
  /\ TypeOK
  /\ Rows
  /\ \A w \in Workers : Knows(w)
  /\ Apart

----------------------------------------------------------------------------
(* Steps that leave the database alone. *)

\* No one is the absent value: the identifiers of requests and runs are real.
LEMMA Absent == (\A w \in Workers : w # NoWorker) /\ (\A r \in Runs : r # NoRun)
  BY RunsAssumption, WorkersAssumption

\* The empty record of a request is one.
LEMMA NoRequestType == NoRequest \in Request /\ NoTests \in [Tests -> 0..MaxEdition]
  BY EditionAssumption DEF NoRequest, Request, NoTests, NoWrites, Steps, Status, GroupStatus, Terminal

\* What the committed rows say does not depend on requests and locks.
LEMMA RowsUnread ==
  ASSUME Rows, status' = status, group' = group, source' = source,
         suite' = suite, answers' = answers, scores' = scores
  PROVE  Rows'
  BY DEF Rows, StatusMatchesArtifacts, ArtifactsNest, SourceHasSuite, SameQuestions, AnswersStartGroup,
         AnswersMatchQuestions, HasUnscored, Questions, Answered, NoAnswers, GroupStarted

\* A request knows what it knew while its record, its locks and the rows stay.
LEMMA StillKnows ==
  ASSUME NEW v \in Workers, Knows(v), req'[v] = req[v],
         status' = status, group' = group, source' = source,
         suite' = suite, answers' = answers, scores' = scores,
         suiteLock = v => suiteLock' = v,
         \A r \in Runs : runLock[r] = v => runLock'[r] = v,
         req[v] \in Request
  PROVE  Knows(v)'
<1>1. Shape(v)' BY DEF Knows, Shape, Busy
<1>2. HoldsLocks(v)' BY Absent DEF Knows, HoldsLocks, Shape, Busy, Request, SuiteSteps
<1>3. KnowsRows(v)' BY DEF Knows, KnowsRows
<1>4. KnowsSuite(v)' BY DEF Knows, KnowsSuite, NoAnswers, Fresh
<1>5. KnowsRun(v)' BY DEF Knows, KnowsRun, Busy, Questions, NoAnswers, GroupStarted
<1>6. KnowsWork(v)' BY DEF Knows, KnowsWork, Unscored, Questions
<1>7. KnowsWrites(v)' BY DEF Knows, KnowsWrites, Unscored, Questions, Unasked
<1> QED BY <1>1, <1>2, <1>3, <1>4, <1>5, <1>6, <1>7 DEF Knows

\* A step of one request that leaves the rows alone, and the locks of others.
LEMMA QuietStep ==
  ASSUME LifecycleInv, NEW w \in Workers, NEW q \in Request,
         req' = [req EXCEPT ![w] = q],
         status' = status, group' = group, source' = source,
         suite' = suite, answers' = answers, scores' = scores,
         suiteLock' \in Workers \cup {NoWorker}, runLock' \in [Runs -> Workers \cup {NoWorker}],
         \A v \in Workers \ {w} : suiteLock = v => suiteLock' = v,
         \A v \in Workers \ {w}, r \in Runs : runLock[r] = v => runLock'[r] = v,
         Knows(w)',
         \A v \in Workers \ {w}, r \in Runs : q.write[r] = "none" \/ req[v].write[r] = "none",
         \A v \in Workers \ {w} : ~(q.pc = "create" /\ req[v].pc = "create" /\ q.run = req[v].run)
  PROVE  LifecycleInv'
<1>1. TypeOK /\ Rows /\ (\A v \in Workers : Knows(v)) /\ Apart BY DEF LifecycleInv
<1>2. TypeOK' BY <1>1 DEF TypeOK
<1>3. Rows' BY <1>1, RowsUnread
<1>4. req'[w] = q /\ (\A v \in Workers \ {w} : req'[v] = req[v]) BY <1>1 DEF TypeOK
<1>5. \A v \in Workers \ {w} : req[v] \in Request BY <1>1 DEF TypeOK
<1>6. \A v \in Workers \ {w} : Knows(v)'
  <2> SUFFICES ASSUME NEW v \in Workers \ {w} PROVE Knows(v)' OBVIOUS
  <2> QED BY <1>1, <1>4, <1>5, StillKnows
<1>7. Apart' BY <1>1, <1>4 DEF Apart, At
<1> QED BY <1>2, <1>3, <1>6, <1>7 DEF LifecycleInv

\* The request has ended: nothing is known, and its locks are free.
LEMMA Responded ==
  ASSUME TypeOK, NEW w \in Workers, Respond(w)
  PROVE  /\ req' = [req EXCEPT ![w] = NoRequest] /\ req'[w] = NoRequest
         /\ \A v \in Workers \ {w} : req'[v] = req[v]
         /\ req' \in [Workers -> Request]
         /\ suiteLock' \in Workers \cup {NoWorker} /\ runLock' \in [Runs -> Workers \cup {NoWorker}]
         /\ \A v \in Workers \ {w} : suiteLock = v => suiteLock' = v
         /\ \A v \in Workers \ {w}, r \in Runs : runLock[r] = v => runLock'[r] = v
         /\ Knows(w)'
<1>1. req' = [req EXCEPT ![w] = NoRequest] /\ req'[w] = NoRequest
      /\ (\A v \in Workers \ {w} : req'[v] = req[v]) /\ req' \in [Workers -> Request]
  BY NoRequestType DEF Respond, TypeOK
<1>2. /\ suiteLock' \in Workers \cup {NoWorker} /\ runLock' \in [Runs -> Workers \cup {NoWorker}]
      /\ \A v \in Workers \ {w} : suiteLock = v => suiteLock' = v
      /\ \A v \in Workers \ {w}, r \in Runs : runLock[r] = v => runLock'[r] = v
  BY DEF Respond, Unlock, TypeOK
<1>3. /\ NoRequest.pc = "idle" /\ NoRequest.run = NoRun /\ NoRequest.peers = {} /\ NoRequest.answers = NoTests
      /\ NoRequest.scores = {} /\ NoRequest.write = NoWrites /\ NoRequest.group = "none"
      /\ (\A t \in Tests : NoTests[t] = 0) /\ (\A r \in Runs : NoWrites[r] = "none")
  BY DEF NoRequest, NoTests, NoWrites
<1>4. Shape(w)' BY <1>1, <1>3 DEF Shape
<1>5. HoldsLocks(w)' BY <1>1, <1>3 DEF HoldsLocks, SuiteSteps, Busy
<1>6. KnowsRows(w)' BY <1>1, <1>3 DEF KnowsRows
<1>7. KnowsSuite(w)' BY <1>1, <1>3 DEF KnowsSuite
<1>8. KnowsRun(w)' BY <1>1, <1>3 DEF KnowsRun, Busy
<1>9. KnowsWork(w)' /\ KnowsWrites(w)' BY <1>1, <1>3 DEF KnowsWork, KnowsWrites
<1> QED BY <1>1, <1>2, <1>4, <1>5, <1>6, <1>7, <1>8, <1>9 DEF Knows

\* A response that rolls back keeps everything.
LEMMA RollBack ==
  ASSUME LifecycleInv, NEW w \in Workers, Respond(w), UNCHANGED database
  PROVE  LifecycleInv'
<1>1. TypeOK BY DEF LifecycleInv
<1>2. NoRequest.pc = "idle" /\ \A r \in Runs : NoRequest.write[r] = "none" BY DEF NoRequest, NoWrites
<1> QED BY <1>1, <1>2, Responded, QuietStep, NoRequestType DEF database, artifacts

\* Nothing flushed and nothing obtained.
Plain(q) ==
  /\ q.answers = NoTests /\ q.scores = {} /\ q.write = NoWrites /\ q.group \in Terminal \cup {"none"}
  /\ \A r \in Runs : q.write[r] = "none"
  /\ \A t \in Tests : q.answers[t] = 0

\* What a request knows that has flushed nothing and is not at work on its run.
LEMMA PlainKnows ==
  ASSUME NEW w \in Workers, NEW q \in Request, req'[w] = q, Plain(q),
         q.pc \notin {"idle", "execute", "share", "evaluate", "refresh", "fail", "commit"},
         q.run = NoRun <=> q.pc = "cancel",
         q.pc \in SuiteSteps => suiteLock' = w,
         q.pc \in {"retry", "start_execute", "start_evaluate"} => runLock'[q.run] = w,
         KnowsRows(w)', KnowsSuite(w)'
  PROVE  Knows(w)'
<1>1. ~Busy(w)' BY DEF Busy
<1>3. Shape(w)' /\ HoldsLocks(w)' BY <1>1 DEF Shape, HoldsLocks, Plain
<1>4. KnowsRun(w)' /\ KnowsWork(w)' /\ KnowsWrites(w)' BY <1>1 DEF KnowsRun, KnowsWork, KnowsWrites, Plain
<1> QED BY <1>3, <1>4 DEF Knows

\* A request accepted without a lock or with locks that were free.
LEMMA AcceptedStep ==
  ASSUME LifecycleInv, NEW w \in Workers, NEW q \in Request, Plain(q),
         req' = [req EXCEPT ![w] = q],
         status' = status, group' = group, source' = source,
         suite' = suite, answers' = answers, scores' = scores,
         suiteLock' = suiteLock \/ (suiteLock = NoWorker /\ suiteLock' = w),
         runLock' = runLock \/ (q.run \in Runs /\ runLock[q.run] = NoWorker /\ runLock' = [runLock EXCEPT ![q.run] = w]),
         q.pc \in {"create", "start_generate", "edit", "continue", "start_execute", "start_evaluate",
                   "retry", "cancel"},
         q.run = NoRun <=> q.pc = "cancel",
         q.pc \in SuiteSteps => suiteLock' = w,
         q.pc \in {"retry", "start_execute", "start_evaluate"} => runLock'[q.run] = w,
         q.pc = "create" => /\ status[q.run] = "absent"
                            /\ \A v \in Workers : ~(At(v, "create") /\ req[v].run = q.run),
         q.pc # "create" /\ q.run # NoRun => status[q.run] # "absent",
         \A p \in q.peers : status[p] # "absent",
         q.pc = "continue" => /\ NoAnswers /\ (Grouped => source # NoRun)
                              /\ \A p \in q.peers : status[p] # "CREATED"
                              /\ \A p \in Runs \ q.peers : suite[p] = NoTests
  PROVE  LifecycleInv'
<1>2. req'[w] = q BY DEF LifecycleInv, TypeOK
<1>3. suiteLock' \in Workers \cup {NoWorker} /\ \A v \in Workers \ {w} : suiteLock = v => suiteLock' = v
  <2>1. suiteLock \in Workers \cup {NoWorker} BY DEF LifecycleInv, TypeOK
  <2> QED BY <2>1, Absent
<1>4. runLock' \in [Runs -> Workers \cup {NoWorker}]
      /\ \A v \in Workers \ {w}, p \in Runs : runLock[p] = v => runLock'[p] = v
  <2>1. runLock \in [Runs -> Workers \cup {NoWorker}] BY DEF LifecycleInv, TypeOK
  <2>2. CASE runLock' = runLock BY <2>1, <2>2
  <2>3. CASE q.run \in Runs /\ runLock[q.run] = NoWorker /\ runLock' = [runLock EXCEPT ![q.run] = w]
    BY <2>1, <2>3, Absent
  <2> QED BY <2>2, <2>3
<1>5. KnowsRows(w)' BY <1>2 DEF KnowsRows, Plain
<1>6. NoAnswers' <=> NoAnswers BY DEF NoAnswers
<1>7. KnowsSuite(w)' BY <1>2, <1>6 DEF KnowsSuite
<1>8. Knows(w)' BY <1>2, <1>5, <1>7, PlainKnows
<1>9. \A v \in Workers \ {w} : ~(q.pc = "create" /\ req[v].pc = "create" /\ q.run = req[v].run)
  BY DEF At
<1>10. \A v \in Workers \ {w}, r \in Runs : q.write[r] = "none" \/ req[v].write[r] = "none"
  BY DEF Plain
<1> QED BY <1>3, <1>4, <1>8, <1>9, <1>10, QuietStep

\* A run that does not exist has no suite and no answer; a suite without an
\* answer goes with no evaluation.
LEMMA NoSuiteNoAnswers ==
  ASSUME TypeOK, Rows, NEW r \in Runs, suite[r] = NoTests
  PROVE  answers[r] = NoTests /\ scores[r] = {} /\ Questions(r) = {}
<1>1. \A t \in Tests : suite[r][t] = 0 BY DEF NoTests
<1>2. \A t \in Tests : answers[r][t] = 0 BY <1>1 DEF Rows, ArtifactsNest
<1>3. answers[r] \in [Tests -> 0..MaxEdition] BY DEF TypeOK
<1>4. answers[r] = NoTests BY <1>2, <1>3 DEF NoTests
<1>5. scores[r] = {} BY <1>2 DEF Rows, ArtifactsNest, TypeOK
<1> QED BY <1>1, <1>4, <1>5 DEF Questions

\* Conversely, a run without questions has an empty suite.
LEMMA NoQuestions ==
  ASSUME TypeOK, NEW r \in Runs, Questions(r) = {}
  PROVE  suite[r] = NoTests
  BY DEF TypeOK, Questions, NoTests

\* create_audit finds no row, generate-tests a CREATED one, and so on: a request
\* accepted starts with what its handler has checked.
LEMMA CreateAuditStep ==
  ASSUME LifecycleInv, NEW w \in Workers, NEW r \in Runs, CreateAudit(w, r) PROVE LifecycleInv'
<1> DEFINE q == [NoRequest EXCEPT !.pc = "create", !.run = r]
<1>1. q \in Request /\ Plain(q) /\ q.pc = "create" /\ q.run = r /\ q.peers = {}
  <2>1. "create" \in Steps /\ r \in Runs \cup {NoRun} /\ {} \in SUBSET Runs /\ "none" \in Status \cup {"none"}
    BY DEF Steps, CreateAudit, Members, Status, Terminal
  <2> QED BY <2>1, NoRequestType DEF NoRequest, Request, NoWrites, NoTests, Plain
<1>2. req' = [req EXCEPT ![w] = q] BY DEF CreateAudit, Accept
<1> HIDE DEF q
<1> QED BY <1>1, <1>2, AcceptedStep, Absent
       DEF CreateAudit, Accept, LockSuite, LockRun, database, artifacts, locks, SuiteSteps

\* generate-tests
LEMMA GenerateStep ==
  ASSUME LifecycleInv, NEW w \in Workers, NEW r \in Runs, Generate(w, r) PROVE LifecycleInv'
<1> DEFINE q == [NoRequest EXCEPT !.pc = "start_generate", !.run = r]
<1>1. q \in Request /\ Plain(q) /\ q.pc = "start_generate" /\ q.run = r /\ q.peers = {}
  <2>1. "start_generate" \in Steps /\ r \in Runs \cup {NoRun} /\ {} \in SUBSET Runs /\ "none" \in Status \cup {"none"}
    BY DEF Steps, Generate, Members, Status, Terminal
  <2> QED BY <2>1, NoRequestType DEF NoRequest, Request, NoWrites, NoTests, Plain
<1>2. req' = [req EXCEPT ![w] = q] BY DEF Generate, Accept
<1> HIDE DEF q
<1> QED BY <1>1, <1>2, AcceptedStep, Absent
       DEF Generate, Accept, LockSuite, LockRun, database, artifacts, locks, SuiteSteps

\* review and regeneration of a question
LEMMA EditStep ==
  ASSUME LifecycleInv, NEW w \in Workers, NEW r \in Runs, Edit(w, r) PROVE LifecycleInv'
<1> DEFINE q == [NoRequest EXCEPT !.pc = "edit", !.run = r]
<1>1. q \in Request /\ Plain(q) /\ q.pc = "edit" /\ q.run = r /\ q.peers = {}
  <2>1. "edit" \in Steps /\ r \in Runs \cup {NoRun} /\ {} \in SUBSET Runs /\ "none" \in Status \cup {"none"}
    BY DEF Steps, Edit, Members, Status, Terminal
  <2> QED BY <2>1, NoRequestType DEF NoRequest, Request, NoWrites, NoTests, Plain
<1>2. req' = [req EXCEPT ![w] = q] BY DEF Edit, Accept
<1> HIDE DEF q
<1> QED BY <1>1, <1>2, AcceptedStep, Absent
       DEF Edit, Accept, LockSuite, LockRun, database, artifacts, locks, SuiteSteps, Editable

\* execute
LEMMA ExecuteStep ==
  ASSUME LifecycleInv, NEW w \in Workers, NEW r \in Runs, Execute(w, r) PROVE LifecycleInv'
<1> DEFINE q == [NoRequest EXCEPT !.pc = "start_execute", !.run = r]
<1>1. q \in Request /\ Plain(q) /\ q.pc = "start_execute" /\ q.run = r /\ q.peers = {}
  <2>1. "start_execute" \in Steps /\ r \in Runs \cup {NoRun} /\ {} \in SUBSET Runs /\ "none" \in Status \cup {"none"}
    BY DEF Steps, Execute, Members, Status, Terminal
  <2> QED BY <2>1, NoRequestType DEF NoRequest, Request, NoWrites, NoTests, Plain
<1>2. req' = [req EXCEPT ![w] = q] BY DEF Execute, Accept
<1> HIDE DEF q
<1>3. runLock'[r] = w BY DEF Execute, LockRun, LifecycleInv, TypeOK
<1> QED BY <1>1, <1>2, <1>3, AcceptedStep, Absent
       DEF Execute, Accept, LockSuite, LockRun, database, artifacts, locks, SuiteSteps

\* evaluate
LEMMA EvaluateStep ==
  ASSUME LifecycleInv, NEW w \in Workers, NEW r \in Runs, Evaluate(w, r) PROVE LifecycleInv'
<1> DEFINE q == [NoRequest EXCEPT !.pc = "start_evaluate", !.run = r]
<1>1. q \in Request /\ Plain(q) /\ q.pc = "start_evaluate" /\ q.run = r /\ q.peers = {}
  <2>1. "start_evaluate" \in Steps /\ r \in Runs \cup {NoRun} /\ {} \in SUBSET Runs /\ "none" \in Status \cup {"none"}
    BY DEF Steps, Evaluate, Members, Status, Terminal
  <2> QED BY <2>1, NoRequestType DEF NoRequest, Request, NoWrites, NoTests, Plain
<1>2. req' = [req EXCEPT ![w] = q] BY DEF Evaluate, Accept
<1> HIDE DEF q
<1>3. runLock'[r] = w BY DEF Evaluate, LockRun, LifecycleInv, TypeOK
<1> QED BY <1>1, <1>2, <1>3, AcceptedStep, Absent
       DEF Evaluate, Accept, LockSuite, LockRun, database, artifacts, locks, SuiteSteps

\* retry
LEMMA RetryAccepted ==
  ASSUME LifecycleInv, NEW w \in Workers, NEW r \in Runs, Retry(w, r) PROVE LifecycleInv'
<1> DEFINE q == [NoRequest EXCEPT !.pc = "retry", !.run = r, !.seen = status[r]]
<1>1. q \in Request /\ Plain(q) /\ q.pc = "retry" /\ q.run = r /\ q.peers = {}
  <2>1. "retry" \in Steps /\ r \in Runs \cup {NoRun} /\ {} \in SUBSET Runs /\ status[r] \in Status \cup {"none"}
    BY DEF Steps, Retry, Members, Status, Terminal
  <2> QED BY <2>1, NoRequestType DEF NoRequest, Request, NoWrites, NoTests, Plain
<1>2. req' = [req EXCEPT ![w] = q] BY DEF Retry, Accept
<1> HIDE DEF q
<1>3. runLock'[r] = w BY DEF Retry, LockRun, LifecycleInv, TypeOK
<1>4. status[r] # "absent" BY DEF Retry, Status, Terminal
<1> QED BY <1>1, <1>2, <1>3, <1>4, AcceptedStep, Absent
       DEF Retry, Accept, LockSuite, LockRun, database, artifacts, locks, SuiteSteps

\* cancel_audit
LEMMA CancelStep ==
  ASSUME LifecycleInv, NEW w \in Workers, NEW r \in Runs, Cancel(w, r) PROVE LifecycleInv'
<1> DEFINE q == [NoRequest EXCEPT !.pc = "cancel", !.peers = {r}]
<1>1. q \in Request /\ Plain(q) /\ q.pc = "cancel" /\ q.run = NoRun /\ q.peers = {r}
  <2>1. "cancel" \in Steps /\ NoRun \in Runs \cup {NoRun} /\ {r} \in SUBSET Runs /\ "none" \in Status \cup {"none"}
    BY DEF Steps, Cancel, Members, Status, Terminal
  <2> QED BY <2>1, NoRequestType DEF NoRequest, Request, NoWrites, NoTests, Plain
<1>2. req' = [req EXCEPT ![w] = q] BY DEF Cancel, Accept
<1> HIDE DEF q
<1> QED BY <1>1, <1>2, AcceptedStep, Absent
       DEF Cancel, Accept, LockSuite, LockRun, database, artifacts, locks, SuiteSteps, Members

\* continue-generation: no condition has an answer, and those without a row
\* have no suite.
LEMMA ContinueStep ==
  ASSUME LifecycleInv, NEW w \in Workers, NEW r \in Runs, ContinueGeneration(w, r) PROVE LifecycleInv'
<1> DEFINE q == [NoRequest EXCEPT !.pc = "continue", !.run = r, !.peers = Members]
<1>1. q \in Request /\ Plain(q) /\ q.pc = "continue" /\ q.run = r /\ q.peers = Members
  <2>1. "continue" \in Steps /\ r \in Runs \cup {NoRun} /\ Members \in SUBSET Runs /\ "none" \in Status \cup {"none"}
    BY DEF Steps, ContinueGeneration, Members, Status, Terminal
  <2> QED BY <2>1, NoRequestType DEF NoRequest, Request, NoWrites, NoTests, Plain
<1>2. req' = [req EXCEPT ![w] = q] BY DEF ContinueGeneration, Accept
<1> HIDE DEF q
<1>3. TypeOK /\ Rows BY DEF LifecycleInv
<1>4. \A p \in Runs \ Members : suite[p] = NoTests
  BY <1>3 DEF Rows, StatusMatchesArtifacts, Members
<1>5. NoAnswers BY <1>3, <1>4, NoSuiteNoAnswers DEF ContinueGeneration, NoAnswers
<1>6. \A p \in Members : status[p] \notin {"CREATED", "absent"} BY DEF ContinueGeneration
<1>7. Grouped => source # NoRun
  <2>1. status[r] = "TESTS_GENERATED" BY DEF ContinueGeneration, Editable
  <2>2. HasUnscored(r) BY <1>3, <2>1 DEF Rows, StatusMatchesArtifacts
  <2> QED BY <1>3, <2>2 DEF Rows, SourceHasSuite, HasUnscored, Questions, NoTests
<1> QED BY <1>1, <1>2, <1>4, <1>5, <1>6, <1>7, AcceptedStep, Absent
       DEF ContinueGeneration, Accept, LockSuite, LockRun, database, artifacts, locks, SuiteSteps, Editable

\* A step of an accepted request that touches neither rows nor locks.
LEMMA OwnStep ==
  ASSUME LifecycleInv, NEW w \in Workers, NEW q \in Request,
         req' = [req EXCEPT ![w] = q], UNCHANGED <<database, locks>>, q.pc # "create",
         \A v \in Workers \ {w}, r \in Runs : q.write[r] = "none" \/ req[v].write[r] = "none",
         Knows(w)'
  PROVE  LifecycleInv'
<1>1. TypeOK BY DEF LifecycleInv
<1>2. suiteLock' \in Workers \cup {NoWorker} /\ runLock' \in [Runs -> Workers \cup {NoWorker}]
  BY <1>1 DEF TypeOK, locks
<1> QED BY <1>2, QuietStep DEF database, artifacts, locks

\* What a request in one of its quiet steps has: nothing flushed or obtained.
LEMMA IsPlain ==
  ASSUME LifecycleInv, NEW w \in Workers, ~Busy(w), req[w].pc # "commit"
  PROVE  Plain(req[w]) /\ req[w] \in Request /\ Knows(w)
<1>1. Knows(w) /\ req[w] \in Request BY DEF LifecycleInv, TypeOK
<1>2. req[w].answers = NoTests /\ req[w].scores = {} /\ req[w].write = NoWrites
      /\ req[w].group \in Terminal \cup {"none"}
  BY <1>1 DEF Knows, Shape
<1>3. (\A t \in Tests : NoTests[t] = 0) /\ \A r \in Runs : NoWrites[r] = "none" BY DEF NoTests, NoWrites
<1> QED BY <1>1, <1>2, <1>3 DEF Plain

\* From one quiet step to the next.
LEMMA PlainStep ==
  ASSUME LifecycleInv, NEW w \in Workers, req[w].run # NoRun, req[w].pc # "create",
         NEW q \in Request, Plain(q), q.run = req[w].run, req' = [req EXCEPT ![w] = q],
         UNCHANGED <<database, locks>>,
         q.pc \in {"generate", "save_suite", "clone", "save_edit", "save_continue"},
         suiteLock = w,
         \A p \in q.peers : status[p] # "absent",
         KnowsSuite(w)'
  PROVE  LifecycleInv'
<1>1. Knows(w) /\ req'[w] = q BY DEF LifecycleInv, TypeOK
<1>2. status[q.run] # "absent" BY <1>1 DEF Knows, KnowsRows
<1>3. KnowsRows(w)' BY <1>1, <1>2 DEF KnowsRows, Plain, database
<1>4. suiteLock' = suiteLock /\ runLock' = runLock BY DEF locks
<1>5. Knows(w)' BY <1>1, <1>3, <1>4, PlainKnows
<1>6. \A v \in Workers \ {w}, r \in Runs : q.write[r] = "none" BY DEF Plain
<1> QED BY <1>5, <1>6, OwnStep

\* A request that waits for a generator or an evaluator holds the suite lock,
\* has nothing of its own and works on a run that exists.
LEMMA WaitsUnderLock ==
  ASSUME LifecycleInv, NEW w \in Workers,
         req[w].pc \in {"start_generate", "generate", "edit", "continue"}
  PROVE  /\ TypeOK /\ Rows /\ Knows(w) /\ req[w] \in Request /\ Plain(req[w])
         /\ suiteLock = w /\ req[w].run \in Runs
         /\ \A p \in req[w].peers : status[p] # "absent"
<1>1. TypeOK /\ Rows /\ Knows(w) /\ req[w] \in Request BY DEF LifecycleInv, TypeOK
<1>2. ~Busy(w) BY DEF Busy
<1>3. req[w].run \in Runs BY <1>1 DEF Knows, Shape, Request
<1> QED BY <1>1, <1>2, <1>3, IsPlain DEF Knows, HoldsLocks, SuiteSteps, KnowsRows

\* generate-tests, after the locks: a group that has a suite clones it.
LEMMA StartGenerateStep ==
  ASSUME LifecycleInv, NEW w \in Workers, StartGenerate(w) PROVE LifecycleInv'
<1> DEFINE step == IF source = NoRun THEN "generate" ELSE "clone"
           q == [req[w] EXCEPT !.pc = step]
<1>1. /\ TypeOK /\ Rows /\ Knows(w) /\ req[w] \in Request /\ Plain(req[w])
      /\ suiteLock = w /\ req[w].run \in Runs
      /\ \A p \in req[w].peers : status[p] # "absent"
  BY WaitsUnderLock DEF StartGenerate, At
<1>2. req' = [req EXCEPT ![w] = q] BY <1>1 DEF StartGenerate, Goto, TypeOK
<1>3. q \in Request /\ Plain(q) /\ q.run = req[w].run /\ q.pc = step /\ q.peers = req[w].peers
  BY <1>1 DEF Request, Plain, Steps
<1>4. suite[req[w].run] = NoTests /\ status[req[w].run] = "CREATED"
  BY <1>1 DEF StartGenerate, Rows, StatusMatchesArtifacts
<1>5. req'[w] = q BY <1>1, <1>2 DEF TypeOK
<1> HIDE DEF q
<1>6. KnowsSuite(w)' BY <1>3, <1>4, <1>5 DEF KnowsSuite, Fresh, StartGenerate, database, artifacts
<1>7. req[w].pc = "start_generate" /\ UNCHANGED <<database, locks>> BY DEF StartGenerate, At
<1> QED BY <1>1, <1>2, <1>3, <1>6, <1>7, PlainStep, Absent

\* generate-tests, when the generator has replied: the rows that are still
\* CREATED have no suite, so no condition has one.
LEMMA GeneratedStep ==
  ASSUME LifecycleInv, NEW w \in Workers, Generated(w) PROVE LifecycleInv'
<1> DEFINE peers == {p \in Runs \ {req[w].run} : status[p] = "CREATED"}
           q == [req[w] EXCEPT !.pc = "save_suite", !.peers = peers]
<1>1. /\ TypeOK /\ Rows /\ Knows(w) /\ req[w] \in Request /\ Plain(req[w])
      /\ suiteLock = w /\ req[w].run \in Runs
  BY WaitsUnderLock DEF Generated, At
<1>2. req' = [req EXCEPT ![w] = q] BY <1>1 DEF Generated, TypeOK
<1>3. q \in Request /\ Plain(q) /\ q.run = req[w].run /\ q.pc = "save_suite" /\ q.peers = peers
  BY <1>1 DEF Request, Plain, Steps
<1>4. \A r \in peers \cup {req[w].run} : r \in Runs /\ suite[r] = NoTests /\ status[r] = "CREATED"
  BY <1>1 DEF Generated, Rows, StatusMatchesArtifacts
<1>5. req'[w] = q BY <1>1, <1>2 DEF TypeOK
<1>6. source = NoRun BY <1>1 DEF Knows, KnowsSuite, Generated, At
<1> HIDE DEF q, peers
<1>7. KnowsSuite(w)' BY <1>3, <1>4, <1>5, <1>6 DEF KnowsSuite, Fresh, Generated, database, artifacts
<1>8. req[w].pc = "generate" /\ UNCHANGED <<database, locks>> BY DEF Generated, At
<1>9. \A p \in q.peers : status[p] # "absent" BY <1>3, <1>4
<1> QED BY <1>1, <1>2, <1>3, <1>7, <1>8, <1>9, PlainStep, Absent

\* An edit may begin in a group that has not been started, which has no answer.
LEMMA EditCheckedStep ==
  ASSUME LifecycleInv, NEW w \in Workers, EditChecked(w) PROVE LifecycleInv'
<1> DEFINE q == [req[w] EXCEPT !.pc = "save_edit"]
<1>1. /\ TypeOK /\ Rows /\ Knows(w) /\ req[w] \in Request /\ Plain(req[w])
      /\ suiteLock = w /\ req[w].run \in Runs
      /\ \A p \in req[w].peers : status[p] # "absent"
  BY WaitsUnderLock DEF EditChecked, At
<1>2. req' = [req EXCEPT ![w] = q] BY <1>1 DEF EditChecked, Goto, TypeOK
<1>3. q \in Request /\ Plain(q) /\ q.run = req[w].run /\ q.pc = "save_edit" /\ q.peers = req[w].peers
  BY <1>1 DEF Request, Plain, Steps
<1>4. Grouped => NoAnswers
  BY <1>1 DEF EditChecked, Editable, Rows, AnswersStartGroup, GroupStarted
<1>5. req'[w] = q BY <1>1, <1>2 DEF TypeOK
<1> HIDE DEF q
<1>6. KnowsSuite(w)' BY <1>3, <1>4, <1>5 DEF KnowsSuite, NoAnswers, EditChecked, database, artifacts
<1>7. req[w].pc = "edit" /\ UNCHANGED <<database, locks>> BY DEF EditChecked, At
<1> QED BY <1>1, <1>2, <1>3, <1>6, <1>7, PlainStep, Absent

\* The larger suite has arrived.
LEMMA ContinuedStep ==
  ASSUME LifecycleInv, NEW w \in Workers, Continued(w) PROVE LifecycleInv'
<1> DEFINE q == [req[w] EXCEPT !.pc = "save_continue"]
<1>1. /\ TypeOK /\ Rows /\ Knows(w) /\ req[w] \in Request /\ Plain(req[w])
      /\ suiteLock = w /\ req[w].run \in Runs
      /\ \A p \in req[w].peers : status[p] # "absent"
  BY WaitsUnderLock DEF Continued, At
<1>2. req' = [req EXCEPT ![w] = q] BY <1>1 DEF Continued, Goto, TypeOK
<1>3. q \in Request /\ Plain(q) /\ q.run = req[w].run /\ q.pc = "save_continue" /\ q.peers = req[w].peers
  BY <1>1 DEF Request, Plain, Steps
<1>5. req'[w] = q BY <1>1, <1>2 DEF TypeOK
<1>6. req[w].pc = "continue" /\ UNCHANGED <<database, locks>> BY DEF Continued, At
<1> HIDE DEF q
<1>7. KnowsSuite(w)' BY <1>1, <1>3, <1>5, <1>6 DEF Knows, KnowsSuite, NoAnswers, database, artifacts
<1> QED BY <1>1, <1>2, <1>3, <1>6, <1>7, PlainStep, Absent

----------------------------------------------------------------------------
(* The steps of a request at work, which still touch no row. *)

\* What a request at work knows: its run, and that it holds the lock of it.
LEMMA AtWork ==
  ASSUME LifecycleInv, NEW w \in Workers, Busy(w)
  PROVE  /\ TypeOK /\ Rows /\ Knows(w) /\ req[w] \in Request
         /\ req[w].run \in Runs /\ runLock[req[w].run] = w
<1>1. TypeOK /\ Rows /\ Knows(w) /\ req[w] \in Request BY DEF LifecycleInv, TypeOK
<1>2. req[w].run \in Runs BY <1>1 DEF Knows, Shape, Request, Busy
<1> QED BY <1>1, <1>2 DEF Knows, HoldsLocks

\* A request that stays at work on its run, with nothing flushed.
LEMMA BusyStep ==
  ASSUME LifecycleInv, NEW w \in Workers, NEW q \in Request,
         req[w].run \in Runs, req[w].pc # "create", runLock[req[w].run] = w,
         q.run = req[w].run, q.peers = req[w].peers, q.write = NoWrites, q.group \in Terminal \cup {"none"},
         req' = [req EXCEPT ![w] = q], UNCHANGED <<database, locks>>,
         q.pc \in {"execute", "share", "evaluate", "refresh", "fail"},
         q.answers # NoTests => q.pc # "evaluate",
         q.scores # {} => q.pc \notin {"execute", "share"},
         q.answers # NoTests /\ q.pc # "share" => suiteLock = w,
         q.pc = "execute" => suiteLock = w,
         KnowsRun(w)', KnowsWork(w)'
  PROVE  LifecycleInv'
<1>1. TypeOK /\ Rows /\ Knows(w) BY DEF LifecycleInv
<1>2. req'[w] = q BY <1>1 DEF TypeOK
<1>3. \A r \in Runs : q.write[r] = "none" BY DEF NoWrites
<1>4. Shape(w)' BY <1>1, <1>2, Absent DEF Shape, Busy
<1>5. HoldsLocks(w)' BY <1>1, <1>2 DEF HoldsLocks, locks, SuiteSteps, Busy
<1>6. req[w].run # NoRun BY Absent
<1>7. KnowsRows(w)' BY <1>1, <1>2, <1>3, <1>6 DEF Knows, KnowsRows, database
<1>8. KnowsSuite(w)' /\ KnowsWrites(w)' BY <1>2, <1>3 DEF KnowsSuite, KnowsWrites
<1>9. Knows(w)' BY <1>4, <1>5, <1>7, <1>8 DEF Knows
<1> QED BY <1>3, <1>9, OwnStep

\* A request that gives up its stage: a failure or a cancellation.
LEMMA GiveUp ==
  ASSUME LifecycleInv, NEW w \in Workers, req[w].pc \in {"execute", "evaluate"}, Goto(w, "refresh"),
         UNCHANGED <<database, locks>>, Unscored(w) # {} \/ status[req[w].run] = "CANCELLED"
  PROVE  LifecycleInv'
<1> DEFINE q == [req[w] EXCEPT !.pc = "refresh"]
<1>1. Busy(w) BY DEF Busy
<1>2. /\ TypeOK /\ Rows /\ Knows(w) /\ req[w] \in Request
      /\ req[w].run \in Runs /\ runLock[req[w].run] = w
  BY <1>1, AtWork
<1>3. req' = [req EXCEPT ![w] = q] BY <1>2 DEF Goto, TypeOK
<1>4. /\ q \in Request /\ q.pc = "refresh" /\ q.run = req[w].run /\ q.peers = req[w].peers
      /\ q.answers = req[w].answers /\ q.scores = req[w].scores
      /\ q.write = req[w].write /\ q.group = req[w].group
  BY <1>2 DEF Request, Steps
<1>5. req'[w] = q BY <1>2, <1>3 DEF TypeOK
<1> HIDE DEF q
<1>6. q.write = NoWrites /\ q.group \in Terminal \cup {"none"} BY <1>2, <1>4 DEF Knows, Shape
<1>7. q.answers # NoTests => suiteLock = w BY <1>2, <1>4 DEF Knows, HoldsLocks
<1>8. KnowsRun(w)'
  BY <1>1, <1>2, <1>4, <1>5 DEF Knows, KnowsRun, Busy, Questions, NoAnswers, GroupStarted, database, artifacts
<1>9. KnowsWork(w)'
  BY <1>2, <1>4, <1>5 DEF KnowsWork, Unscored, Questions, database, artifacts
<1>10. req[w].pc # "create" OBVIOUS
<1> QED BY <1>2, <1>3, <1>4, <1>6, <1>7, <1>8, <1>9, <1>10, BusyStep

\* A provider error, or a cancellation seen by the evaluator.
LEMMA ProviderFailsStep ==
  ASSUME LifecycleInv, NEW w \in Workers, ProviderFails(w) PROVE LifecycleInv'
<1>1. req[w].pc \in {"execute", "evaluate"} BY DEF ProviderFails, At
<1>2. Unscored(w) # {} BY DEF ProviderFails, At, LifecycleInv, Knows, KnowsWork
<1> QED BY <1>1, <1>2, GiveUp DEF ProviderFails

\* Scoring that stops gives its work up like a provider that fails.
LEMMA StopScoringStep ==
  ASSUME LifecycleInv, NEW w \in Workers, StopScoring(w) PROVE LifecycleInv'
  BY GiveUp DEF StopScoring, At

\* The failure handler reads the status before it writes.
LEMMA RefreshStep ==
  ASSUME LifecycleInv, NEW w \in Workers, Refresh(w) PROVE LifecycleInv'
<1> DEFINE q == [req[w] EXCEPT !.pc = "fail", !.seen = status[req[w].run]]
<1>1. Busy(w) /\ req[w].pc = "refresh" BY DEF Busy, Refresh, At
<1>2. /\ TypeOK /\ Rows /\ Knows(w) /\ req[w] \in Request
      /\ req[w].run \in Runs /\ runLock[req[w].run] = w
  BY <1>1, AtWork
<1>3. req' = [req EXCEPT ![w] = q] BY <1>2 DEF Refresh, TypeOK
<1>4. status[req[w].run] \in Status BY <1>1, <1>2 DEF Knows, KnowsRun, Status, Terminal
<1>5. /\ q \in Request /\ q.pc = "fail" /\ q.run = req[w].run /\ q.peers = req[w].peers
      /\ q.answers = req[w].answers /\ q.scores = req[w].scores /\ q.seen = status[req[w].run]
      /\ q.write = req[w].write /\ q.group = req[w].group
  BY <1>2, <1>4 DEF Request, Steps
<1>6. req'[w] = q /\ UNCHANGED <<database, locks>> BY <1>2, <1>3 DEF TypeOK, Refresh
<1> HIDE DEF q
<1>7. q.write = NoWrites /\ q.group \in Terminal \cup {"none"} BY <1>1, <1>2, <1>5 DEF Knows, Shape
<1>8. q.answers # NoTests => suiteLock = w BY <1>1, <1>2, <1>5 DEF Knows, HoldsLocks
<1>9. KnowsRun(w)'
  BY <1>1, <1>2, <1>5, <1>6 DEF Knows, KnowsRun, Busy, Questions, NoAnswers, GroupStarted, database, artifacts
<1>10. KnowsWork(w)'
  BY <1>1, <1>2, <1>5, <1>6 DEF Knows, KnowsWork, Unscored, Questions, database, artifacts
<1>11. req[w].pc # "create" BY <1>1
<1> QED BY <1>2, <1>3, <1>5, <1>6, <1>7, <1>8, <1>9, <1>10, <1>11, BusyStep

\* One question is put to the target: no response to it is there, nor under way.
LEMMA AskStep ==
  ASSUME LifecycleInv, NEW w \in Workers, NEW t \in Tests, Ask(w, t) PROVE LifecycleInv'
<1> DEFINE q == [req[w] EXCEPT !.answers[t] = suite[req[w].run][t]]
<1>1. Busy(w) /\ req[w].pc = "execute" BY DEF Busy, Ask, At
<1>2. /\ TypeOK /\ Rows /\ Knows(w) /\ req[w] \in Request
      /\ req[w].run \in Runs /\ runLock[req[w].run] = w
  BY <1>1, AtWork
<1>3. req' = [req EXCEPT ![w] = q] BY <1>2 DEF Ask, TypeOK
<1>4. suite[req[w].run][t] \in 0..MaxEdition /\ suite[req[w].run][t] # 0
  BY <1>2 DEF Ask, Questions, TypeOK
<1>5. /\ q.pc = "execute" /\ q.run = req[w].run /\ q.peers = req[w].peers
      /\ q.answers = [req[w].answers EXCEPT ![t] = suite[req[w].run][t]] /\ q.scores = req[w].scores
      /\ q.write = req[w].write /\ q.group = req[w].group
  BY <1>1, <1>2 DEF Request
<1>6. q \in Request BY <1>2, <1>4 DEF Request
<1>7. req'[w] = q /\ UNCHANGED <<database, locks>> BY <1>2, <1>3 DEF TypeOK, Ask
<1> HIDE DEF q
<1>8. q.write = NoWrites /\ q.scores = {} /\ q.group \in Terminal \cup {"none"} BY <1>1, <1>2, <1>5 DEF Knows, Shape
<1>9. suiteLock = w BY <1>1, <1>2 DEF Knows, HoldsLocks, SuiteSteps
<1>10. answers[req[w].run][t] = 0 BY DEF Ask, Unasked
<1>11. req[w].answers \in [Tests -> 0..MaxEdition] BY <1>2 DEF Request
<1>12. \A s \in Tests : q.answers[s] = IF s = t THEN suite[req[w].run][t] ELSE req[w].answers[s]
  BY <1>5, <1>11
<1>13. Grouped => GroupStarted BY <1>1, <1>2 DEF Knows, KnowsRun
<1>14. KnowsRun(w)'
  <2>1. \A s \in Tests : q.answers[s] # 0 =>
          /\ answers[req[w].run][s] = 0 /\ suite[req[w].run][s] # 0
          /\ Grouped => q.answers[s] = suite[req[w].run][s]
    BY <1>2, <1>4, <1>10, <1>12 DEF Knows, KnowsRun
  <2>2. KnowsRun(w) BY <1>2 DEF Knows
  <2>3. /\ status[req[w].run] \in {"TESTS_GENERATED", "TESTS_EXECUTED", "CANCELLED"}
        /\ Questions(req[w].run) # {} /\ status[req[w].run] # "TESTS_EXECUTED"
    BY <1>1, <2>2 DEF KnowsRun
  <2>4. /\ status' = status /\ suite' = suite /\ answers' = answers /\ group' = group
        /\ req'[w].run = req[w].run /\ req'[w].pc = "execute" /\ req'[w].scores = {}
        /\ req'[w].answers = q.answers
    BY <1>5, <1>7, <1>8 DEF database, artifacts
  <2> QED BY <1>13, <2>1, <2>3, <2>4 DEF KnowsRun, Questions, GroupStarted
<1>15. KnowsWork(w)'
  BY <1>1, <1>2, <1>5, <1>7 DEF Knows, KnowsWork, Unscored, Questions, database, artifacts
<1>16. req[w].pc # "create" BY <1>1
<1> QED BY <1>2, <1>3, <1>5, <1>6, <1>7, <1>8, <1>9, <1>14, <1>15, <1>16, BusyStep

\* One question is evaluated.
LEMMA ScoreStep ==
  ASSUME LifecycleInv, NEW w \in Workers, NEW t \in Tests, Score(w, t) PROVE LifecycleInv'
<1> DEFINE q == [req[w] EXCEPT !.scores = @ \cup {t}]
<1>1. Busy(w) /\ req[w].pc = "evaluate" BY DEF Busy, Score, At
<1>2. /\ TypeOK /\ Rows /\ Knows(w) /\ req[w] \in Request
      /\ req[w].run \in Runs /\ runLock[req[w].run] = w
  BY <1>1, AtWork
<1>3. req' = [req EXCEPT ![w] = q] BY <1>2 DEF Score, TypeOK
<1>4. /\ q \in Request /\ q.pc = "evaluate" /\ q.run = req[w].run /\ q.peers = req[w].peers
      /\ q.answers = req[w].answers /\ q.scores = req[w].scores \cup {t}
      /\ q.write = req[w].write /\ q.group = req[w].group
  BY <1>1, <1>2 DEF Request
<1>5. req'[w] = q /\ UNCHANGED <<database, locks>> BY <1>2, <1>3 DEF TypeOK, Score
<1> HIDE DEF q
<1>6. q.write = NoWrites /\ q.answers = NoTests /\ q.group \in Terminal \cup {"none"}
  BY <1>1, <1>2, <1>4 DEF Knows, Shape
<1>7. answers[req[w].run][t] # 0 BY DEF Score
<1>8. KnowsRun(w)'
  BY <1>1, <1>2, <1>4, <1>5, <1>6, <1>7 DEF Knows, KnowsRun, Busy, Questions, GroupStarted, database, artifacts
<1>9. KnowsWork(w)' BY <1>4, <1>5 DEF KnowsWork
<1>10. req[w].pc # "create" BY <1>1
<1> QED BY <1>2, <1>3, <1>4, <1>5, <1>6, <1>8, <1>9, <1>10, BusyStep

\* evaluate, after the lock.
LEMMA StartEvaluateStep ==
  ASSUME LifecycleInv, NEW w \in Workers, StartEvaluate(w) PROVE LifecycleInv'
<1> DEFINE q == [req[w] EXCEPT !.pc = "evaluate"]
<1>1. TypeOK /\ Rows /\ Knows(w) /\ req[w] \in Request /\ req[w].pc = "start_evaluate"
  BY DEF LifecycleInv, TypeOK, StartEvaluate, At
<1>2. Plain(req[w]) BY <1>1, IsPlain DEF Busy
<1>3. req[w].run \in Runs /\ runLock[req[w].run] = w BY <1>1 DEF Knows, Shape, HoldsLocks, Request
<1>4. req' = [req EXCEPT ![w] = q] /\ req'[w] = q /\ UNCHANGED <<database, locks>>
  BY <1>1 DEF StartEvaluate, Goto, TypeOK
<1>5. /\ q \in Request /\ Plain(q) /\ q.pc = "evaluate" /\ q.run = req[w].run /\ q.peers = req[w].peers
  BY <1>1, <1>2 DEF Request, Plain, Steps
<1> HIDE DEF q
<1>6. status[req[w].run] = "TESTS_EXECUTED" BY DEF StartEvaluate
<1>7. Questions(req[w].run) # {} BY <1>1, <1>3, <1>6 DEF Rows, StatusMatchesArtifacts
<1>8. KnowsRun(w)'
  BY <1>4, <1>5, <1>6, <1>7 DEF KnowsRun, Busy, Questions, Plain, database, artifacts
<1>9. KnowsWork(w)' BY <1>4, <1>5 DEF KnowsWork
<1>10. req[w].pc # "create" BY <1>1
<1> QED BY <1>3, <1>4, <1>5, <1>8, <1>9, <1>10, BusyStep DEF Plain

----------------------------------------------------------------------------
(* The steps that flush a status. *)

\* A group is only ever given a terminal status by its reconciliation.
LEMMA VerdictIsFinal == ASSUME NEW write PROVE Verdict(write) \in Terminal \cup {"none"}
  BY DEF Verdict, Terminal

\* The record of a request after its flush.
FlushedAs(w, q, rows, s) ==
  /\ req' = [req EXCEPT ![w] = q] /\ req'[w] = q
  /\ q.pc = "commit" /\ q.run = req[w].run /\ q.peers = req[w].peers
  /\ q.answers = req[w].answers /\ q.scores = req[w].scores /\ q.seen = req[w].seen
  /\ \A r \in Runs : q.write[r] = IF r \in rows THEN s ELSE "none"
  /\ q.group \in Terminal \cup {"none"}
  /\ \A v \in Workers \ {w}, r \in Runs : q.write[r] = "none" \/ req[v].write[r] = "none"

\* The record of a request that has flushed: no other session has the rows.
LEMMA Flushed ==
  ASSUME TypeOK, NEW w \in Workers, NEW rows \in SUBSET Runs, NEW s \in Status, FlushAndReconcile(w, rows, s)
  PROVE  \E q \in Request : FlushedAs(w, q, rows, s)
<1> DEFINE write == [r \in Runs |-> IF r \in rows THEN s ELSE "none"]
           q == [req[w] EXCEPT !.pc = "commit", !.write = write, !.group = Verdict(write)]
<1>1. req[w] \in Request BY DEF TypeOK
<1>2. req' = [req EXCEPT ![w] = q] BY <1>1 DEF FlushAndReconcile, TypeOK
<1>3. req'[w] = q BY <1>2 DEF TypeOK
<1>4. write \in [Runs -> Status \cup {"none"}] OBVIOUS
<1>5. Verdict(write) \in Terminal \cup {"none"} BY VerdictIsFinal
<1>6. \A r \in Runs : write[r] = IF r \in rows THEN s ELSE "none" OBVIOUS
<1> HIDE DEF write
<1>7. q \in Request /\ q.pc = "commit" /\ q.run = req[w].run /\ q.peers = req[w].peers
      /\ q.answers = req[w].answers /\ q.scores = req[w].scores /\ q.seen = req[w].seen
      /\ q.write = write /\ q.group = Verdict(write)
  BY <1>1, <1>4, <1>5 DEF Request, Steps, GroupStatus, Terminal
<1>8. \A v \in Workers \ {w}, r \in Runs : write[r] = "none" \/ req[v].write[r] = "none"
  BY <1>6 DEF FlushAndReconcile, Unlocked
<1> HIDE DEF q
<1>9. FlushedAs(w, q, rows, s) BY <1>2, <1>3, <1>5, <1>6, <1>7, <1>8 DEF FlushedAs
<1> QED BY <1>7, <1>9

\* An executor or an evaluator flushes what becomes of its run.
LEMMA FlushStep ==
  ASSUME LifecycleInv, NEW w \in Workers, req[w].pc \in {"execute", "evaluate", "fail"},
         NEW rows \in SUBSET {req[w].run}, NEW s \in {"TESTS_EXECUTED", "COMPLETED", "FAILED"},
         FlushAndReconcile(w, rows, s), UNCHANGED <<database, locks>>,
         s = "TESTS_EXECUTED" => /\ status[req[w].run] = "TESTS_GENERATED"
                                 /\ \A t \in Questions(req[w].run) : ~Unasked(w, t),
         s = "COMPLETED" => status[req[w].run] = "TESTS_EXECUTED" /\ Unscored(w) = {},
         s = "FAILED" /\ rows # {} => Unscored(w) # {}
  PROVE  LifecycleInv'
<1>1. Busy(w) BY DEF Busy
<1>2. /\ TypeOK /\ Rows /\ Knows(w) /\ req[w] \in Request
      /\ req[w].run \in Runs /\ runLock[req[w].run] = w
  BY <1>1, AtWork
<1>3. rows \in SUBSET Runs /\ s \in Status BY <1>2 DEF Status, Terminal
<1>0. PICK q \in Request : FlushedAs(w, q, rows, s) BY <1>2, <1>3, Flushed
<1>4. /\ req' = [req EXCEPT ![w] = q] /\ req'[w] = q
      /\ q.pc = "commit" /\ q.run = req[w].run /\ q.peers = req[w].peers
      /\ q.answers = req[w].answers /\ q.scores = req[w].scores /\ q.seen = req[w].seen
      /\ \A r \in Runs : q.write[r] = IF r \in rows THEN s ELSE "none"
      /\ q.group \in Terminal \cup {"none"}
      /\ \A v \in Workers \ {w}, r \in Runs : q.write[r] = "none" \/ req[v].write[r] = "none"
  BY <1>0 DEF FlushedAs
<1>5. /\ status' = status /\ suite' = suite /\ answers' = answers /\ group' = group /\ scores' = scores
      /\ source' = source /\ suiteLock' = suiteLock /\ runLock' = runLock
  BY DEF database, artifacts, locks
<1>6. q.run # NoRun BY <1>2, <1>4, Absent
<1>7. Busy(w)' BY <1>4, <1>6 DEF Busy
<1>8. Shape(w)' BY <1>4, <1>6, <1>7 DEF Shape
<1>9. HoldsLocks(w)' BY <1>1, <1>2, <1>4, <1>5 DEF Knows, HoldsLocks, SuiteSteps
<1>10. KnowsRows(w)'
  <2>1. status[req[w].run] # "absent" /\ \A p \in req[w].peers : status[p] # "absent"
    BY <1>2, <1>4, <1>6 DEF Knows, KnowsRows
  <2> QED BY <2>1, <1>4, <1>5 DEF KnowsRows
<1>11. KnowsSuite(w)' /\ KnowsWork(w)' BY <1>4 DEF KnowsSuite, KnowsWork
<1>12. KnowsRun(w)'
  <2>1. KnowsRun(w) /\ Shape(w) BY <1>2 DEF Knows
  <2>2. /\ status[req[w].run] \in {"TESTS_GENERATED", "TESTS_EXECUTED", "CANCELLED"}
        /\ Questions(req[w].run) # {}
        /\ (req[w].scores # {} => status[req[w].run] # "TESTS_GENERATED")
        /\ (Grouped /\ req[w].answers # NoTests => GroupStarted)
    BY <1>1, <2>1 DEF KnowsRun
  <2>3. req'[w].run = req[w].run /\ req'[w].pc = "commit" /\ req'[w].scores = req[w].scores
        /\ req'[w].answers = req[w].answers
    BY <1>4
  <2>4. \A t \in Tests : req[w].answers[t] # 0 =>
          /\ answers[req[w].run][t] = 0 /\ suite[req[w].run][t] # 0
          /\ Grouped => req[w].answers[t] = suite[req[w].run][t]
    BY <2>1 DEF KnowsRun
  <2>5. \A t \in req[w].scores : answers[req[w].run][t] # 0 BY <2>1 DEF KnowsRun
  <2> QED BY <1>5, <2>2, <2>3, <2>4, <2>5 DEF KnowsRun, Questions, GroupStarted
<1>13. KnowsWrites(w)'
  <2> SUFFICES ASSUME NEW r \in Runs
               PROVE  KnowsWrites(w)!(r)'
    BY DEF KnowsWrites
  <2>1. q.write[r] # "none" => r = req[w].run /\ q.write[r] = s /\ rows # {} BY <1>4
  <2>2. Unscored(w)' = Unscored(w) /\ (\A t \in Tests : Unasked(w, t)' = Unasked(w, t))
        /\ Questions(r)' = Questions(r)
    BY <1>4, <1>5 DEF Unscored, Unasked, Questions
  <2>3. Questions(r) \subseteq Tests BY DEF Questions
  <2> QED BY <1>4, <1>5, <1>6, <2>1, <2>2, <2>3 DEF KnowsWrites, Before
<1>14. Knows(w)' BY <1>8, <1>9, <1>10, <1>11, <1>12, <1>13 DEF Knows
<1>15. q.pc # "create" BY <1>4
<1> QED BY <1>4, <1>14, <1>15, OwnStep

\* The last answer is there: the compare-and-set finds the run or a cancellation.
LEMMA ExecutedStep ==
  ASSUME LifecycleInv, NEW w \in Workers, Executed(w) PROVE LifecycleInv'
<1>1. req[w].pc = "execute" /\ UNCHANGED <<database, locks>> BY DEF Executed, At
<1>2. CASE status[req[w].run] = "TESTS_GENERATED"
  <2>1. FlushAndReconcile(w, {req[w].run}, "TESTS_EXECUTED") BY <1>2 DEF Executed, Transition
  <2> QED BY <1>1, <1>2, <2>1, FlushStep DEF Executed
<1>3. CASE status[req[w].run] # "TESTS_GENERATED"
  <2>1. Goto(w, "refresh") BY <1>3 DEF Executed, Transition
  <2>2. status[req[w].run] = "CANCELLED" BY <1>1, <1>3 DEF LifecycleInv, Knows, KnowsRun, Busy
  <2> QED BY <1>1, <2>1, <2>2, GiveUp
<1> QED BY <1>2, <1>3

\* The last evaluation is there.
LEMMA EvaluatedStep ==
  ASSUME LifecycleInv, NEW w \in Workers, Evaluated(w) PROVE LifecycleInv'
<1>1. req[w].pc = "evaluate" /\ UNCHANGED <<database, locks>> BY DEF Evaluated, At
<1>2. CASE status[req[w].run] = "TESTS_EXECUTED"
  <2>1. FlushAndReconcile(w, {req[w].run}, "COMPLETED") BY <1>2 DEF Evaluated, Transition
  <2> QED BY <1>1, <1>2, <2>1, FlushStep DEF Evaluated
<1>3. CASE status[req[w].run] # "TESTS_EXECUTED"
  <2>1. Goto(w, "refresh") BY <1>3 DEF Evaluated, Transition
  <2>2. status[req[w].run] = "CANCELLED" BY <1>1, <1>3 DEF LifecycleInv, Knows, KnowsRun, Busy
  <2> QED BY <1>1, <2>1, <2>2, GiveUp
<1> QED BY <1>2, <1>3

\* The FAILED write, unless a cancellation was read.
LEMMA FailStep ==
  ASSUME LifecycleInv, NEW w \in Workers, Fail(w) PROVE LifecycleInv'
<1> DEFINE rows == IF req[w].seen \in {"CANCELLED", "FAILED"} THEN {} ELSE {req[w].run}
<1>1. req[w].pc = "fail" /\ UNCHANGED <<database, locks>> /\ FlushAndReconcile(w, rows, "FAILED")
  BY DEF Fail, At
<1>2. rows # {} => Unscored(w) # {} BY <1>1 DEF LifecycleInv, Knows, KnowsWork
<1>3. rows \in SUBSET {req[w].run} OBVIOUS
<1> HIDE DEF rows
<1> QED BY <1>1, <1>2, <1>3, FlushStep

\* A cancellation flushes the rows it has read.
LEMMA WriteCancelledStep ==
  ASSUME LifecycleInv, NEW w \in Workers, WriteCancelled(w) PROVE LifecycleInv'
<1> DEFINE rows == req[w].peers
<1>1. TypeOK /\ Knows(w) /\ req[w] \in Request /\ req[w].pc = "cancel"
  BY DEF LifecycleInv, TypeOK, WriteCancelled, At
<1>2. Plain(req[w]) BY <1>1, IsPlain DEF Busy
<1>3. FlushAndReconcile(w, rows, "CANCELLED") /\ UNCHANGED <<database, locks>> BY DEF WriteCancelled
<1>4. rows \in SUBSET Runs /\ "CANCELLED" \in Status BY <1>1 DEF Request, Status, Terminal
<1>5. req[w].run = NoRun /\ \A p \in rows : status[p] # "absent" BY <1>1 DEF Knows, Shape, KnowsRows
<1>6. req[w].peers = rows OBVIOUS
<1> HIDE DEF rows
<1>7. PICK q \in Request : FlushedAs(w, q, rows, "CANCELLED") BY <1>1, <1>3, <1>4, Flushed
<1>8. req'[w] = q /\ q.pc = "commit" /\ q.run = NoRun /\ q.peers = rows
      /\ q.answers = NoTests /\ q.scores = {} /\ q.group \in Terminal \cup {"none"}
      /\ \A r \in Runs : q.write[r] = IF r \in rows THEN "CANCELLED" ELSE "none"
  BY <1>2, <1>5, <1>6, <1>7 DEF FlushedAs, Plain
<1>9. \A t \in Tests : q.answers[t] = 0 BY <1>8 DEF NoTests
<1>10. ~Busy(w)' BY <1>8 DEF Busy
<1>11. Shape(w)' /\ HoldsLocks(w)' BY <1>8, <1>10 DEF Shape, HoldsLocks, SuiteSteps
<1>12. KnowsRows(w)' BY <1>3, <1>5, <1>8 DEF KnowsRows, database
<1>13. KnowsSuite(w)' /\ KnowsRun(w)' /\ KnowsWork(w)'
  BY <1>8, <1>9, <1>10 DEF KnowsSuite, KnowsRun, KnowsWork
<1>14. KnowsWrites(w)' BY <1>8, Absent DEF KnowsWrites
<1>15. Knows(w)' BY <1>11, <1>12, <1>13, <1>14 DEF Knows
<1> QED BY <1>3, <1>7, <1>8, <1>15, OwnStep DEF FlushedAs

\* cancel_experiment: a group without a condition is closed at once.
LEMMA CancelGroupStep ==
  ASSUME LifecycleInv, NEW w \in Workers, CancelGroup(w) PROVE LifecycleInv'
<1>1. CASE Members = {}
  <2> DEFINE q == [NoRequest EXCEPT !.pc = "commit", !.group = "CANCELLED"]
  <2>1. q \in Request /\ Plain(q) /\ q.pc = "commit" /\ q.run = NoRun /\ q.peers = {}
    BY NoRequestType DEF NoRequest, Request, NoWrites, NoTests, Plain, Steps, GroupStatus, Terminal
  <2>2. req' = [req EXCEPT ![w] = q] /\ UNCHANGED <<database, locks>> BY <1>1 DEF CancelGroup
  <2> HIDE DEF q
  <2>3. req'[w] = q BY <2>2 DEF LifecycleInv, TypeOK
  <2>4. ~Busy(w)' BY <2>1, <2>3 DEF Busy
  <2>5. Shape(w)' /\ HoldsLocks(w)' BY <2>1, <2>3, <2>4 DEF Shape, HoldsLocks, SuiteSteps, Plain
  <2>6. KnowsRows(w)' BY <2>1, <2>3 DEF KnowsRows, Plain
  <2>7. KnowsSuite(w)' /\ KnowsRun(w)' /\ KnowsWork(w)' /\ KnowsWrites(w)'
    BY <2>1, <2>3, <2>4 DEF KnowsSuite, KnowsRun, KnowsWork, KnowsWrites, Plain
  <2>8. Knows(w)' BY <2>5, <2>6, <2>7 DEF Knows
  <2>9. \A v \in Workers \ {w}, r \in Runs : q.write[r] = "none" BY <2>1 DEF Plain
  <2>10. q.pc # "create" BY <2>1
  <2> QED BY <2>1, <2>2, <2>8, <2>9, <2>10, OwnStep
<1>2. CASE Members # {}
  <2> DEFINE peers == {r \in Members : status[r] \notin Terminal}
             q == [NoRequest EXCEPT !.pc = "cancel", !.peers = peers]
  <2>1. peers \in SUBSET Runs BY DEF Members
  <2>2. \A p \in peers : status[p] # "absent" BY DEF Members
  <2>3. req' = [req EXCEPT ![w] = q] BY <1>2 DEF CancelGroup
  <2> HIDE DEF peers
  <2>4. q \in Request /\ Plain(q) /\ q.pc = "cancel" /\ q.run = NoRun /\ q.peers = peers
    BY <2>1, NoRequestType DEF NoRequest, Request, NoWrites, NoTests, Plain, Steps
  <2> HIDE DEF q
  <2> QED BY <2>2, <2>3, <2>4, AcceptedStep, Absent DEF CancelGroup, database, artifacts, locks, SuiteSteps
<1> QED BY <1>1, <1>2

\* reuse-answers: the copies answer the questions of the condition, since the
\* suites are the same; a group with answers has been started.
LEMMA ShareAnswersStep ==
  ASSUME LifecycleInv, NEW w \in Workers, NEW r \in Runs, NEW from \in Runs, ShareAnswers(w, r, from)
  PROVE  LifecycleInv'
<1> DEFINE copies == answers[from]
           q == [NoRequest EXCEPT !.pc = "share", !.run = r, !.answers = copies]
<1>1. TypeOK /\ Rows BY DEF LifecycleInv
<1>2. copies \in [Tests -> 0..MaxEdition] BY <1>1 DEF TypeOK
<1>3. req' = [req EXCEPT ![w] = q] BY DEF ShareAnswers
<1>4. /\ Grouped /\ status[r] = "TESTS_GENERATED" /\ answers[r] = NoTests /\ Questions(r) # {}
      /\ suite[r] = suite[from] /\ \A t \in Questions(from) : copies[t] # 0
      /\ suiteLock' = suiteLock
  BY DEF ShareAnswers
<1>5. Questions(r) = Questions(from) BY <1>4 DEF Questions
<1>6. ~NoAnswers
  <2>1. PICK t \in Questions(from) : copies[t] # 0 BY <1>4, <1>5
  <2>2. t \in Tests /\ NoTests[t] = 0 BY DEF Questions, NoTests
  <2> QED BY <2>1, <2>2 DEF NoAnswers
<1>7. \A t \in Tests : copies[t] # 0 =>
        answers[r][t] = 0 /\ suite[r][t] # 0 /\ copies[t] = suite[r][t]
  <2> SUFFICES ASSUME NEW t \in Tests, copies[t] # 0
               PROVE  answers[r][t] = 0 /\ suite[r][t] # 0 /\ copies[t] = suite[r][t]
    OBVIOUS
  <2>1. answers[r][t] = 0 BY <1>4 DEF NoTests
  <2>2. copies[t] = suite[from][t] BY <1>1, <1>4 DEF Rows, AnswersMatchQuestions
  <2> QED BY <2>1, <2>2, <1>4
<1>8. GroupStarted BY <1>1, <1>4, <1>6 DEF Rows, AnswersStartGroup
<1> HIDE DEF copies
<1>9. /\ q \in Request /\ q.pc = "share" /\ q.run = r /\ q.peers = {} /\ q.answers = copies
      /\ q.scores = {} /\ q.write = NoWrites /\ q.group = "none"
  BY <1>2, NoRequestType DEF NoRequest, Request, Steps
<1>10. \A p \in Runs : q.write[p] = "none" BY <1>9 DEF NoWrites
<1> HIDE DEF q
<1>11. req'[w] = q BY <1>1, <1>3 DEF TypeOK
<1>12. /\ runLock' \in [Runs -> Workers \cup {NoWorker}] /\ runLock'[r] = w
       /\ \A v \in Workers \ {w}, p \in Runs : runLock[p] = v => runLock'[p] = v
  BY <1>1, Absent DEF ShareAnswers, TypeOK
<1>13. /\ status' = status /\ group' = group /\ source' = source
       /\ suite' = suite /\ answers' = answers /\ scores' = scores
  BY DEF ShareAnswers, database, artifacts
<1>14. r # NoRun BY Absent
<1>15. Shape(w)' BY <1>9, <1>11, <1>14 DEF Shape, Busy
<1>16. HoldsLocks(w)' BY <1>9, <1>11, <1>12 DEF HoldsLocks, SuiteSteps
<1>17. KnowsRows(w)' BY <1>4, <1>9, <1>10, <1>11, <1>13 DEF KnowsRows
<1>18. KnowsSuite(w)' /\ KnowsWork(w)' /\ KnowsWrites(w)'
  BY <1>9, <1>10, <1>11 DEF KnowsSuite, KnowsWork, KnowsWrites
<1>19. KnowsRun(w)'
  <2>1. NoAnswers' = NoAnswers /\ GroupStarted' = GroupStarted /\ Questions(r)' = Questions(r)
    BY <1>13 DEF NoAnswers, GroupStarted, Questions
  <2>2. \A t \in Questions(r) : copies[t] # 0 BY <1>4, <1>5
  <2> QED BY <1>4, <1>6, <1>7, <1>8, <1>9, <1>11, <1>13, <2>1, <2>2 DEF KnowsRun, Busy
<1>20. Knows(w)' BY <1>15, <1>16, <1>17, <1>18, <1>19 DEF Knows
<1>21. suiteLock' \in Workers \cup {NoWorker} BY <1>1, <1>4 DEF TypeOK
<1> QED BY <1>3, <1>4, <1>9, <1>10, <1>12, <1>13, <1>20, <1>21, QuietStep

----------------------------------------------------------------------------
(* What the others know when one request changes rows. *)

\* Two requests never hold one lock.
LEMMA OneHolder ==
  ASSUME LifecycleInv, NEW v \in Workers, NEW w \in Workers, v # w
  PROVE  /\ ~(req[v].pc \in SuiteSteps /\ suiteLock = w)
         /\ Busy(v) => runLock[req[v].run] # w
         /\ Busy(v) /\ Busy(w) => req[v].run # req[w].run
<1>1. Knows(v) /\ Knows(w) BY DEF LifecycleInv
<1> QED BY <1>1 DEF Knows, HoldsLocks

\* The locks a request holds are its own.
LEMMA OthersHold ==
  ASSUME LifecycleInv, NEW v \in Workers, req'[v] = req[v], suiteLock = v => suiteLock' = v,
         \A r \in Runs : runLock[r] = v => runLock'[r] = v
  PROVE  Shape(v)' /\ HoldsLocks(v)'
<1>1. Knows(v) /\ req[v] \in Request BY DEF LifecycleInv, TypeOK
<1>2. Shape(v)' BY <1>1 DEF Knows, Shape, Busy
<1>3. HoldsLocks(v)' BY <1>1, Absent DEF Knows, HoldsLocks, Shape, Busy, Request, SuiteSteps
<1> QED BY <1>2, <1>3

\* An executor, an evaluator or a cancellation commits: the other requests lose
\* nothing they rely on.
LEMMA OthersWork ==
  ASSUME LifecycleInv, NEW w \in Workers, NEW v \in Workers, v # w,
         req'[v] = req[v], suiteLock = v => suiteLock' = v, \A r \in Runs : runLock[r] = v => runLock'[r] = v,
         suite' = suite, source' = source, GroupStarted => GroupStarted',
         \A r \in Runs : status'[r] # status[r] =>
           /\ status[r] # "absent" /\ status'[r] \notin {"absent", "CREATED"} /\ req[v].write[r] = "none"
           /\ status'[r] = "CANCELLED" \/ (Busy(w) /\ r = req[w].run),
         \A r \in Runs : answers'[r] # answers[r] \/ scores'[r] # scores[r] => Busy(w) /\ r = req[w].run,
         ~NoAnswers => ~NoAnswers',
         NoAnswers /\ ~NoAnswers' => Busy(w) /\ (suiteLock = w \/ req[w].pc = "share")
  PROVE  Knows(v)'
<1>1. TypeOK /\ Rows /\ Knows(v) /\ Knows(w) /\ req[v] \in Request BY DEF LifecycleInv, TypeOK
<1>2. Shape(v)' /\ HoldsLocks(v)' BY OthersHold
<1>3. \A r \in Runs : Questions(r)' = Questions(r) BY DEF Questions
<1>4. Busy(v) => /\ req[v].run \in Runs
                 /\ answers'[req[v].run] = answers[req[v].run] /\ scores'[req[v].run] = scores[req[v].run]
                 /\ status'[req[v].run] \in {status[req[v].run], "CANCELLED"}
  <2> SUFFICES ASSUME Busy(v)
               PROVE  /\ req[v].run \in Runs
                      /\ answers'[req[v].run] = answers[req[v].run] /\ scores'[req[v].run] = scores[req[v].run]
                      /\ status'[req[v].run] \in {status[req[v].run], "CANCELLED"}
    OBVIOUS
  <2>1. req[v].run \in Runs BY AtWork
  <2>2. ~(Busy(w) /\ req[v].run = req[w].run) BY OneHolder
  <2> QED BY <2>1, <2>2
<1>5. KnowsRows(v)'
  <2>1. \A r \in Runs : status[r] # "absent" => status'[r] # "absent" OBVIOUS
  <2>2. \A r \in Runs : status[r] = "absent" => status'[r] = "absent" OBVIOUS
  <2>3. KnowsRows(v) /\ Shape(v) BY <1>1 DEF Knows
  <2>4. req[v].pc = "create" \/ req[v].run # NoRun => req[v].run \in Runs BY <1>1, <2>3 DEF Shape, Request
  <2>5. req[v].peers \subseteq Runs BY <1>1 DEF Request
  <2> QED BY <2>1, <2>2, <2>3, <2>4, <2>5 DEF KnowsRows
<1>6. KnowsSuite(v)'
  <2>1. \A r \in Runs : Fresh(r) => Fresh(r)'
    <3> SUFFICES ASSUME NEW r \in Runs, Fresh(r) PROVE Fresh(r)' OBVIOUS
    <3>1. Questions(r) = {} BY <1>1, NoSuiteNoAnswers DEF Fresh
    <3>2. ~(Busy(w) /\ r = req[w].run) BY <1>1, <3>1 DEF Knows, KnowsRun
    <3> QED BY <3>2 DEF Fresh
  <2>2. req[v].pc \in SuiteSteps /\ NoAnswers => NoAnswers'
    BY <1>1, OneHolder DEF Knows, KnowsRun
  <2>3. KnowsSuite(v) /\ Shape(v) BY <1>1 DEF Knows
  <2>4. req[v].pc \in {"clone", "save_suite"} => req[v].run \in Runs BY <1>1, <2>3 DEF Shape, Request
  <2>5. req[v].peers \subseteq Runs BY <1>1 DEF Request
  <2>6. \A r \in Runs : status[r] # "CREATED" => status'[r] # "CREATED" OBVIOUS
  <2> QED BY <2>1, <2>2, <2>3, <2>4, <2>5, <2>6 DEF KnowsSuite, SuiteSteps
<1>7. KnowsRun(v)'
  <2>1. KnowsRun(v) /\ Shape(v) BY <1>1 DEF Knows
  <2>2. CASE Busy(v)
    <3>1. Questions(req[v].run)' = Questions(req[v].run) BY <1>3, <1>4, <2>2
    <3>2. Busy(v)' = Busy(v) BY DEF Busy
    <3> QED BY <1>4, <2>1, <2>2, <3>1, <3>2 DEF KnowsRun
  <2>3. CASE ~Busy(v)
    <3>1. req[v].answers = NoTests /\ req[v].scores = {} BY <2>1, <2>3 DEF Shape
    <3>2. \A t \in Tests : req[v].answers[t] = 0 BY <3>1 DEF NoTests
    <3> QED BY <2>3, <3>1, <3>2 DEF KnowsRun, Busy
  <2> QED BY <2>2, <2>3
<1>8. KnowsWork(v)'
  <2>1. Busy(v) => Unscored(v)' = Unscored(v) BY <1>3, <1>4 DEF Unscored
  <2> QED BY <1>1, <1>4, <2>1 DEF Knows, KnowsWork, Busy
<1>9. KnowsWrites(v)'
  <2> SUFFICES ASSUME NEW r \in Runs PROVE KnowsWrites(v)!(r)' BY DEF KnowsWrites
  <2>1. KnowsWrites(v)!(r) BY <1>1 DEF Knows, KnowsWrites
  <2>2. req[v].write[r] # "none" => status'[r] = status[r] OBVIOUS
  <2>3. req[v].write[r] \in {"TESTS_EXECUTED", "COMPLETED", "FAILED"} => Busy(v) /\ r = req[v].run
    <3>1. req[v].write[r] # "none" => req[v].write # NoWrites BY DEF NoWrites
    <3> QED BY <1>1, <2>1, <3>1, Absent DEF Knows, Shape, Busy
  <2>4. Busy(v) => /\ Unscored(v)' = Unscored(v)
                   /\ \A t \in Tests : Unasked(v, t)' = Unasked(v, t)
    BY <1>3, <1>4 DEF Unscored, Unasked
  <2>5. Questions(r)' = Questions(r) /\ Questions(r) \subseteq Tests BY <1>3 DEF Questions
  <2> QED BY <2>1, <2>2, <2>3, <2>4, <2>5 DEF Before
<1> QED BY <1>2, <1>5, <1>6, <1>7, <1>8, <1>9 DEF Knows

\* A request that ends, once the rows and the others are accounted for.
LEMMA RespondStep ==
  ASSUME LifecycleInv, NEW w \in Workers, Respond(w),
         status' \in [Runs -> Status \cup {"absent"}], group' \in GroupStatus, source' \in Runs \cup {NoRun},
         suite' \in [Runs -> [Tests -> 0..MaxEdition]], answers' \in [Runs -> [Tests -> 0..MaxEdition]],
         scores' \in [Runs -> SUBSET Tests], Rows',
         \A v \in Workers \ {w} : Knows(v)'
  PROVE  LifecycleInv'
<1>1. TypeOK /\ Apart BY DEF LifecycleInv
<1>2. /\ req'[w] = NoRequest /\ \A v \in Workers \ {w} : req'[v] = req[v]
      /\ req' \in [Workers -> Request]
      /\ suiteLock' \in Workers \cup {NoWorker} /\ runLock' \in [Runs -> Workers \cup {NoWorker}]
      /\ Knows(w)'
  BY <1>1, Responded
<1>3. TypeOK' BY <1>2 DEF TypeOK
<1>4. NoRequest.pc = "idle" /\ \A r \in Runs : NoRequest.write[r] = "none" BY DEF NoRequest, NoWrites
<1>5. Apart' BY <1>1, <1>2, <1>4 DEF Apart, At
<1> QED BY <1>2, <1>3, <1>5 DEF LifecycleInv

\* Saving the answers of a request adds to those of its run, and replaces none.
LEMMA SavedAnswersAdd ==
  ASSUME LifecycleInv, NEW w \in Workers, Busy(w), answers' = SavedAnswers(w)
  PROVE  /\ answers' \in [Runs -> [Tests -> 0..MaxEdition]]
         /\ \A r \in Runs : r # req[w].run => answers'[r] = answers[r]
         /\ \A t \in Tests : answers'[req[w].run][t] =
              IF req[w].answers[t] # 0 THEN req[w].answers[t] ELSE answers[req[w].run][t]
         /\ \A r \in Runs, t \in Tests : answers[r][t] # 0 => answers'[r][t] = answers[r][t]
         /\ ~NoAnswers => ~NoAnswers'
         /\ NoAnswers /\ ~NoAnswers' => req[w].answers # NoTests
<1> DEFINE run == req[w].run
<1>1. TypeOK /\ Knows(w) /\ req[w] \in Request /\ run \in Runs BY AtWork
<1>2. /\ req[w].answers \in [Tests -> 0..MaxEdition]
      /\ answers \in [Runs -> [Tests -> 0..MaxEdition]]
  BY <1>1 DEF Request, TypeOK
<1>3. answers' = [answers EXCEPT ![run] =
                    [t \in Tests |-> IF req[w].answers[t] # 0 THEN req[w].answers[t] ELSE answers[run][t]]]
  BY DEF SavedAnswers
<1>4. answers' \in [Runs -> [Tests -> 0..MaxEdition]] BY <1>1, <1>2, <1>3
<1>5. \A r \in Runs : r # run => answers'[r] = answers[r] BY <1>2, <1>3
<1>6. \A t \in Tests : answers'[run][t] =
              IF req[w].answers[t] # 0 THEN req[w].answers[t] ELSE answers[run][t]
  BY <1>1, <1>2, <1>3
<1>7. \A t \in Tests : req[w].answers[t] # 0 => answers[run][t] = 0 BY <1>1 DEF Knows, KnowsRun
<1>8. \A r \in Runs, t \in Tests : answers[r][t] # 0 => answers'[r][t] = answers[r][t]
  BY <1>5, <1>6, <1>7
<1>9. ASSUME ~NoAnswers PROVE ~NoAnswers'
  <2>1. PICK r \in Runs : answers[r] # NoTests BY <1>9 DEF NoAnswers
  <2>2. PICK t \in Tests : answers[r][t] # 0 BY <1>2, <2>1 DEF NoTests
  <2>3. answers'[r][t] # 0 BY <1>8, <2>2
  <2> QED BY <2>3 DEF NoAnswers, NoTests
<1>10. ASSUME NoAnswers, req[w].answers = NoTests PROVE NoAnswers'
  <2>1. \A t \in Tests : answers'[run][t] = answers[run][t] BY <1>6, <1>10 DEF NoTests
  <2>2. answers'[run] = answers[run] BY <1>1, <1>2, <1>4, <2>1
  <2> QED BY <1>5, <1>10, <2>2 DEF NoAnswers
<1> QED BY <1>4, <1>5, <1>6, <1>8, <1>9, <1>10

\* The rows after an executor, an evaluator or a sharer has saved its work.
LEMMA RowsWithWork ==
  ASSUME LifecycleInv, NEW w \in Workers, Busy(w), answers' = SavedAnswers(w),
         suite' = suite, source' = source, GroupStarted => GroupStarted',
         \A r \in Runs : r # req[w].run => scores'[r] = scores[r],
         scores'[req[w].run] \in {scores[req[w].run], scores[req[w].run] \cup req[w].scores},
         StatusMatchesArtifacts'
  PROVE  Rows'
<1> DEFINE run == req[w].run
<1>1. TypeOK /\ Rows /\ Knows(w) /\ run \in Runs BY AtWork
<1>2. /\ \A r \in Runs : r # run => answers'[r] = answers[r]
      /\ \A t \in Tests : answers'[run][t] = IF req[w].answers[t] # 0 THEN req[w].answers[t] ELSE answers[run][t]
      /\ NoAnswers /\ ~NoAnswers' => req[w].answers # NoTests
  BY SavedAnswersAdd
<1>3. /\ \A t \in Tests : req[w].answers[t] # 0 =>
           suite[run][t] # 0 /\ (Grouped => req[w].answers[t] = suite[run][t])
      /\ \A t \in req[w].scores : answers[run][t] # 0
      /\ Grouped /\ req[w].answers # NoTests => GroupStarted
  BY <1>1 DEF Knows, KnowsRun
<1>4. ArtifactsNest'
  <2>1. \A r \in Runs, t \in Tests : answers'[r][t] # 0 => suite[r][t] # 0
    BY <1>1, <1>2, <1>3 DEF Rows, ArtifactsNest
  <2>2. \A r \in Runs, t \in Tests : t \in scores'[r] => answers[r][t] # 0
    BY <1>1, <1>3 DEF Rows, ArtifactsNest
  <2>3. \A r \in Runs, t \in Tests : answers[r][t] # 0 => answers'[r][t] # 0 BY <1>2
  <2> QED BY <2>1, <2>2, <2>3 DEF ArtifactsNest
<1>5. SourceHasSuite' /\ SameQuestions' BY <1>1 DEF Rows, SourceHasSuite, SameQuestions, Questions
<1>6. AnswersStartGroup' BY <1>1, <1>2, <1>3 DEF Rows, AnswersStartGroup
<1>7. ASSUME Grouped PROVE AnswersMatchQuestions'
  <2>1. \A r \in Runs, t \in Tests : answers'[r][t] # 0 => answers'[r][t] = suite[r][t]
    BY <1>1, <1>2, <1>3, <1>7 DEF Rows, AnswersMatchQuestions
  <2> QED BY <2>1 DEF AnswersMatchQuestions
<1> QED BY <1>4, <1>5, <1>6, <1>7 DEF Rows

\* The copies are saved, over whatever the status has become.
LEMMA SaveSharedStep ==
  ASSUME LifecycleInv, NEW w \in Workers, SaveShared(w) PROVE LifecycleInv'
<1> DEFINE run == req[w].run
<1>1. Busy(w) /\ req[w].pc = "share" BY DEF SaveShared, At, Busy
<1>2. TypeOK /\ Rows /\ Knows(w) /\ req[w] \in Request /\ run \in Runs BY <1>1, AtWork
<1>3. /\ answers' = SavedAnswers(w) /\ status' = [status EXCEPT ![run] = "TESTS_EXECUTED"]
      /\ group' = "RUNNING" /\ Respond(w) /\ Unlocked(w, {run})
      /\ source' = source /\ suite' = suite /\ scores' = scores
  BY DEF SaveShared
<1>4. /\ answers' \in [Runs -> [Tests -> 0..MaxEdition]]
      /\ \A r \in Runs : r # run => answers'[r] = answers[r]
      /\ \A t \in Tests : answers'[run][t] = IF req[w].answers[t] # 0 THEN req[w].answers[t] ELSE answers[run][t]
      /\ ~NoAnswers => ~NoAnswers'
  BY <1>1, <1>3, SavedAnswersAdd
<1>5. status' \in [Runs -> Status \cup {"absent"}] /\ GroupStarted' /\ group' \in GroupStatus
  BY <1>2, <1>3 DEF TypeOK, Status, GroupStarted, GroupStatus
<1>6. /\ \A t \in Questions(run) : req[w].answers[t] # 0
      /\ Questions(run) # {} /\ ~NoAnswers /\ status[run] # "absent"
  BY <1>1, <1>2 DEF Knows, KnowsRun
<1>7. \A r \in Runs : status'[r] = IF r = run THEN "TESTS_EXECUTED" ELSE status[r]
  BY <1>2, <1>3 DEF TypeOK
<1>8. StatusMatchesArtifacts'
  <2> SUFFICES ASSUME NEW r \in Runs PROVE StatusMatchesArtifacts!(r)' BY DEF StatusMatchesArtifacts
  <2>1. Questions(r)' = Questions(r) /\ Questions(r) \subseteq Tests BY <1>3 DEF Questions
  <2>2. CASE r = run
    <3>1. \A t \in Questions(run) : answers'[run][t] # 0 BY <1>4, <1>6, <2>1, <2>2
    <3> QED BY <1>6, <1>7, <2>1, <2>2, <3>1 DEF Answered
  <2>3. CASE r # run
    <3>1. status'[r] = status[r] /\ answers'[r] = answers[r] /\ scores'[r] = scores[r] /\ suite'[r] = suite[r]
      BY <1>3, <1>4, <1>7, <2>3
    <3>2. StatusMatchesArtifacts!(r) BY <1>2 DEF Rows, StatusMatchesArtifacts
    <3> QED BY <2>1, <3>1, <3>2 DEF Answered, HasUnscored
  <2> QED BY <2>2, <2>3
<1>9. Rows' BY <1>1, <1>3, <1>5, <1>8, RowsWithWork
<1>10. ASSUME NEW v \in Workers \ {w} PROVE Knows(v)'
  <2>1. req'[v] = req[v] /\ (suiteLock = v => suiteLock' = v) /\ \A r \in Runs : runLock[r] = v => runLock'[r] = v
    BY <1>2, <1>3, Responded
  <2>2. req[v].write[run] = "none" BY <1>2, <1>3 DEF Unlocked
  <2>3. ~(Busy(v) /\ req[v].run = run) BY <1>1, OneHolder
  <2>4. \A r \in Runs : status'[r] # status[r] => r = run BY <1>7
  <2>5. \A r \in Runs : answers'[r] # answers[r] \/ scores'[r] # scores[r] => r = run BY <1>3, <1>4
  <2> QED BY <1>1, <1>3, <1>4, <1>5, <1>6, <1>7, <2>1, <2>2, <2>4, <2>5, OthersWork
<1>11. scores' \in [Runs -> SUBSET Tests] /\ source' \in Runs \cup {NoRun}
       /\ suite' \in [Runs -> [Tests -> 0..MaxEdition]]
  BY <1>2, <1>3 DEF TypeOK
<1> QED BY <1>3, <1>4, <1>5, <1>9, <1>10, <1>11, RespondStep

\* A commit: the statuses, the answers and the evaluations of a request.
LEMMA CommitStep ==
  ASSUME LifecycleInv, NEW w \in Workers, Commit(w) PROVE LifecycleInv'
<1> DEFINE run == req[w].run
<1>1. TypeOK /\ Rows /\ Knows(w) /\ req[w] \in Request /\ Apart BY DEF LifecycleInv, TypeOK
<1>2. /\ req[w].pc = "commit" /\ Respond(w) /\ suite' = suite /\ source' = source
      /\ \A r \in Runs : status'[r] = IF req[w].write[r] = "none" THEN status[r] ELSE req[w].write[r]
      /\ status' = [r \in Runs |-> IF req[w].write[r] = "none" THEN status[r] ELSE req[w].write[r]]
      /\ group' = IF req[w].group = "none" THEN group ELSE req[w].group
  BY DEF Commit, At
<1>3. /\ \A r \in Runs : req[w].write[r] \in {"none", "TESTS_EXECUTED", "COMPLETED", "FAILED", "CANCELLED"}
      /\ status \in [Runs -> Status \cup {"absent"}]
  BY <1>1 DEF Knows, KnowsWrites, TypeOK
<1>4. status' \in [Runs -> Status \cup {"absent"}] BY <1>2, <1>3 DEF Status, Terminal
<1>5. group' \in GroupStatus /\ (GroupStarted => GroupStarted')
  BY <1>1, <1>2 DEF Knows, Shape, GroupStatus, GroupStarted, TypeOK, Terminal
<1>6. source' \in Runs \cup {NoRun} /\ suite' \in [Runs -> [Tests -> 0..MaxEdition]] BY <1>1, <1>2 DEF TypeOK
<1>7. ASSUME NEW v \in Workers \ {w}
      PROVE  /\ req'[v] = req[v] /\ (suiteLock = v => suiteLock' = v)
             /\ \A r \in Runs : runLock[r] = v => runLock'[r] = v
             /\ \A r \in Runs : status'[r] # status[r] =>
                  /\ status[r] # "absent" /\ status'[r] \notin {"absent", "CREATED"} /\ req[v].write[r] = "none"
                  /\ req[w].write[r] # "none"
  <2>1. /\ req'[v] = req[v] /\ (suiteLock = v => suiteLock' = v)
        /\ \A r \in Runs : runLock[r] = v => runLock'[r] = v
    BY <1>1, <1>2, Responded
  <2>2. \A r \in Runs : req[w].write[r] # "none" => req[v].write[r] = "none" /\ status[r] # "absent"
    BY <1>1 DEF Apart, Knows, KnowsRows
  <2> QED BY <1>2, <1>3, <2>1, <2>2
<1>8. \A r \in Runs : Questions(r)' = Questions(r) /\ Questions(r) \subseteq Tests BY <1>2 DEF Questions
<1>9. CASE run = NoRun
  <2>1. answers' = answers /\ scores' = scores BY <1>2, <1>9 DEF Commit
  <2>2. \A r \in Runs : req[w].write[r] \in {"none", "CANCELLED"} BY <1>1, <1>3, <1>9 DEF Knows, KnowsWrites
  <2>3. StatusMatchesArtifacts'
    <3> SUFFICES ASSUME NEW r \in Runs PROVE StatusMatchesArtifacts!(r)' BY DEF StatusMatchesArtifacts
    <3>1. status'[r] \in {status[r], "CANCELLED"} BY <1>2, <2>2
    <3>2. StatusMatchesArtifacts!(r) BY <1>1 DEF Rows, StatusMatchesArtifacts
    <3> QED BY <1>2, <1>8, <2>1, <3>1, <3>2 DEF Answered, HasUnscored
  <2>4. NoAnswers' = NoAnswers BY <2>1 DEF NoAnswers
  <2>5. Rows'
    BY <1>1, <1>2, <1>5, <2>1, <2>3, <2>4
       DEF Rows, ArtifactsNest, SourceHasSuite, SameQuestions, AnswersStartGroup, AnswersMatchQuestions, Questions
  <2>6. ASSUME NEW v \in Workers \ {w} PROVE Knows(v)'
    <3>1. \A r \in Runs : req[w].write[r] # "none" => status'[r] = "CANCELLED" BY <1>2, <2>2
    <3> QED BY <1>2, <1>5, <1>7, <2>1, <2>4, <3>1, OthersWork
  <2>7. answers' \in [Runs -> [Tests -> 0..MaxEdition]] /\ scores' \in [Runs -> SUBSET Tests]
    BY <1>1, <2>1 DEF TypeOK
  <2> QED BY <1>2, <1>4, <1>5, <1>6, <2>5, <2>6, <2>7, RespondStep
<1>10. CASE run # NoRun
  <2>1. Busy(w) BY <1>2, <1>10 DEF Busy
  <2>2. run \in Runs BY <2>1, AtWork
  <2>3. answers' = SavedAnswers(w) /\ scores' = [scores EXCEPT ![run] = @ \cup req[w].scores]
    BY <1>10 DEF Commit
  <2>4. /\ scores' \in [Runs -> SUBSET Tests] /\ \A r \in Runs : r # run => scores'[r] = scores[r]
        /\ scores'[run] = scores[run] \cup req[w].scores
    BY <1>1, <2>2, <2>3 DEF TypeOK, Request
  <2>5. /\ answers' \in [Runs -> [Tests -> 0..MaxEdition]]
        /\ \A r \in Runs : r # run => answers'[r] = answers[r]
        /\ \A t \in Tests : answers'[run][t] = IF req[w].answers[t] # 0 THEN req[w].answers[t] ELSE answers[run][t]
        /\ \A r \in Runs, t \in Tests : answers[r][t] # 0 => answers'[r][t] = answers[r][t]
        /\ ~NoAnswers => ~NoAnswers'
        /\ NoAnswers /\ ~NoAnswers' => req[w].answers # NoTests
    BY <2>1, <2>3, SavedAnswersAdd
  <2>6. \A r \in Runs : req[w].write[r] # "none" => r = run /\ req[w].write[r] # "CANCELLED"
    BY <1>1, <1>3, <1>10 DEF Knows, KnowsWrites
  <2>7. StatusMatchesArtifacts'
    <3> SUFFICES ASSUME NEW r \in Runs PROVE StatusMatchesArtifacts!(r)' BY DEF StatusMatchesArtifacts
    <3>1. StatusMatchesArtifacts!(r) BY <1>1 DEF Rows, StatusMatchesArtifacts
    <3>2. CASE r # run
      <4>1. status'[r] = status[r] /\ answers'[r] = answers[r] /\ scores'[r] = scores[r] /\ suite'[r] = suite[r]
        BY <1>2, <2>4, <2>5, <2>6, <3>2
      <4> QED BY <1>8, <3>1, <4>1 DEF Answered, HasUnscored
    <3>3. CASE r = run
      <4>1. /\ status[run] \in {"TESTS_GENERATED", "TESTS_EXECUTED", "CANCELLED"} /\ Questions(run) # {}
            /\ req[w].scores # {} => status[run] # "TESTS_GENERATED"
        BY <1>1, <2>1 DEF Knows, KnowsRun
      <4>2. KnowsWrites(w)!(run) BY <1>1, <2>2 DEF Knows, KnowsWrites
      <4>3. Answered(r) => Answered(r)' BY <1>8, <2>2, <2>5, <3>3 DEF Answered
      <4>4. CASE req[w].write[run] = "none"
        <5>1. status'[run] = status[run] BY <1>2, <2>2, <4>4
        <5>2. CASE status[run] = "TESTS_GENERATED"
          <6>1. scores'[run] = scores[run] BY <2>4, <4>1, <5>2
          <6> QED BY <1>8, <2>2, <3>1, <3>3, <5>1, <5>2, <6>1 DEF HasUnscored
        <5>3. CASE status[run] # "TESTS_GENERATED"
          BY <1>8, <2>2, <3>1, <3>3, <4>1, <4>3, <5>1, <5>3
        <5> QED BY <5>2, <5>3
      <4>5. CASE req[w].write[run] = "TESTS_EXECUTED"
        <5>1. status'[run] = "TESTS_EXECUTED" BY <1>2, <2>2, <4>5
        <5>2. \A t \in Questions(run) : answers'[run][t] # 0 BY <1>8, <2>2, <2>5, <4>2, <4>5 DEF Unasked
        <5> QED BY <1>8, <2>2, <3>3, <4>1, <5>1, <5>2 DEF Answered
      <4>6. CASE req[w].write[run] = "COMPLETED"
        <5>1. status'[run] = "COMPLETED" BY <1>2, <2>2, <4>6
        <5>2. status[run] = "TESTS_EXECUTED" /\ Unscored(w) = {} BY <4>2, <4>6 DEF Before
        <5>3. ~HasUnscored(r)' BY <1>8, <2>2, <2>4, <3>3, <5>2 DEF HasUnscored, Unscored
        <5> QED BY <1>8, <2>2, <3>1, <3>3, <4>1, <4>3, <5>1, <5>2, <5>3
      <4>7. CASE req[w].write[run] = "FAILED"
        <5>1. status'[run] = "FAILED" BY <1>2, <2>2, <4>7
        <5>2. Unscored(w) # {} BY <4>2, <4>7
        <5>3. HasUnscored(r)' BY <1>8, <2>2, <2>4, <3>3, <5>2 DEF HasUnscored, Unscored
        <5> QED BY <3>3, <5>1, <5>3
      <4> QED BY <1>3, <2>2, <2>6, <4>4, <4>5, <4>6, <4>7
    <3> QED BY <3>2, <3>3
  <2>8. Rows' BY <1>2, <1>5, <2>1, <2>3, <2>4, <2>7, RowsWithWork
  <2>9. ASSUME NEW v \in Workers \ {w} PROVE Knows(v)'
    <3>1. req[w].answers # NoTests => suiteLock = w BY <1>1, <1>2 DEF Knows, HoldsLocks
    <3>2. \A r \in Runs : answers'[r] # answers[r] \/ scores'[r] # scores[r] => r = run BY <2>4, <2>5
    <3> QED BY <1>2, <1>5, <1>7, <2>1, <2>5, <2>6, <3>1, <3>2, OthersWork
  <2> QED BY <1>2, <1>4, <1>5, <1>6, <2>4, <2>5, <2>8, <2>9, RespondStep
<1> QED BY <1>9, <1>10

\* A request that goes on, once the rows and the others are accounted for.
LEMMA MoveStep ==
  ASSUME LifecycleInv, NEW w \in Workers, NEW q \in Request, req' = [req EXCEPT ![w] = q],
         suiteLock' = suiteLock, runLock' = runLock, q.pc # "create", q.write = NoWrites,
         status' \in [Runs -> Status \cup {"absent"}], group' \in GroupStatus, source' \in Runs \cup {NoRun},
         suite' \in [Runs -> [Tests -> 0..MaxEdition]], answers' \in [Runs -> [Tests -> 0..MaxEdition]],
         scores' \in [Runs -> SUBSET Tests], Rows', Knows(w)',
         \A v \in Workers \ {w} : Knows(v)'
  PROVE  LifecycleInv'
<1>1. TypeOK /\ Apart BY DEF LifecycleInv
<1>2. /\ req'[w] = q /\ \A v \in Workers \ {w} : req'[v] = req[v]
      /\ req' \in [Workers -> Request]
  BY <1>1 DEF TypeOK
<1>3. TypeOK' BY <1>1, <1>2 DEF TypeOK
<1>4. \A r \in Runs : q.write[r] = "none" BY DEF NoWrites
<1>5. Apart' BY <1>1, <1>2, <1>4 DEF Apart, At
<1> QED BY <1>3, <1>5 DEF LifecycleInv

\* execute, after the locks: the group is marked as started.
LEMMA StartExecuteStep ==
  ASSUME LifecycleInv, NEW w \in Workers, StartExecute(w) PROVE LifecycleInv'
<1> DEFINE q == [req[w] EXCEPT !.pc = "execute"]
<1>1. TypeOK /\ Rows /\ Knows(w) /\ req[w] \in Request /\ req[w].pc = "start_execute"
  BY DEF LifecycleInv, TypeOK, StartExecute, At
<1>2. Plain(req[w]) BY <1>1, IsPlain DEF Busy
<1>3. req[w].run \in Runs /\ runLock[req[w].run] = w /\ suiteLock = w
  BY <1>1 DEF Knows, Shape, HoldsLocks, Request, SuiteSteps
<1>4. req' = [req EXCEPT ![w] = q] /\ req'[w] = q BY <1>1 DEF StartExecute, Goto, TypeOK
<1>5. q \in Request /\ Plain(q) /\ q.pc = "execute" /\ q.run = req[w].run /\ q.peers = req[w].peers
  BY <1>1, <1>2 DEF Request, Plain, Steps
<1> HIDE DEF q
<1>6. /\ status' = status /\ source' = source /\ suite' = suite /\ answers' = answers /\ scores' = scores
      /\ suiteLock' = suiteLock /\ runLock' = runLock /\ status[req[w].run] = "TESTS_GENERATED"
  BY DEF StartExecute, artifacts, locks
<1>7. group' \in GroupStatus /\ (Grouped => GroupStarted') /\ (GroupStarted => GroupStarted')
  BY <1>1 DEF StartExecute, TypeOK, GroupStatus, GroupStarted, Terminal
<1>8. NoAnswers' = NoAnswers BY <1>6 DEF NoAnswers
<1>9. Rows'
  BY <1>1, <1>6, <1>7, <1>8 DEF Rows, StatusMatchesArtifacts, ArtifactsNest, SourceHasSuite, SameQuestions,
         AnswersStartGroup, AnswersMatchQuestions, HasUnscored, Questions, Answered
<1>10. HasUnscored(req[w].run) BY <1>1, <1>3, <1>6 DEF Rows, StatusMatchesArtifacts
<1>11. Questions(req[w].run) # {} /\ Unscored(w) # {} BY <1>2, <1>10 DEF HasUnscored, Unscored, Plain
<1>12. req[w].run # NoRun BY <1>3, Absent
<1>13. Knows(w)'
  <2>1. Shape(w)' BY <1>4, <1>5, <1>12 DEF Shape, Plain
  <2>2. HoldsLocks(w)' BY <1>3, <1>4, <1>5, <1>6 DEF HoldsLocks
  <2>3. KnowsRows(w)' BY <1>1, <1>4, <1>5, <1>6, <1>12 DEF Knows, KnowsRows, Plain
  <2>4. KnowsSuite(w)' /\ KnowsWrites(w)' BY <1>4, <1>5 DEF KnowsSuite, KnowsWrites, Plain
  <2>5. KnowsRun(w)' BY <1>4, <1>5, <1>6, <1>7, <1>11 DEF KnowsRun, Busy, Questions, Plain
  <2>6. KnowsWork(w)' BY <1>2, <1>4, <1>5, <1>6, <1>11 DEF KnowsWork, Unscored, Questions, Plain
  <2> QED BY <2>1, <2>2, <2>3, <2>4, <2>5, <2>6 DEF Knows
<1>14. ASSUME NEW v \in Workers \ {w} PROVE Knows(v)'
  <2>1. req'[v] = req[v] BY <1>1, <1>4 DEF TypeOK
  <2> QED BY <1>6, <1>7, <1>8, <2>1, OthersWork
<1>15. q.pc # "create" /\ q.write = NoWrites BY <1>5 DEF Plain
<1> QED BY <1>1, <1>4, <1>5, <1>6, <1>7, <1>9, <1>13, <1>14, <1>15, MoveStep DEF TypeOK

\* A cancellation between two questions: the answers so far are committed.
LEMMA StopAskingStep ==
  ASSUME LifecycleInv, NEW w \in Workers, StopAsking(w) PROVE LifecycleInv'
<1> DEFINE q == [req[w] EXCEPT !.pc = "refresh", !.answers = NoTests]
<1>1. Busy(w) /\ req[w].pc = "execute" BY DEF Busy, StopAsking, At
<1>2. /\ TypeOK /\ Rows /\ Knows(w) /\ req[w] \in Request
      /\ req[w].run \in Runs /\ runLock[req[w].run] = w
  BY <1>1, AtWork
<1>3. req' = [req EXCEPT ![w] = q] /\ req'[w] = q BY <1>2 DEF StopAsking, TypeOK
<1>4. /\ q \in Request /\ q.pc = "refresh" /\ q.run = req[w].run /\ q.peers = req[w].peers
      /\ q.answers = NoTests /\ q.scores = req[w].scores
      /\ q.write = req[w].write /\ q.group = req[w].group
  BY <1>2, NoRequestType DEF Request, Steps
<1> HIDE DEF q
<1>5. /\ status' = status /\ group' = group /\ source' = source /\ suite' = suite /\ scores' = scores
      /\ suiteLock' = suiteLock /\ runLock' = runLock /\ status[req[w].run] = "CANCELLED"
      /\ answers' = SavedAnswers(w)
  BY DEF StopAsking, locks
<1>6. q.write = NoWrites /\ q.scores = {} /\ q.group \in Terminal \cup {"none"} BY <1>1, <1>2, <1>4 DEF Knows, Shape
<1>7. suiteLock = w BY <1>1, <1>2 DEF Knows, HoldsLocks, SuiteSteps
<1>8. /\ answers' \in [Runs -> [Tests -> 0..MaxEdition]]
      /\ \A r \in Runs : r # req[w].run => answers'[r] = answers[r]
      /\ ~NoAnswers => ~NoAnswers'
  BY <1>1, <1>5, SavedAnswersAdd
<1>9. GroupStarted' = GroupStarted BY <1>5 DEF GroupStarted
<1>10. StatusMatchesArtifacts'
  <2> SUFFICES ASSUME NEW r \in Runs PROVE StatusMatchesArtifacts!(r)' BY DEF StatusMatchesArtifacts
  <2>1. StatusMatchesArtifacts!(r) BY <1>2 DEF Rows, StatusMatchesArtifacts
  <2>2. CASE r # req[w].run
    BY <1>5, <1>8, <2>1, <2>2 DEF Answered, HasUnscored, Questions
  <2>3. CASE r = req[w].run BY <1>5, <2>3
  <2> QED BY <2>2, <2>3
<1>11. Rows' BY <1>1, <1>5, <1>9, <1>10, RowsWithWork
<1>12. req[w].run # NoRun BY <1>2, Absent
<1>13. \A t \in Tests : q.answers[t] = 0 BY <1>4 DEF NoTests
<1>14. Knows(w)'
  <2>1. Shape(w)' BY <1>3, <1>4, <1>6, <1>12 DEF Shape, Busy
  <2>2. HoldsLocks(w)' BY <1>2, <1>3, <1>4, <1>5, <1>7 DEF HoldsLocks
  <2>3. KnowsRows(w)' BY <1>1, <1>2, <1>3, <1>4, <1>5, <1>12 DEF Knows, KnowsRows
  <2>4. \A r \in Runs : q.write[r] = "none" BY <1>6 DEF NoWrites
  <2>5. KnowsSuite(w)' /\ KnowsWrites(w)' BY <1>3, <1>4, <2>4 DEF KnowsSuite, KnowsWrites
  <2>6. Questions(req[w].run) # {} BY <1>1, <1>2 DEF Knows, KnowsRun
  <2>7. KnowsRun(w)' BY <1>3, <1>4, <1>5, <1>6, <1>13, <2>6 DEF KnowsRun, Questions
  <2>8. KnowsWork(w)' BY <1>3, <1>4, <1>5 DEF KnowsWork
  <2> QED BY <2>1, <2>2, <2>3, <2>5, <2>7, <2>8 DEF Knows
<1>15. ASSUME NEW v \in Workers \ {w} PROVE Knows(v)'
  <2>1. req'[v] = req[v] BY <1>2, <1>3 DEF TypeOK
  <2>2. \A r \in Runs : answers'[r] # answers[r] => r = req[w].run BY <1>8
  <2> QED BY <1>1, <1>5, <1>7, <1>8, <1>9, <2>1, <2>2, OthersWork
<1>16. q.pc # "create" BY <1>4
<1> QED BY <1>2, <1>3, <1>4, <1>5, <1>6, <1>8, <1>11, <1>14, <1>15, <1>16, MoveStep DEF TypeOK

\* A step that leaves the run of a request at work as it is, its questions apart
\* from their editions, leaves what the request knows.
LEMMA OthersBeside ==
  ASSUME LifecycleInv, NEW w \in Workers, NEW v \in Workers, v # w,
         req'[v] = req[v], suiteLock = v => suiteLock' = v, \A r \in Runs : runLock[r] = v => runLock'[r] = v,
         \A r \in Runs : status'[r] # status[r] =>
           /\ status'[r] # "absent" /\ req[v].write[r] = "none"
           /\ ~(Busy(v) /\ req[v].run = r) /\ ~(req[v].pc = "create" /\ req[v].run = r),
         Busy(v) => /\ answers'[req[v].run] = answers[req[v].run] /\ scores'[req[v].run] = scores[req[v].run]
                    /\ \A t \in Tests : suite'[req[v].run][t] # 0 <=> suite[req[v].run][t] # 0
                    /\ Grouped /\ req[v].answers # NoTests => suite'[req[v].run] = suite[req[v].run]
                    /\ Grouped /\ GroupStarted => GroupStarted'
                    /\ ~NoAnswers => ~NoAnswers',
         KnowsSuite(v)'
  PROVE  Knows(v)'
<1>1. TypeOK /\ Rows /\ Knows(v) /\ req[v] \in Request BY DEF LifecycleInv, TypeOK
<1>2. Shape(v)' /\ HoldsLocks(v)' BY OthersHold
<1>3. Busy(v) => /\ req[v].run \in Runs /\ status'[req[v].run] = status[req[v].run]
                 /\ Questions(req[v].run)' = Questions(req[v].run)
  <2> SUFFICES ASSUME Busy(v)
               PROVE  /\ req[v].run \in Runs /\ status'[req[v].run] = status[req[v].run]
                      /\ Questions(req[v].run)' = Questions(req[v].run)
    OBVIOUS
  <2>1. req[v].run \in Runs BY AtWork
  <2> QED BY <2>1 DEF Questions
<1>4. KnowsRows(v)'
  <2>1. \A r \in Runs : status[r] # "absent" => status'[r] # "absent" OBVIOUS
  <2>2. KnowsRows(v) /\ Shape(v) BY <1>1 DEF Knows
  <2>3. req[v].pc = "create" \/ req[v].run # NoRun => req[v].run \in Runs BY <1>1, <2>2 DEF Shape, Request
  <2>4. req[v].peers \subseteq Runs BY <1>1 DEF Request
  <2> QED BY <2>1, <2>2, <2>3, <2>4 DEF KnowsRows
<1>5. KnowsRun(v)'
  <2>1. KnowsRun(v) /\ Shape(v) BY <1>1 DEF Knows
  <2>2. CASE Busy(v)
    <3>1. Busy(v)' = Busy(v) BY DEF Busy
    <3>2. \A t \in Tests : req[v].answers[t] # 0 => req[v].answers # NoTests BY DEF NoTests
    <3> QED BY <1>3, <2>1, <2>2, <3>1, <3>2 DEF KnowsRun
  <2>3. CASE ~Busy(v)
    <3>1. req[v].answers = NoTests /\ req[v].scores = {} BY <2>1, <2>3 DEF Shape
    <3>2. \A t \in Tests : req[v].answers[t] = 0 BY <3>1 DEF NoTests
    <3> QED BY <2>3, <3>1, <3>2 DEF KnowsRun, Busy
  <2> QED BY <2>2, <2>3
<1>6. KnowsWork(v)'
  <2>1. Busy(v) => Unscored(v)' = Unscored(v) BY <1>3 DEF Unscored
  <2> QED BY <1>1, <1>3, <2>1 DEF Knows, KnowsWork, Busy
<1>7. KnowsWrites(v)'
  <2> SUFFICES ASSUME NEW r \in Runs PROVE KnowsWrites(v)!(r)' BY DEF KnowsWrites
  <2>1. KnowsWrites(v)!(r) BY <1>1 DEF Knows, KnowsWrites
  <2>2. req[v].write[r] # "none" => status'[r] = status[r] OBVIOUS
  <2>3. req[v].write[r] \in {"TESTS_EXECUTED", "COMPLETED", "FAILED"} => Busy(v) /\ r = req[v].run
    <3>1. req[v].write[r] # "none" => req[v].write # NoWrites BY DEF NoWrites
    <3> QED BY <1>1, <2>1, <3>1, Absent DEF Knows, Shape, Busy
  <2>4. Busy(v) => /\ Unscored(v)' = Unscored(v)
                   /\ \A t \in Tests : Unasked(v, t)' = Unasked(v, t)
    BY <1>3 DEF Unscored, Unasked
  <2>5. Busy(v) /\ r = req[v].run => Questions(r)' = Questions(r) BY <1>3
  <2>6. Questions(r) \subseteq Tests BY DEF Questions
  <2> QED BY <2>1, <2>2, <2>3, <2>4, <2>5, <2>6 DEF Before
<1> QED BY <1>2, <1>4, <1>5, <1>6, <1>7 DEF Knows

\* Beside the holder of the suite lock no other request knows a suite.
LEMMA SuiteOfHolder ==
  ASSUME LifecycleInv, NEW w \in Workers, NEW v \in Workers, v # w, req[w].pc \in SuiteSteps, req'[v] = req[v]
  PROVE  KnowsSuite(v)' /\ req[v].pc \notin SuiteSteps
<1>1. req[v].pc \notin SuiteSteps BY OneHolder DEF LifecycleInv, Knows, HoldsLocks
<1> QED BY <1>1 DEF KnowsSuite, SuiteSteps

\* The insert of a new row: nobody else has it.
LEMMA InsertAuditStep ==
  ASSUME LifecycleInv, NEW w \in Workers, InsertAudit(w) PROVE LifecycleInv'
<1> DEFINE run == req[w].run
<1>1. TypeOK /\ Rows /\ Knows(w) /\ req[w] \in Request /\ Apart BY DEF LifecycleInv, TypeOK
<1>2. /\ req[w].pc = "create" /\ status' = [status EXCEPT ![run] = "CREATED"] /\ Respond(w)
      /\ group' = group /\ source' = source /\ suite' = suite /\ answers' = answers /\ scores' = scores
  BY DEF InsertAudit, At, artifacts
<1>3. run \in Runs /\ status[run] = "absent" BY <1>1, <1>2 DEF Knows, Shape, KnowsRows, Request
<1>4. \A r \in Runs : status'[r] = IF r = run THEN "CREATED" ELSE status[r] BY <1>1, <1>2 DEF TypeOK
<1>5. StatusMatchesArtifacts'
  <2> SUFFICES ASSUME NEW r \in Runs PROVE StatusMatchesArtifacts!(r)' BY DEF StatusMatchesArtifacts
  <2>1. StatusMatchesArtifacts!(r) BY <1>1 DEF Rows, StatusMatchesArtifacts
  <2> QED BY <1>2, <1>3, <1>4, <2>1 DEF Answered, HasUnscored, Questions
<1>6. Rows'
  BY <1>1, <1>2, <1>5 DEF Rows, ArtifactsNest, SourceHasSuite, SameQuestions, AnswersStartGroup,
       AnswersMatchQuestions, Questions, NoAnswers, GroupStarted
<1>7. ASSUME NEW v \in Workers \ {w} PROVE Knows(v)'
  <2>1. req'[v] = req[v] /\ (suiteLock = v => suiteLock' = v) /\ \A r \in Runs : runLock[r] = v => runLock'[r] = v
    BY <1>1, <1>2, Responded
  <2>2. Knows(v) /\ req[v] \in Request BY DEF LifecycleInv, TypeOK
  <2>3. ~(req[v].pc = "create" /\ req[v].run = run) BY <1>1, <1>2 DEF Apart, At
  <2>4. /\ req[v].write[run] = "none" /\ run \notin req[v].peers
        /\ req[v].pc # "create" => req[v].run # run
    BY <1>3, <2>2, Absent DEF Knows, KnowsRows
  <2>5. ~(Busy(v) /\ req[v].run = run) BY <2>4 DEF Busy
  <2>6. KnowsSuite(v)'
    <3>1. \A r \in Runs : Fresh(r) => Fresh(r)' BY <1>2, <1>3, <1>4 DEF Fresh
    <3>2. KnowsSuite(v) /\ Shape(v) BY <2>2 DEF Knows
    <3>3. req[v].pc \in {"clone", "save_suite"} => req[v].run \in Runs BY <2>2, <3>2 DEF Shape, Request
    <3>4. req[v].peers \subseteq Runs BY <2>2 DEF Request
    <3>5. \A p \in req[v].peers : status'[p] = status[p] BY <1>4, <2>4, <3>4
    <3>6. NoAnswers' = NoAnswers BY <1>2 DEF NoAnswers
    <3> QED BY <1>2, <2>1, <3>1, <3>2, <3>3, <3>4, <3>5, <3>6 DEF KnowsSuite
  <2>7. GroupStarted' = GroupStarted /\ NoAnswers' = NoAnswers BY <1>2 DEF GroupStarted, NoAnswers
  <2> QED BY <1>2, <1>4, <2>1, <2>3, <2>4, <2>5, <2>6, <2>7, OthersBeside
<1>8. status' \in [Runs -> Status \cup {"absent"}] BY <1>1, <1>2 DEF TypeOK, Status
<1> QED BY <1>1, <1>2, <1>6, <1>7, <1>8, RespondStep DEF TypeOK

\* retry puts the run back to the start of the stage its artifacts call for.
LEMMA RetryStageStep ==
  ASSUME LifecycleInv, NEW w \in Workers, NEW stage \in DOMAIN Entry, RetryStage(w, stage) PROVE LifecycleInv'
<1>0. PICK run \in Runs : run = req[w].run
  BY DEF LifecycleInv, TypeOK, Knows, Shape, Request, RetryStage, At
<1> DEFINE step == Entry[stage].step
           to == Entry[stage].status
           q == [NoRequest EXCEPT !.pc = step, !.run = run]
<1>1. TypeOK /\ Rows /\ Knows(w) /\ req[w] \in Request /\ req[w].pc = "retry"
  BY DEF LifecycleInv, TypeOK, RetryStage, At
<1>2. /\ stage = NextStage(run) /\ req' = [req EXCEPT ![w] = q]
      /\ status' = status \/ (Unlocked(w, {run}) /\ status' = [status EXCEPT ![run] = to])
      /\ group' = group /\ source' = source /\ suite' = suite /\ answers' = answers /\ scores' = scores
      /\ suiteLock' = suiteLock /\ runLock' = runLock
  BY <1>0 DEF RetryStage, artifacts, locks
<1>3. suiteLock = w /\ runLock[run] = w /\ status[run] # "absent" /\ run # NoRun
  BY <1>0, <1>1, Absent DEF Knows, HoldsLocks, KnowsRows, SuiteSteps
<1>4. \/ stage = "generate" /\ step = "start_generate" /\ to = "CREATED" /\ Questions(run) = {}
      \/ /\ stage = "execute" /\ step = "start_execute" /\ to = "TESTS_GENERATED"
         /\ \E t \in Questions(run) : answers[run][t] = 0
      \/ /\ stage = "evaluate" /\ step = "start_evaluate" /\ to = "TESTS_EXECUTED"
         /\ Questions(run) # {} /\ Answered(run)
  BY <1>2 DEF Entry, NextStage, Answered
<1> HIDE DEF step, to
<1>5. q \in Request /\ Plain(q) /\ q.pc = step /\ q.run = run /\ q.peers = {}
  <2>1. step \in Steps BY <1>4 DEF Steps
  <2> QED BY <2>1, NoRequestType DEF NoRequest, Request, NoWrites, NoTests, Plain
<1> HIDE DEF q
<1>6. req'[w] = q BY <1>1, <1>2 DEF TypeOK
<1>7. \A r \in Runs : status'[r] # status[r] => r = run /\ status'[r] = to /\ Unlocked(w, {run})
  BY <1>1, <1>2 DEF TypeOK
<1>8. to # "absent" /\ status' \in [Runs -> Status \cup {"absent"}] BY <1>1, <1>2, <1>4 DEF TypeOK, Status
<1>9. StatusMatchesArtifacts'
  <2> SUFFICES ASSUME NEW r \in Runs PROVE StatusMatchesArtifacts!(r)' BY DEF StatusMatchesArtifacts
  <2>1. StatusMatchesArtifacts!(r) BY <1>1 DEF Rows, StatusMatchesArtifacts
  <2>2. CASE status'[r] = status[r] BY <1>2, <2>1, <2>2 DEF Answered, HasUnscored, Questions
  <2>3. CASE status'[r] # status[r]
    <3>1. r = run /\ status'[r] = to BY <1>7, <2>3
    <3>2. Questions(r)' = Questions(r) /\ Answered(r)' = Answered(r) /\ HasUnscored(r)' = HasUnscored(r)
      BY <1>2 DEF Questions, Answered, HasUnscored
    <3>3. Questions(r) = {} => suite[r] = NoTests BY <1>1, NoQuestions
    <3>4. (\E t \in Questions(r) : answers[r][t] = 0) => HasUnscored(r)
      BY <1>1 DEF Rows, ArtifactsNest, HasUnscored, Questions
    <3> QED BY <1>2, <1>4, <3>1, <3>2, <3>3, <3>4
  <2> QED BY <2>2, <2>3
<1>10. Rows'
  BY <1>1, <1>2, <1>9 DEF Rows, ArtifactsNest, SourceHasSuite, SameQuestions, AnswersStartGroup,
       AnswersMatchQuestions, Questions, NoAnswers, GroupStarted
<1>11. Knows(w)'
  <2>1. step \in {"start_generate", "start_execute", "start_evaluate"} BY <1>4
  <2>2. status'[run] # "absent" BY <1>3, <1>7, <1>8
  <2>3. KnowsRows(w)' BY <1>5, <1>6, <2>1, <2>2 DEF KnowsRows, Plain
  <2>4. KnowsSuite(w)' BY <1>5, <1>6, <2>1 DEF KnowsSuite
  <2> QED BY <1>2, <1>3, <1>5, <1>6, <2>1, <2>3, <2>4, PlainKnows
<1>12. ASSUME NEW v \in Workers \ {w} PROVE Knows(v)'
  <2>1. req'[v] = req[v] BY <1>1, <1>2 DEF TypeOK
  <2>2. KnowsSuite(v)' BY <1>1, <2>1, SuiteOfHolder DEF SuiteSteps
  <2>3. ~(Busy(v) /\ req[v].run = run) BY <1>3, OneHolder
  <2>4. ~(req[v].pc = "create" /\ req[v].run = run) BY <1>3 DEF LifecycleInv, Knows, KnowsRows
  <2>5. Unlocked(w, {run}) => req[v].write[run] = "none" BY DEF Unlocked
  <2>6. GroupStarted' = GroupStarted /\ NoAnswers' = NoAnswers BY <1>2 DEF GroupStarted, NoAnswers
  <2> QED BY <1>2, <1>7, <1>8, <2>1, <2>2, <2>3, <2>4, <2>5, <2>6, OthersBeside
<1>13. q.pc # "create" /\ q.write = NoWrites BY <1>4, <1>5 DEF Plain
<1> QED BY <1>1, <1>2, <1>5, <1>8, <1>10, <1>11, <1>12, <1>13, MoveStep DEF TypeOK

----------------------------------------------------------------------------
(* The steps that write a suite. *)

\* A suite is written to rows that have none.
LEMMA WriteFresh ==
  ASSUME LifecycleInv, NEW w \in Workers, req[w].pc \in SuiteSteps, NEW rows \in SUBSET Runs,
         \A r \in rows : Fresh(r), NEW new \in [Tests -> 0..MaxEdition], NEW t0 \in Tests, new[t0] # 0,
         suite' = [r \in Runs |-> IF r \in rows THEN new ELSE suite[r]],
         status' = [r \in Runs |-> IF r \in rows THEN "TESTS_GENERATED" ELSE status[r]],
         answers' = answers, scores' = scores, Unlocked(w, rows), Respond(w),
         group' \in GroupStatus, source' \in Runs \cup {NoRun},
         SourceHasSuite', SameQuestions', AnswersStartGroup',
         \A v \in Workers : Busy(v) /\ Grouped /\ GroupStarted => GroupStarted'
  PROVE  LifecycleInv'
<1>1. TypeOK /\ Rows BY DEF LifecycleInv
<1>2. /\ \A r \in Runs : suite'[r] = IF r \in rows THEN new ELSE suite[r]
      /\ \A r \in Runs : status'[r] = IF r \in rows THEN "TESTS_GENERATED" ELSE status[r]
  OBVIOUS
<1>3. \A r \in rows : answers[r] = NoTests /\ scores[r] = {} /\ Questions(r) = {}
  BY <1>1, NoSuiteNoAnswers DEF Fresh
<1>4. suite' \in [Runs -> [Tests -> 0..MaxEdition]] /\ status' \in [Runs -> Status \cup {"absent"}]
  BY <1>1 DEF TypeOK, Status
<1>5. StatusMatchesArtifacts'
  <2> SUFFICES ASSUME NEW r \in Runs PROVE StatusMatchesArtifacts!(r)' BY DEF StatusMatchesArtifacts
  <2>1. StatusMatchesArtifacts!(r) BY <1>1 DEF Rows, StatusMatchesArtifacts
  <2>2. CASE r \in rows
    <3>1. HasUnscored(r)' BY <1>2, <1>3, <2>2 DEF HasUnscored, Questions
    <3> QED BY <1>2, <2>2, <3>1
  <2>3. CASE r \notin rows BY <1>2, <2>1, <2>3 DEF Answered, HasUnscored, Questions
  <2> QED BY <2>2, <2>3
<1>6. ArtifactsNest'
  <2>1. \A r \in rows, t \in Tests : answers[r][t] = 0 /\ t \notin scores[r] BY <1>3 DEF NoTests
  <2> QED BY <1>1, <1>2, <2>1 DEF Rows, ArtifactsNest
<1>7. ASSUME Grouped PROVE AnswersMatchQuestions'
  <2>1. \A r \in rows, t \in Tests : answers[r][t] = 0 BY <1>3 DEF NoTests
  <2> QED BY <1>1, <1>2, <1>7, <2>1 DEF Rows, AnswersMatchQuestions
<1>8. Rows' BY <1>5, <1>6, <1>7 DEF Rows
<1>9. ASSUME NEW v \in Workers \ {w} PROVE Knows(v)'
  <2>1. req'[v] = req[v] /\ (suiteLock = v => suiteLock' = v) /\ \A r \in Runs : runLock[r] = v => runLock'[r] = v
    BY <1>1, Responded
  <2>2. KnowsSuite(v)' BY <2>1, SuiteOfHolder
  <2>3. Knows(v) BY DEF LifecycleInv
  <2>4. Busy(v) => req[v].run \in Runs \ rows
    <3>1. Busy(v) => req[v].run \in Runs /\ Questions(req[v].run) # {} BY <2>3, AtWork DEF Knows, KnowsRun
    <3> QED BY <1>3, <3>1
  <2>5. \A r \in rows : status[r] # "absent" /\ req[v].write[r] = "none" BY DEF Fresh, Unlocked
  <2>6. ~(req[v].pc = "create" /\ req[v].run \in rows) BY <2>3, <2>5 DEF Knows, KnowsRows
  <2>7. \A r \in Runs : status'[r] # status[r] => r \in rows /\ status'[r] = "TESTS_GENERATED" BY <1>2
  <2>8. NoAnswers' = NoAnswers BY DEF NoAnswers
  <2>9. \A r \in Runs \ rows : suite'[r] = suite[r] BY <1>2
  <2> QED BY <2>1, <2>2, <2>4, <2>5, <2>6, <2>7, <2>8, <2>9, OthersBeside
<1>10. answers' \in [Runs -> [Tests -> 0..MaxEdition]] /\ scores' \in [Runs -> SUBSET Tests] BY <1>1 DEF TypeOK
<1> QED BY <1>4, <1>8, <1>9, <1>10, RespondStep

\* The group's suite is cloned into the run.
LEMMA CloneSuiteStep ==
  ASSUME LifecycleInv, NEW w \in Workers, CloneSuite(w) PROVE LifecycleInv'
<1>0. PICK run \in Runs : run = req[w].run
  BY DEF LifecycleInv, TypeOK, Knows, Shape, Request, CloneSuite, At
<1>1. TypeOK /\ Rows /\ Knows(w) /\ req[w].pc = "clone" BY DEF LifecycleInv, CloneSuite, At
<1>2. PICK new \in [Tests -> 0..MaxEdition] : new = suite[source] /\ source \in Runs
  <2>1. source \in Runs BY <1>1 DEF Knows, KnowsSuite, TypeOK
  <2> QED BY <1>1, <2>1 DEF TypeOK
<1>3. Fresh(run) /\ source # NoRun BY <1>0, <1>1 DEF Knows, KnowsSuite
<1>4. /\ suite' = [suite EXCEPT ![run] = new] /\ status' = [status EXCEPT ![run] = "TESTS_GENERATED"]
      /\ Unlocked(w, {run}) /\ Respond(w)
      /\ group' = group /\ source' = source /\ answers' = answers /\ scores' = scores
  BY <1>0, <1>2 DEF CloneSuite
<1>5. /\ suite' = [r \in Runs |-> IF r \in {run} THEN new ELSE suite[r]]
      /\ status' = [r \in Runs |-> IF r \in {run} THEN "TESTS_GENERATED" ELSE status[r]]
  BY <1>1, <1>4 DEF TypeOK
<1>6. PICK t0 \in Tests : new[t0] # 0
  BY <1>1, <1>2, <1>3 DEF Rows, SourceHasSuite, Questions
<1>7. \A r \in Runs : suite'[r] = IF r = run THEN new ELSE suite[r] BY <1>5
<1>8. SourceHasSuite'
  <2>1. Questions(source)' # {} BY <1>2, <1>4, <1>6, <1>7 DEF Questions
  <2> QED BY <1>1, <1>3, <1>4, <2>1 DEF Rows, SourceHasSuite
<1>9. SameQuestions'
  <2>1. Questions(source) # {} BY <1>2, <1>6 DEF Questions
  <2>2. \A p \in Runs : Questions(p)' # {} => suite'[p] = new
    <3> SUFFICES ASSUME NEW p \in Runs, Questions(p)' # {} PROVE suite'[p] = new OBVIOUS
    <3>1. CASE p = run BY <1>7, <3>1
    <3>2. CASE p # run
      <4>1. suite'[p] = suite[p] /\ Questions(p) # {} BY <1>7, <3>2 DEF Questions
      <4> QED BY <1>1, <1>2, <2>1, <4>1 DEF Rows, SameQuestions
    <3> QED BY <3>1, <3>2
  <2> QED BY <2>2 DEF SameQuestions
<1>10. AnswersStartGroup' BY <1>1, <1>4 DEF Rows, AnswersStartGroup, NoAnswers, GroupStarted
<1>11. GroupStarted' = GroupStarted BY <1>4 DEF GroupStarted
<1>12. req[w].pc \in SuiteSteps BY <1>1 DEF SuiteSteps
<1>13. {run} \in SUBSET Runs /\ \A r \in {run} : Fresh(r) BY <1>3
<1>14. group' \in GroupStatus /\ source' \in Runs \cup {NoRun} BY <1>1, <1>4 DEF TypeOK
<1> QED BY <1>4, <1>5, <1>6, <1>8, <1>9, <1>10, <1>11, <1>12, <1>13, <1>14, WriteFresh

\* A run that is in no group is the only one.
LEMMA OneRun == ASSUME ~Grouped PROVE \A p, r \in Runs : p = r
  BY FS_Singleton, GroupAssumption, RunsAssumption

\* The suite that was generated is saved in every condition still waiting for
\* one; a group that has no canonical suite has none at all, and no answer.
LEMMA SaveSuiteStep ==
  ASSUME LifecycleInv, NEW w \in Workers, NEW questions \in (SUBSET Tests) \ {{}}, SaveSuite(w, questions)
  PROVE  LifecycleInv'
<1>0. PICK run \in Runs : run = req[w].run
  BY DEF LifecycleInv, TypeOK, Knows, Shape, Request, SaveSuite, At
<1>1. TypeOK /\ Rows /\ Knows(w) /\ req[w] \in Request /\ req[w].pc = "save_suite"
  BY DEF LifecycleInv, TypeOK, SaveSuite, At
<1>2. PICK rows \in SUBSET Runs : rows = req[w].peers \cup {run} BY <1>1 DEF Request
<1> DEFINE new == [t \in Tests |-> IF t \in questions THEN 1 ELSE 0]
<1>3. new \in [Tests -> 0..MaxEdition] /\ \E t \in Tests : new[t] # 0
  <2>1. 0 \in 0..MaxEdition /\ 1 \in 0..MaxEdition BY EditionAssumption
  <2>2. PICK t \in Tests : t \in questions OBVIOUS
  <2>3. new[t] = 1 BY <2>2
  <2> QED BY <2>1, <2>3
<1>4. /\ suite' = [r \in Runs |-> IF r \in rows THEN new ELSE suite[r]]
      /\ status' = [r \in Runs |-> IF r \in rows THEN "TESTS_GENERATED" ELSE status[r]]
      /\ Unlocked(w, rows) /\ Respond(w) /\ answers' = answers /\ scores' = scores
      /\ IF Grouped THEN group' = "TEST_SUITE_GENERATED" /\ source' = run
         ELSE group' = group /\ source' = source
  BY <1>0, <1>2 DEF SaveSuite
<1> HIDE DEF new
<1>5. PICK t0 \in Tests : new[t0] # 0 BY <1>3
<1>6. source = NoRun /\ \A r \in rows : Fresh(r) BY <1>0, <1>1, <1>2 DEF Knows, KnowsSuite
<1>7. Grouped => \A r \in Runs : suite[r] = NoTests BY <1>1, <1>6 DEF Rows, SourceHasSuite
<1>8. Grouped => NoAnswers /\ \A r \in Runs : Questions(r) = {}
  BY <1>1, <1>7, NoSuiteNoAnswers DEF NoAnswers
<1>9. \A r \in Runs : suite'[r] = IF r \in rows THEN new ELSE suite[r] BY <1>4
<1>10. SourceHasSuite'
  <2>1. Grouped => Questions(run)' # {} BY <1>2, <1>5, <1>9 DEF Questions
  <2> QED BY <1>4, <1>6, <2>1, Absent DEF SourceHasSuite, Questions
<1>11. SameQuestions'
  <2>1. CASE Grouped
    <3>1. \A p \in Runs : Questions(p)' # {} => suite'[p] = new BY <1>7, <1>9, <2>1 DEF Questions, NoTests
    <3> QED BY <3>1 DEF SameQuestions
  <2>2. CASE ~Grouped BY <2>2, OneRun DEF SameQuestions
  <2> QED BY <2>1, <2>2, GroupAssumption
<1>12. AnswersStartGroup' BY <1>4, <1>8 DEF AnswersStartGroup, NoAnswers
<1>13. \A v \in Workers : Busy(v) /\ Grouped /\ GroupStarted => GroupStarted'
  <2>1. \A v \in Workers : Busy(v) => req[v].run \in Runs /\ Questions(req[v].run) # {}
    BY AtWork DEF Knows, KnowsRun
  <2> QED BY <1>8, <2>1
<1>14. req[w].pc \in SuiteSteps BY <1>1 DEF SuiteSteps
<1>15. group' \in GroupStatus /\ source' \in Runs \cup {NoRun} BY <1>1, <1>4 DEF TypeOK, GroupStatus
<1> QED BY <1>3, <1>4, <1>5, <1>6, <1>10, <1>11, <1>12, <1>13, <1>14, <1>15, WriteFresh

\* A question is rewritten in every condition; only its edition changes.
LEMMA SaveEditStep ==
  ASSUME LifecycleInv, NEW w \in Workers, NEW t \in Tests, SaveEdit(w, t) PROVE LifecycleInv'
<1>1. TypeOK /\ Rows /\ Knows(w) /\ req[w].pc = "save_edit" BY DEF LifecycleInv, SaveEdit, At
<1>2. PICK edition \in 0..MaxEdition :
        /\ edition # 0
        /\ suite' = [r \in Runs |-> IF suite[r][t] = 0 THEN suite[r] ELSE [suite[r] EXCEPT ![t] = edition]]
  <2> DEFINE e == suite[CanonicalRun(req[w].run)][t] + 1
  <2>1. e \in 2..MaxEdition
        /\ suite' = [r \in Runs |-> IF suite[r][t] = 0 THEN suite[r] ELSE [suite[r] EXCEPT ![t] = e]]
    BY DEF SaveEdit
  <2>2. e \in 0..MaxEdition /\ e # 0 BY <2>1, EditionAssumption
  <2> HIDE DEF e
  <2> QED BY <2>1, <2>2
<1>3. /\ Respond(w) /\ status' = status /\ group' = group /\ source' = source
      /\ answers' = answers /\ scores' = scores
  BY DEF SaveEdit
<1>4. suite' \in [Runs -> [Tests -> 0..MaxEdition]] BY <1>1, <1>2 DEF TypeOK
<1>5. \A r \in Runs, s \in Tests :
        suite'[r][s] = IF s = t /\ suite[r][t] # 0 THEN edition ELSE suite[r][s]
  BY <1>1, <1>2 DEF TypeOK
<1>6. \A r \in Runs, s \in Tests : suite'[r][s] # 0 <=> suite[r][s] # 0 BY <1>2, <1>5
<1>7. \A r \in Runs : Questions(r)' = Questions(r) BY <1>6 DEF Questions
<1>8. NoAnswers' = NoAnswers /\ GroupStarted' = GroupStarted BY <1>3 DEF NoAnswers, GroupStarted
<1>9. Grouped => NoAnswers BY <1>1 DEF Knows, KnowsSuite
<1>10. Rows'
  <2>1. \A r \in Runs : suite[r] = NoTests => suite'[r] = NoTests BY <1>1, <1>2 DEF NoTests, TypeOK
  <2>2. StatusMatchesArtifacts'
    <3> SUFFICES ASSUME NEW r \in Runs PROVE StatusMatchesArtifacts!(r)' BY DEF StatusMatchesArtifacts
    <3>1. StatusMatchesArtifacts!(r) BY <1>1 DEF Rows, StatusMatchesArtifacts
    <3> QED BY <1>3, <1>7, <2>1, <3>1 DEF Answered, HasUnscored
  <2>3. ArtifactsNest' BY <1>1, <1>3, <1>6 DEF Rows, ArtifactsNest
  <2>4. SourceHasSuite'
    <3>1. source # NoRun => source \in Runs BY <1>1 DEF TypeOK
    <3> QED BY <1>1, <1>3, <1>7, <2>1, <3>1 DEF Rows, SourceHasSuite
  <2>5. SameQuestions'
    <3>1. \A p, r \in Runs : suite[p] = suite[r] => suite'[p] = suite'[r] BY <1>2
    <3> QED BY <1>1, <1>7, <3>1 DEF Rows, SameQuestions
  <2>6. AnswersStartGroup' BY <1>1, <1>8 DEF Rows, AnswersStartGroup
  <2>7. Grouped => AnswersMatchQuestions' BY <1>3, <1>9 DEF NoAnswers, NoTests, AnswersMatchQuestions
  <2> QED BY <2>2, <2>3, <2>4, <2>5, <2>6, <2>7 DEF Rows
<1>11. req[w].pc \in SuiteSteps BY <1>1 DEF SuiteSteps
<1>12. ASSUME NEW v \in Workers \ {w} PROVE Knows(v)'
  <2>1. req'[v] = req[v] /\ (suiteLock = v => suiteLock' = v) /\ \A r \in Runs : runLock[r] = v => runLock'[r] = v
    BY <1>1, <1>3, Responded
  <2>2. KnowsSuite(v)' BY <1>11, <2>1, SuiteOfHolder
  <2>3. Busy(v) => req[v].run \in Runs BY AtWork
  <2>4. ~(Grouped /\ req[v].answers # NoTests)
    <3>1. Knows(v) /\ suiteLock = w BY <1>1, <1>11 DEF LifecycleInv, Knows, HoldsLocks
    <3> QED BY <1>9, <3>1 DEF Knows, HoldsLocks, KnowsRun
  <2> QED BY <1>3, <1>6, <1>8, <2>1, <2>2, <2>3, <2>4, OthersBeside
<1> QED BY <1>1, <1>3, <1>4, <1>10, <1>12, RespondStep DEF TypeOK

\* A larger suite replaces that of every condition, while none has an answer:
\* no request beside it is at work on one, but for an evaluation that failed.
LEMMA SaveContinuedStep ==
  ASSUME LifecycleInv, NEW w \in Workers, NEW questions \in (SUBSET Tests) \ {{}}, SaveContinued(w, questions)
  PROVE  LifecycleInv'
<1>1. TypeOK /\ Rows /\ Knows(w) /\ req[w] \in Request /\ req[w].pc = "save_continue"
  BY DEF LifecycleInv, TypeOK, SaveContinued, At
<1>2. PICK peers \in SUBSET Runs : peers = req[w].peers BY <1>1 DEF Request
<1>3. PICK new \in [Tests -> 0..MaxEdition] :
        /\ suite' = [r \in Runs |-> IF r \in peers THEN new ELSE suite[r]]
        /\ \E t \in Tests : new[t] # 0
  <2> DEFINE old == suite[CanonicalRun(req[w].run)]
             n == [t \in Tests |-> IF t \in questions THEN old[t] + 1 ELSE 0]
  <2>1. n \in [Tests -> 0..MaxEdition] /\ suite' = [r \in Runs |-> IF r \in peers THEN n ELSE suite[r]]
    BY <1>2 DEF SaveContinued
  <2>2. PICK t \in Tests : t \in questions OBVIOUS
  <2>3. CanonicalRun(req[w].run) \in Runs
    BY <1>1 DEF CanonicalRun, TypeOK, Knows, Shape, Request
  <2>4. old[t] \in 0..MaxEdition BY <1>1, <2>3 DEF TypeOK
  <2>5. n[t] = old[t] + 1 BY <2>2
  <2>6. n[t] # 0 BY <2>4, <2>5, EditionAssumption
  <2> HIDE DEF n
  <2> QED BY <2>1, <2>6
<1>4. /\ answers' = [r \in Runs |-> IF r \in peers THEN NoTests ELSE answers[r]]
      /\ scores' = [r \in Runs |-> IF r \in peers THEN {} ELSE scores[r]]
      /\ Respond(w) /\ status' = status /\ group' = group /\ source' = source
  BY <1>2 DEF SaveContinued
<1>5. /\ NoAnswers /\ \A p \in peers : status[p] \notin {"CREATED", "absent"}
      /\ \A r \in Runs \ peers : suite[r] = NoTests
  BY <1>1, <1>2 DEF Knows, KnowsSuite, KnowsRows
<1>6. \A r \in Runs : scores[r] = {} BY <1>1, <1>5 DEF Rows, ArtifactsNest, NoAnswers, NoTests, TypeOK
<1>7. answers' = answers /\ scores' = scores BY <1>1, <1>4, <1>5, <1>6 DEF NoAnswers, TypeOK
<1>8. \A r \in Runs : suite'[r] = IF r \in peers THEN new ELSE suite[r] BY <1>3
<1>9. \A r \in Runs : r \notin peers => Questions(r) = {} /\ Questions(r)' = {}
  BY <1>5, <1>8 DEF Questions, NoTests
<1>10. \A r \in peers : Questions(r)' # {} BY <1>3, <1>8 DEF Questions
<1>11. \A r \in Runs, t \in Tests : answers[r][t] = 0 BY <1>5 DEF NoAnswers, NoTests
<1>12. suite' \in [Runs -> [Tests -> 0..MaxEdition]] BY <1>1, <1>3 DEF TypeOK
<1>13. \A r \in Runs : status[r] \notin {"TESTS_EXECUTED", "COMPLETED"}
  BY <1>1, <1>11 DEF Rows, StatusMatchesArtifacts, Answered, Questions
<1>14. Rows'
  <2>1. StatusMatchesArtifacts'
    <3> SUFFICES ASSUME NEW r \in Runs PROVE StatusMatchesArtifacts!(r)' BY DEF StatusMatchesArtifacts
    <3>1. StatusMatchesArtifacts!(r) BY <1>1 DEF Rows, StatusMatchesArtifacts
    <3>2. CASE r \in peers
      <4>1. HasUnscored(r)' BY <1>6, <1>7, <1>10, <3>2 DEF HasUnscored
      <4> QED BY <1>4, <1>5, <1>13, <3>2, <4>1
    <3>3. CASE r \notin peers
      <4>1. suite'[r] = suite[r] BY <1>8, <3>3
      <4> QED BY <1>4, <1>7, <3>1, <4>1 DEF Answered, HasUnscored, Questions
    <3> QED BY <3>2, <3>3
  <2>2. ArtifactsNest' BY <1>6, <1>7, <1>11 DEF ArtifactsNest
  <2>3. SourceHasSuite'
    <3>1. ASSUME source # NoRun PROVE Grouped /\ Questions(source)' # {}
      <4>1. PICK s \in Runs : s = source /\ Grouped /\ Questions(s) # {}
        BY <1>1, <3>1 DEF Rows, SourceHasSuite, TypeOK
      <4>2. Questions(s)' # {} BY <1>9, <1>10, <4>1
      <4>3. Questions(source)' = Questions(s)' BY <1>4, <4>1 DEF Questions
      <4> QED BY <4>1, <4>2, <4>3
    <3>2. Grouped => source # NoRun BY <1>1 DEF Knows, KnowsSuite
    <3> QED BY <1>4, <3>1, <3>2 DEF SourceHasSuite
  <2>4. SameQuestions'
    <3>1. \A p \in Runs : Questions(p)' # {} => suite'[p] = new BY <1>8, <1>9
    <3> QED BY <3>1 DEF SameQuestions
  <2>5. AnswersStartGroup' BY <1>1, <1>4, <1>7 DEF Rows, AnswersStartGroup, NoAnswers, GroupStarted
  <2>6. AnswersMatchQuestions' BY <1>7, <1>11 DEF AnswersMatchQuestions
  <2> QED BY <2>1, <2>2, <2>3, <2>4, <2>5, <2>6 DEF Rows
<1>15. req[w].pc \in SuiteSteps /\ suiteLock = w BY <1>1 DEF SuiteSteps, Knows, HoldsLocks
<1>16. ASSUME NEW v \in Workers \ {w} PROVE Knows(v)'
  <2>1. req'[v] = req[v] /\ (suiteLock = v => suiteLock' = v) /\ \A r \in Runs : runLock[r] = v => runLock'[r] = v
    BY <1>1, <1>4, Responded
  <2>2. KnowsSuite(v)' BY <1>15, <2>1, SuiteOfHolder
  <2>3. Knows(v) BY DEF LifecycleInv
  <2>4. NoAnswers' = NoAnswers /\ GroupStarted' = GroupStarted BY <1>4, <1>7 DEF NoAnswers, GroupStarted
  <2>5. Busy(v) =>
          /\ req[v].run \in peers /\ req[v].answers = NoTests /\ req[v].scores = {} /\ req[v].pc # "share"
          /\ status[req[v].run] # "TESTS_EXECUTED"
    <3> SUFFICES ASSUME Busy(v)
                 PROVE  /\ req[v].run \in peers /\ req[v].answers = NoTests /\ req[v].scores = {} /\ req[v].pc # "share"
                        /\ status[req[v].run] # "TESTS_EXECUTED"
      OBVIOUS
    <3>1. req[v].run \in Runs /\ req[v] \in Request BY AtWork
    <3>2. Questions(req[v].run) # {} /\ req[v].pc # "share" BY <1>5, <2>3 DEF Knows, KnowsRun
    <3>3. req[v].answers = NoTests BY <1>15, <2>3, <3>2 DEF Knows, HoldsLocks
    <3>4. req[v].scores = {} BY <1>11, <2>3, <3>1 DEF Knows, KnowsRun, Request
    <3> QED BY <1>9, <1>13, <3>1, <3>2, <3>3, <3>4
  <2>6. Shape(v)' /\ HoldsLocks(v)' BY <2>1, OthersHold
  <2>7. KnowsRows(v)' BY <1>4, <2>1, <2>3 DEF Knows, KnowsRows
  <2>8. Busy(v)' = Busy(v) BY <2>1 DEF Busy
  <2>9. Busy(v) => /\ Questions(req[v].run)' # {} /\ Unscored(v)' # {}
                   /\ \A t \in Tests : req[v].answers[t] = 0
    <3> SUFFICES ASSUME Busy(v)
                 PROVE  /\ Questions(req[v].run)' # {} /\ Unscored(v)' # {}
                        /\ \A t \in Tests : req[v].answers[t] = 0
      OBVIOUS
    <3>1. PICK r \in peers : r = req[v].run BY <2>5
    <3>2. r = req'[v].run BY <2>1, <3>1
    <3>3. Questions(r)' # {} BY <1>10, <3>1
    <3>4. scores'[r] = {} /\ req'[v].scores = {} BY <1>6, <1>7, <2>1, <2>5
    <3>5. Unscored(v)' = Questions(r)' BY <3>2, <3>4 DEF Unscored, Questions
    <3>6. Questions(req[v].run)' = Questions(r)' BY <3>2 DEF Questions
    <3> QED BY <2>5, <3>3, <3>5, <3>6 DEF NoTests
  <2>10. KnowsRun(v)'
    <3>1. KnowsRun(v) /\ Shape(v) BY <2>3 DEF Knows
    <3>2. CASE Busy(v)
      BY <1>4, <2>1, <2>4, <2>5, <2>8, <2>9, <3>1, <3>2 DEF KnowsRun
    <3>3. CASE ~Busy(v)
      <4>1. req[v].answers = NoTests /\ req[v].scores = {} BY <3>1, <3>3 DEF Shape
      <4>2. \A t \in Tests : req[v].answers[t] = 0 BY <4>1 DEF NoTests
      <4> QED BY <2>1, <3>3, <4>1, <4>2 DEF KnowsRun, Busy
    <3> QED BY <3>2, <3>3
  <2>11. KnowsWork(v)' BY <2>1, <2>9 DEF KnowsWork, Busy
  <2>12. KnowsWrites(v)'
    <3> SUFFICES ASSUME NEW r \in Runs PROVE KnowsWrites(v)!(r)' BY DEF KnowsWrites
    <3>1. KnowsWrites(v)!(r) BY <2>3 DEF Knows, KnowsWrites
    <3>2. req[v].write[r] \in {"TESTS_EXECUTED", "COMPLETED", "FAILED"} => Busy(v) /\ r = req[v].run
      <4>1. req[v].write[r] # "none" => req[v].write # NoWrites BY DEF NoWrites
      <4> QED BY <2>3, <3>1, <4>1, Absent DEF Knows, Shape, Busy
    <3>3. req[v].write[r] # "TESTS_EXECUTED"
      <4> SUFFICES ASSUME req[v].write[r] = "TESTS_EXECUTED" PROVE FALSE OBVIOUS
      <4>1. Busy(v) /\ r = req[v].run BY <3>2
      <4>2. PICK t \in Questions(r) : TRUE BY <2>3, <4>1 DEF Knows, KnowsRun
      <4>3. t \in Tests BY DEF Questions
      <4> QED BY <1>11, <2>9, <3>1, <4>1, <4>2, <4>3 DEF Unasked
    <3>4. req[v].write[r] # "COMPLETED" BY <1>13, <3>1 DEF Before
    <3> QED BY <1>4, <2>1, <2>9, <3>1, <3>2, <3>3, <3>4
  <2> QED BY <2>2, <2>6, <2>7, <2>10, <2>11, <2>12 DEF Knows
<1> QED BY <1>1, <1>4, <1>7, <1>12, <1>14, <1>16, RespondStep DEF TypeOK

----------------------------------------------------------------------------
(* The theorems. *)

\* Nothing has happened yet.
LEMMA InitInv == Init => LifecycleInv
<1> SUFFICES ASSUME Init PROVE LifecycleInv OBVIOUS
<1>1. NoRequest \in Request /\ NoTests \in [Tests -> 0..MaxEdition] BY NoRequestType
<1>2. TypeOK BY <1>1 DEF Init, TypeOK, GroupStatus
<1>3. (\A t \in Tests : NoTests[t] = 0) /\ \A r \in Runs : NoWrites[r] = "none" BY DEF NoTests, NoWrites
<1>4. Rows
  <2>1. \A r \in Runs : suite[r] = NoTests /\ answers[r] = NoTests /\ scores[r] = {} /\ status[r] = "absent"
    BY DEF Init
  <2>2. NoAnswers BY <2>1 DEF NoAnswers
  <2> QED BY <1>3, <2>1, <2>2 DEF Init, Rows, StatusMatchesArtifacts, ArtifactsNest, SourceHasSuite,
             SameQuestions, AnswersStartGroup, AnswersMatchQuestions
<1>5. ASSUME NEW w \in Workers PROVE Knows(w)
  <2>1. req[w] = NoRequest BY DEF Init
  <2>2. /\ NoRequest.pc = "idle" /\ NoRequest.run = NoRun /\ NoRequest.peers = {} /\ NoRequest.answers = NoTests
        /\ NoRequest.scores = {} /\ NoRequest.write = NoWrites /\ NoRequest.group = "none"
    BY DEF NoRequest
  <2>3. ~Busy(w) BY <2>1, <2>2 DEF Busy
  <2>4. Shape(w) /\ HoldsLocks(w) BY <2>1, <2>2, <2>3 DEF Shape, HoldsLocks, SuiteSteps
  <2>5. KnowsRows(w) /\ KnowsSuite(w) BY <1>3, <2>1, <2>2 DEF KnowsRows, KnowsSuite
  <2>6. KnowsRun(w) /\ KnowsWork(w) /\ KnowsWrites(w)
    BY <1>3, <2>1, <2>2, <2>3 DEF KnowsRun, KnowsWork, KnowsWrites
  <2> QED BY <2>4, <2>5, <2>6 DEF Knows
<1>6. Apart
  <2>1. NoRequest.pc = "idle" /\ NoRequest.write = NoWrites BY DEF NoRequest
  <2> QED BY <1>3, <2>1 DEF Apart, At, Init
<1> QED BY <1>2, <1>4, <1>5, <1>6 DEF LifecycleInv

\* A request is received.
LEMMA ReceiveStep ==
  ASSUME LifecycleInv, NEW w \in Workers, Receive(w) PROVE LifecycleInv'
<1>1. CASE CancelGroup(w) BY <1>1, CancelGroupStep
<1>2. CASE \E r \in Runs : \/ CreateAudit(w, r) \/ Generate(w, r) \/ Edit(w, r)
                           \/ ContinueGeneration(w, r) \/ Execute(w, r) \/ Evaluate(w, r)
                           \/ Retry(w, r) \/ Cancel(w, r)
                           \/ \E from \in Runs : ShareAnswers(w, r, from)
  BY <1>2, CreateAuditStep, GenerateStep, EditStep, ContinueStep, ExecuteStep, EvaluateStep, RetryAccepted,
     CancelStep, ShareAnswersStep
<1> QED BY <1>1, <1>2 DEF Receive

\* A handler goes on.
LEMMA WorkStep ==
  ASSUME LifecycleInv, NEW w \in Workers, Work(w) PROVE LifecycleInv'
<1>1. CASE InsertAudit(w) \/ StartGenerate(w) \/ CloneSuite(w) \/ Generated(w)
  BY <1>1, InsertAuditStep, StartGenerateStep, CloneSuiteStep, GeneratedStep
<1>2. CASE \E questions \in (SUBSET Tests) \ {{}} : SaveSuite(w, questions) \/ SaveContinued(w, questions)
  BY <1>2, SaveSuiteStep, SaveContinuedStep
<1>3. CASE EditChecked(w) \/ (\E t \in Tests : SaveEdit(w, t)) \/ Continued(w)
  BY <1>3, EditCheckedStep, SaveEditStep, ContinuedStep
<1>4. CASE StartExecute(w) \/ (\E t \in Tests : Ask(w, t)) \/ StopAsking(w) \/ Executed(w) \/ SaveShared(w)
  BY <1>4, StartExecuteStep, AskStep, StopAskingStep, ExecutedStep, SaveSharedStep
<1>5. CASE StartEvaluate(w) \/ (\E t \in Tests : Score(w, t)) \/ StopScoring(w) \/ Evaluated(w)
  BY <1>5, StartEvaluateStep, ScoreStep, StopScoringStep, EvaluatedStep
<1>6. CASE Refresh(w) \/ Fail(w) BY <1>6, RefreshStep, FailStep
<1>7. CASE \E stage \in DOMAIN Entry : RetryStage(w, stage) BY <1>7, RetryStageStep
<1>8. CASE WriteCancelled(w) \/ Commit(w) BY <1>8, WriteCancelledStep, CommitStep
<1>9. CASE Refuse(w) BY <1>9, RollBack DEF Refuse
<1> QED BY <1>1, <1>2, <1>3, <1>4, <1>5, <1>6, <1>7, <1>8, <1>9 DEF Work

\* Every step of a request, of the routes and of a crash preserves the invariant.
LEMMA NextInv == LifecycleInv /\ [Next]_vars => LifecycleInv'
<1> SUFFICES ASSUME LifecycleInv, [Next]_vars PROVE LifecycleInv' OBVIOUS
<1>1. CASE UNCHANGED vars
  <2>1. /\ status' = status /\ group' = group /\ source' = source /\ suite' = suite /\ answers' = answers
        /\ scores' = scores /\ suiteLock' = suiteLock /\ runLock' = runLock /\ req' = req
    BY <1>1 DEF vars
  <2>2. TypeOK' BY <2>1 DEF LifecycleInv, TypeOK
  <2>3. Rows' BY <2>1, RowsUnread DEF LifecycleInv
  <2>4. ASSUME NEW v \in Workers PROVE Knows(v)'
    BY <2>1, StillKnows DEF LifecycleInv, TypeOK
  <2>5. Apart' BY <2>1 DEF LifecycleInv, Apart, At
  <2> QED BY <2>2, <2>3, <2>4, <2>5 DEF LifecycleInv
<1>2. CASE Next
  <2>1. PICK w \in Workers : Receive(w) \/ Work(w) \/ ProviderFails(w) \/ Stop(w) BY <1>2 DEF Next
  <2>2. CASE Stop(w) BY <2>2, RollBack DEF Stop
  <2> QED BY <2>1, <2>2, ReceiveStep, WorkStep, ProviderFailsStep
<1> QED BY <1>1, <1>2

\* The rows, the requests and the locks of the audits always fit together, for
\* any number of conditions, questions and concurrent requests.
THEOREM LifecycleInvariant == Spec => []LifecycleInv
  BY InitInv, NextInv, PTL DEF Spec

\* Every variable keeps its type.
THEOREM TypeCorrect == Spec => []TypeOK
<1>1. LifecycleInv => TypeOK BY DEF LifecycleInv
<1> QED BY <1>1, LifecycleInvariant, PTL

\* In a comparison, a saved answer answers the question now in the suite.
THEOREM AnswersFitTheSuite == ASSUME Grouped PROVE Spec => []AnswersMatchQuestions
<1>1. LifecycleInv => AnswersMatchQuestions BY DEF LifecycleInv, Rows
<1> QED BY <1>1, LifecycleInvariant, PTL

\* All conditions have the same questions.
THEOREM ConditionsShareQuestions == Spec => []SameQuestions
<1>1. LifecycleInv => SameQuestions BY DEF LifecycleInv, Rows
<1> QED BY <1>1, LifecycleInvariant, PTL

\* A completed run has an answer and an evaluation for each of its questions.
THEOREM CompletedIsComplete == Spec => []CompletedHasEverything
<1>1. LifecycleInv => CompletedHasEverything
  BY DEF LifecycleInv, Rows, StatusMatchesArtifacts, Answered, HasUnscored, CompletedHasEverything
<1> QED BY <1>1, LifecycleInvariant, PTL

\* A failed run can be retried.
THEOREM FailedCanResume == Spec => []FailedRunHasWork
<1>1. LifecycleInv => FailedRunHasWork
  BY DEF LifecycleInv, Rows, StatusMatchesArtifacts, HasUnscored, FailedRunHasWork, NextStage
<1> QED BY <1>1, LifecycleInvariant, PTL

\* No question is put twice: the lock of the run keeps two executors apart, and
\* what one has saved the next one skips.
THEOREM AskedOnce == Spec => []NotAskedAgain
<1>1. LifecycleInv => NotAskedAgain
  <2> SUFFICES ASSUME LifecycleInv, NEW w \in Workers, NEW t \in Tests, req[w].answers[t] # 0
               PROVE  /\ answers[req[w].run][t] = 0
                      /\ \A v \in Workers \ {w} : req[v].run = req[w].run => req[v].answers[t] = 0
    BY DEF NotAskedAgain
  <2>1. \A v \in Workers : Knows(v) BY DEF LifecycleInv
  <2>2. \A v \in Workers : req[v].answers[t] # 0 => Busy(v)
    <3>1. \A v \in Workers : req[v].answers[t] # 0 => req[v].answers # NoTests BY DEF NoTests
    <3> QED BY <2>1, <3>1 DEF Knows, Shape
  <2> QED BY <2>1, <2>2, OneHolder DEF Knows, KnowsRun
<1> QED BY <1>1, LifecycleInvariant, PTL

\* What an executor or an evaluator has flushed still fits the committed status.
THEOREM AdvancesFromWhereItWas == Spec => []AdvancesWhatItRead
<1>1. LifecycleInv => AdvancesWhatItRead BY DEF LifecycleInv, Knows, KnowsWrites, AdvancesWhatItRead
<1> QED BY <1>1, LifecycleInvariant, PTL

\* Most steps leave answers and evaluations alone; the others add to them, but
\* for a continued generation, which finds none.
LEMMA StepKeeps == LifecycleInv /\ [Next]_vars => KeepsArtifacts
<1> SUFFICES ASSUME LifecycleInv, [Next]_vars PROVE KeepsArtifacts OBVIOUS
<1>1. ASSUME answers' = answers, scores' = scores PROVE KeepsArtifacts BY <1>1 DEF KeepsArtifacts
<1>2. CASE UNCHANGED vars BY <1>1, <1>2 DEF vars
<1>3. CASE Next
  <2>1. PICK w \in Workers : Receive(w) \/ Work(w) \/ ProviderFails(w) \/ Stop(w) BY <1>3 DEF Next
  <2>2. CASE Receive(w) \/ ProviderFails(w) \/ Stop(w)
    BY <1>1, <2>2 DEF Receive, CreateAudit, Generate, Edit, ContinueGeneration, Execute, Evaluate, Retry, Cancel,
         ShareAnswers, CancelGroup, ProviderFails, Stop, database, artifacts
  <2>3. CASE Work(w)
    <3>1. CASE StopAsking(w) \/ SaveShared(w)
      <4>1. Busy(w) /\ answers' = SavedAnswers(w) /\ scores' = scores
        BY <3>1 DEF StopAsking, SaveShared, At, Busy
      <4> QED BY <4>1, SavedAnswersAdd DEF KeepsArtifacts
    <3>2. CASE Commit(w)
      <4>1. CASE req[w].run = NoRun BY <1>1, <3>2, <4>1 DEF Commit
      <4>2. CASE req[w].run # NoRun
        <5>1. Busy(w) /\ answers' = SavedAnswers(w) /\ scores' = [scores EXCEPT ![req[w].run] = @ \cup req[w].scores]
          BY <3>2, <4>2 DEF Commit, At, Busy
        <5>2. \A r \in Runs : scores[r] \subseteq scores'[r] BY <5>1 DEF LifecycleInv, TypeOK
        <5> QED BY <5>1, <5>2, SavedAnswersAdd DEF KeepsArtifacts
      <4> QED BY <4>1, <4>2
    <3>3. CASE \E questions \in (SUBSET Tests) \ {{}} : SaveContinued(w, questions)
      <4>1. NoAnswers BY <3>3 DEF SaveContinued, At, LifecycleInv, Knows, KnowsSuite
      <4>2. \A r \in Runs, t \in Tests : answers[r][t] = 0 BY <4>1 DEF NoAnswers, NoTests
      <4>3. \A r \in Runs : scores[r] = {} BY <4>2 DEF LifecycleInv, Rows, ArtifactsNest, TypeOK
      <4> QED BY <4>2, <4>3 DEF KeepsArtifacts
    <3>4. CASE InsertAudit(w) \/ StartGenerate(w) \/ CloneSuite(w) \/ Generated(w) \/ EditChecked(w) \/ Continued(w)
               \/ \E questions \in (SUBSET Tests) \ {{}} : SaveSuite(w, questions)
      BY <1>1, <3>4 DEF InsertAudit, StartGenerate, CloneSuite, Generated, EditChecked, Continued, SaveSuite,
           database, artifacts
    <3>5. CASE (\E t \in Tests : SaveEdit(w, t) \/ Ask(w, t) \/ Score(w, t))
               \/ StartExecute(w) \/ StartEvaluate(w) \/ StopScoring(w)
      BY <1>1, <3>5 DEF SaveEdit, Ask, Score, StartExecute, StartEvaluate, StopScoring, database, artifacts
    <3>6. CASE Executed(w) \/ Evaluated(w) \/ Refresh(w) \/ Fail(w) \/ WriteCancelled(w) \/ Refuse(w)
               \/ \E stage \in DOMAIN Entry : RetryStage(w, stage)
      BY <1>1, <3>6 DEF Executed, Evaluated, Refresh, Fail, WriteCancelled, Refuse, RetryStage, database, artifacts
    <3> QED BY <2>3, <3>1, <3>2, <3>3, <3>4, <3>5, <3>6 DEF Work
  <2> QED BY <2>1, <2>2, <2>3
<1> QED BY <1>2, <1>3

\* Saved answers and evaluations are never lost or replaced.
THEOREM WorkIsKept == Spec => ArtifactsAreKept
<1>1. LifecycleInv /\ [Next]_vars => [KeepsArtifacts]_vars BY StepKeeps
<1> QED BY <1>1, LifecycleInvariant, PTL DEF Spec, ArtifactsAreKept

\* A request without answers has none to lose.
LEMMA NoneToLose ==
  ASSUME NEW w \in Workers, req[w].answers = NoTests PROVE ~LosesAnswers(w)
  BY DEF LosesAnswers, NoTests

\* A step of another request, and one that keeps the answers obtained, loses none.
LEMMA KeptInHand ==
  ASSUME NEW w \in Workers, req'[w].answers = req[w].answers PROVE ~LosesAnswers(w)
  BY DEF LosesAnswers

\* Answers in hand when a request accepted goes on: they stay in hand, or they
\* are saved.
LEMMA WorkLosesNone ==
  ASSUME LifecycleInv, NEW w \in Workers, Work(w) \/ ProviderFails(w) PROVE ~LosesAnswers(w)
<1>1. TypeOK /\ Knows(w) /\ req[w] \in Request BY DEF LifecycleInv, TypeOK
<1>2. ASSUME answers' = SavedAnswers(w), Busy(w) PROVE ~LosesAnswers(w)
  <2>1. \A t \in Tests : req[w].answers[t] # 0 => answers'[req[w].run][t] = req[w].answers[t]
    BY <1>2, SavedAnswersAdd
  <2> QED BY <2>1 DEF LosesAnswers
<1>3. ASSUME ~Busy(w) PROVE ~LosesAnswers(w)
  BY <1>1, <1>3, NoneToLose DEF Knows, Shape
<1>4. ASSUME NEW step \in Steps, Goto(w, step) PROVE ~LosesAnswers(w)
  <2>1. req'[w].answers = req[w].answers BY <1>1, <1>4 DEF Goto, TypeOK, Request
  <2> QED BY <2>1, KeptInHand
<1>5. ASSUME NEW rows \in SUBSET Runs, NEW s \in Status, FlushAndReconcile(w, rows, s) PROVE ~LosesAnswers(w)
  <2>1. PICK q \in Request : FlushedAs(w, q, rows, s) BY <1>1, <1>5, Flushed
  <2> QED BY <2>1, KeptInHand DEF FlushedAs
<1>6. CASE req[w].pc \notin {"execute", "share", "evaluate", "refresh", "fail", "commit"}
  BY <1>3, <1>6 DEF Busy
<1>7. CASE req[w].pc = "commit"
  <2>1. Commit(w)
    BY <1>7 DEF Work, ProviderFails, At, InsertAudit, StartGenerate, CloneSuite, Generated, SaveSuite, SaveContinued,
         EditChecked, SaveEdit, Continued, StartExecute, Ask, StopAsking, Executed, SaveShared, StartEvaluate, Score,
         StopScoring, Evaluated, Refresh, Fail, RetryStage, WriteCancelled, Refuse
  <2> QED BY <1>2, <1>3, <1>7, <2>1 DEF Commit, Busy
<1>8. CASE req[w].pc = "share"
  <2>1. SaveShared(w)
    BY <1>8 DEF Work, ProviderFails, At, InsertAudit, StartGenerate, CloneSuite, Generated, SaveSuite, SaveContinued,
         EditChecked, SaveEdit, Continued, StartExecute, Ask, StopAsking, Executed, StartEvaluate, Score,
         StopScoring, Evaluated, Refresh, Fail, RetryStage, WriteCancelled, Commit, Refuse
  <2> QED BY <1>2, <1>8, <2>1 DEF SaveShared, Busy
<1>9. CASE req[w].pc \in {"execute", "evaluate", "refresh", "fail"}
  <2>1. \/ (\E t \in Tests : Ask(w, t)) \/ StopAsking(w) \/ Executed(w)
        \/ (\E t \in Tests : Score(w, t)) \/ StopScoring(w) \/ Evaluated(w)
        \/ Refresh(w) \/ Fail(w) \/ ProviderFails(w)
    BY <1>9 DEF Work, At, InsertAudit, StartGenerate, CloneSuite, Generated, SaveSuite, SaveContinued,
         EditChecked, SaveEdit, Continued, StartExecute, SaveShared, StartEvaluate, RetryStage, WriteCancelled,
         Commit, Refuse
  <2>2. Busy(w) BY <1>9 DEF Busy
  <2>3. req[w].run \in Runs BY <2>2, AtWork
  <2>4. "refresh" \in Steps /\ {"TESTS_EXECUTED", "COMPLETED", "FAILED"} \subseteq Status BY DEF Steps, Status, Terminal
  <2>5. CASE \E t \in Tests : Ask(w, t)
    <3>1. PICK t \in Tests : Ask(w, t) BY <2>5
    <3>2. \A s \in Tests : req[w].answers[s] # 0 => req'[w].answers[s] # 0
      <4>1. req'[w].answers = [req[w].answers EXCEPT ![t] = suite[req[w].run][t]]
        BY <1>1, <3>1 DEF Ask, TypeOK, Request
      <4>2. req[w].answers[t] = 0 BY <3>1 DEF Ask, Unasked
      <4>3. req[w].answers \in [Tests -> 0..MaxEdition] BY <1>1 DEF Request
      <4> QED BY <4>1, <4>2, <4>3
    <3> QED BY <3>2 DEF LosesAnswers
  <2>6. CASE StopAsking(w) BY <1>2, <2>2, <2>6 DEF StopAsking
  <2>7. CASE \E t \in Tests : Score(w, t)
    <3>1. req'[w].answers = req[w].answers BY <1>1, <2>7 DEF Score, TypeOK, Request
    <3> QED BY <3>1, KeptInHand
  <2>8. CASE Executed(w)
    BY <1>4, <1>5, <2>3, <2>4, <2>8 DEF Executed, Transition
  <2>9. CASE Evaluated(w)
    BY <1>4, <1>5, <2>3, <2>4, <2>9 DEF Evaluated, Transition
  <2>10. CASE StopScoring(w) \/ ProviderFails(w) BY <1>4, <2>4, <2>10 DEF StopScoring, ProviderFails
  <2>11. CASE Refresh(w)
    <3>1. req'[w].answers = req[w].answers BY <1>1, <2>11 DEF Refresh, TypeOK, Request
    <3> QED BY <3>1, KeptInHand
  <2>12. CASE Fail(w)
    <3> DEFINE rows == IF req[w].seen \in {"CANCELLED", "FAILED"} THEN {} ELSE {req[w].run}
    <3>1. FlushAndReconcile(w, rows, "FAILED") /\ rows \in SUBSET Runs BY <2>3, <2>12 DEF Fail
    <3> HIDE DEF rows
    <3> QED BY <1>5, <2>4, <3>1
  <2> QED BY <2>1, <2>5, <2>6, <2>7, <2>8, <2>9, <2>10, <2>11, <2>12
<1> QED BY <1>6, <1>7, <1>8, <1>9

\* A step of one request leaves the records of the others.
LEMMA OwnRequest ==
  ASSUME LifecycleInv, NEW u \in Workers, Receive(u) \/ Work(u) \/ ProviderFails(u) \/ Stop(u),
         NEW w \in Workers, w # u
  PROVE  req'[w] = req[w]
<1>1. req \in [Workers -> Request] BY DEF LifecycleInv, TypeOK
<1>2. CASE Receive(u)
  BY <1>1, <1>2 DEF Receive, CreateAudit, Generate, Edit, ContinueGeneration, Execute, Evaluate, Retry, Cancel,
       ShareAnswers, CancelGroup, Accept
<1>3. CASE Respond(u) BY <1>1, <1>3 DEF Respond
<1>4. CASE Work(u)
  <2>1. CASE InsertAudit(u) \/ CloneSuite(u) \/ SaveShared(u) \/ Commit(u) \/ Refuse(u)
             \/ (\E questions \in (SUBSET Tests) \ {{}} : SaveSuite(u, questions) \/ SaveContinued(u, questions))
             \/ (\E t \in Tests : SaveEdit(u, t))
    BY <1>3, <2>1 DEF InsertAudit, CloneSuite, SaveShared, Commit, Refuse, SaveSuite, SaveContinued, SaveEdit
  <2>2. CASE StartGenerate(u) \/ Generated(u) \/ EditChecked(u) \/ Continued(u) \/ StartExecute(u)
             \/ StartEvaluate(u) \/ StopScoring(u) \/ Refresh(u)
    BY <1>1, <2>2 DEF StartGenerate, Generated, EditChecked, Continued, StartExecute, StartEvaluate, StopScoring,
         Refresh, Goto
  <2>3. CASE (\E t \in Tests : Ask(u, t) \/ Score(u, t)) \/ StopAsking(u)
             \/ (\E stage \in DOMAIN Entry : RetryStage(u, stage))
    BY <1>1, <2>3 DEF Ask, Score, StopAsking, RetryStage
  <2>4. CASE Executed(u) \/ Evaluated(u) \/ Fail(u) \/ WriteCancelled(u)
    BY <1>1, <2>4 DEF Executed, Evaluated, Fail, WriteCancelled, Transition, FlushAndReconcile, Goto
  <2> QED BY <1>4, <2>1, <2>2, <2>3, <2>4 DEF Work
<1>5. CASE ProviderFails(u) BY <1>1, <1>5 DEF ProviderFails, Goto
<1>6. CASE Stop(u) BY <1>3, <1>6 DEF Stop
<1> QED BY <1>2, <1>4, <1>5, <1>6

\* Answers reach the database unless the process is interrupted.
LEMMA OnlyStopLoses == LifecycleInv /\ Next => \A w \in Workers : LosesAnswers(w) => Stop(w)
<1> SUFFICES ASSUME LifecycleInv, Next, NEW w \in Workers, LosesAnswers(w) PROVE Stop(w) OBVIOUS
<1>1. PICK u \in Workers : Receive(u) \/ Work(u) \/ ProviderFails(u) \/ Stop(u) BY DEF Next
<1>2. req \in [Workers -> Request] /\ Knows(w) BY DEF LifecycleInv, TypeOK
<1>3. CASE u # w
  <2>1. req'[w] = req[w] BY <1>1, <1>3, OwnRequest
  <2> QED BY <2>1, KeptInHand
<1>4. CASE u = w
  <2>1. CASE Receive(w)
    <3>1. req[w].pc = "idle"
      BY <2>1 DEF Receive, CreateAudit, Generate, Edit, ContinueGeneration, Execute, Evaluate, Retry, Cancel,
           ShareAnswers, CancelGroup, Accept, At
    <3>2. ~Busy(w) BY <1>2, <3>1 DEF Busy
    <3>3. req[w].answers = NoTests BY <1>2, <3>2 DEF Knows, Shape
    <3> QED BY <3>3, NoneToLose
  <2>2. CASE Work(w) \/ ProviderFails(w) BY <2>2, WorkLosesNone
  <2> QED BY <1>1, <1>4, <2>1, <2>2
<1> QED BY <1>3, <1>4

\* Answers a request has obtained reach the database unless it is interrupted.
THEOREM AnswersAreSaved == Spec => AnswersReachDatabase
<1>1. LifecycleInv /\ [Next]_vars => [\A w \in Workers : LosesAnswers(w) => Stop(w)]_vars BY OnlyStopLoses
<1> QED BY <1>1, LifecycleInvariant, PTL DEF Spec, AnswersReachDatabase

----------------------------------------------------------------------------
(* What the stage locks are for. *)

\* Whoever is at the suite holds its lock, so nobody else is there.
LEMMA OneAtSuite ==
  ASSUME LifecycleInv, NEW v \in AtSuite, NEW w \in AtSuite
  PROVE  v = w
<1>1. \A u \in AtSuite : suiteLock = u BY DEF LifecycleInv, Knows, HoldsLocks, AtSuite, At
<1> QED BY <1>1

\* Whoever is at a run holds its lock.
LEMMA OneAtRun ==
  ASSUME LifecycleInv, NEW r \in Runs, NEW v \in AtRun(r), NEW w \in AtRun(r)
  PROVE  v = w
<1>1. \A u \in AtRun(r) : runLock[r] = u
  BY Absent DEF LifecycleInv, Knows, HoldsLocks, Busy, AtRun, RunSteps
<1> QED BY <1>1

\* A set of workers with at most one member, before and after a step in which only
\* one of them may have come or gone, changes as the stage of OneAtATime.
LEMMA OneComesOrGoes ==
  ASSUME NEW before, NEW after, NEW u \in Workers,
         before \subseteq Workers, after \subseteq Workers,
         \A v, w \in before : v = w,
         \A v, w \in after : v = w,
         \A w \in Workers \ {u} : w \in before <=> w \in after
  PROVE  \/ after = before
         \/ before = {} /\ after = {u}
         \/ before = {u} /\ after = {}
<1>1. CASE u \in before /\ u \in after BY <1>1
<1>2. CASE u \notin before /\ u \notin after BY <1>2
<1>3. CASE u \in before /\ u \notin after BY <1>3
<1>4. CASE u \notin before /\ u \in after BY <1>4
<1> QED BY <1>1, <1>2, <1>3, <1>4

\* While one request writes the questions of a group, or asks them and has not
\* committed the answers, no other does: no condition of a comparison is executed
\* over a suite that is being written, and no two are executed together.
THEOREM SuiteStageIsExclusive == Spec => SuiteStage!Spec
<1>1. Init => SuiteStage!Init
  BY DEF Init, SuiteStage!Init, AtSuite, SuiteSteps, NoRequest, NoTests
<1>2. LifecycleInv /\ LifecycleInv' /\ [Next]_vars => [SuiteStage!Next]_AtSuite
  <2> SUFFICES ASSUME LifecycleInv, LifecycleInv', [Next]_vars
               PROVE  [SuiteStage!Next]_AtSuite
    OBVIOUS
  <2>1. CASE UNCHANGED vars BY <2>1 DEF vars, AtSuite, At
  <2>2. CASE Next
    <3>1. PICK u \in Workers : Receive(u) \/ Work(u) \/ ProviderFails(u) \/ Stop(u) BY <2>2 DEF Next
    <3>2. \A w \in Workers \ {u} : req'[w] = req[w] BY <3>1, OwnRequest
    <3>3. \A w \in Workers \ {u} : w \in AtSuite <=> w \in AtSuite' BY <3>2 DEF AtSuite, At
    <3>4. \A v, w \in AtSuite : v = w BY OneAtSuite
    <3>5. \A v, w \in AtSuite' : v = w BY DEF LifecycleInv, Knows, HoldsLocks, AtSuite, At
    <3>6. AtSuite \subseteq Workers /\ AtSuite' \subseteq Workers BY DEF AtSuite
    <3>7. \/ AtSuite' = AtSuite
          \/ AtSuite = {} /\ AtSuite' = {u}
          \/ AtSuite = {u} /\ AtSuite' = {}
      BY <3>3, <3>4, <3>5, <3>6, OneComesOrGoes
    <3> QED BY <3>7 DEF SuiteStage!Next, SuiteStage!Enter, SuiteStage!Leave
  <2> QED BY <2>1, <2>2
<1> QED BY <1>1, <1>2, LifecycleInvariant, PTL DEF Spec, SuiteStage!Spec

\* While one request asks the questions of a run, copies answers to it, scores
\* them or moves its status on, no other does.
THEOREM RunStageIsExclusive == ASSUME NEW r \in Runs PROVE Spec => RunStage(r)!Spec
<1>1. Init => RunStage(r)!Init
  BY DEF Init, RunStage!Init, AtRun, RunSteps, NoRequest
<1>2. LifecycleInv /\ LifecycleInv' /\ [Next]_vars => [RunStage(r)!Next]_(AtRun(r))
  <2> SUFFICES ASSUME LifecycleInv, LifecycleInv', [Next]_vars
               PROVE  [RunStage(r)!Next]_(AtRun(r))
    OBVIOUS
  <2>1. CASE UNCHANGED vars BY <2>1 DEF vars, AtRun
  <2>2. CASE Next
    <3>1. PICK u \in Workers : Receive(u) \/ Work(u) \/ ProviderFails(u) \/ Stop(u) BY <2>2 DEF Next
    <3>2. \A w \in Workers \ {u} : req'[w] = req[w] BY <3>1, OwnRequest
    <3>3. \A w \in Workers \ {u} : w \in AtRun(r) <=> w \in AtRun(r)' BY <3>2 DEF AtRun
    <3>4. \A v, w \in AtRun(r) : v = w BY OneAtRun
    <3>5. \A v, w \in AtRun(r)' : v = w
      BY Absent DEF LifecycleInv, Knows, HoldsLocks, Busy, AtRun, RunSteps
    <3>6. AtRun(r) \subseteq Workers /\ AtRun(r)' \subseteq Workers BY DEF AtRun
    <3>7. \/ AtRun(r)' = AtRun(r)
          \/ AtRun(r) = {} /\ AtRun(r)' = {u}
          \/ AtRun(r) = {u} /\ AtRun(r)' = {}
      BY <3>3, <3>4, <3>5, <3>6, OneComesOrGoes
    <3> QED BY <3>7 DEF RunStage!Next, RunStage!Enter, RunStage!Leave
  <2> QED BY <2>1, <2>2
<1> QED BY <1>1, <1>2, LifecycleInvariant, PTL DEF Spec, RunStage!Spec

=============================================================================
