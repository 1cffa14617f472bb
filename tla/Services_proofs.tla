---------------------------- MODULE Services_proofs ----------------------------
(* Proofs about the two services an audit's routes rely on: AuditExecution, for  *)
(* every set of tests, saved snapshot and failure on the way, and StageLock, for *)
(* every set of claims and timing.  The two share nothing but this module.       *)
EXTENDS AuditExecution, StageLock, TLAPS

(******************************************************************************)
(* AuditExecution.                                                            *)

\* What resume knows while it is inside a stage: the snapshot is neither staged nor
\* complete, generation starts from nothing, a stage's pending tests are those it
\* has not handled, and evaluation starts with all responses there.
StageIsNeeded ==
  /\ stage # "none" => ~staged
  /\ stage \in Stages => status # "COMPLETED"
  /\ stage = "generate_tests" => tests = {}
  /\ stage = "execute_tests" => pending = tests \ responses
  /\ stage = "evaluate_responses" => responses = tests /\ pending = tests \ evaluations

\* A collaborator's result is in the snapshot as soon as it was given.
ResultsAreKept ==
  \A t \in Tests :
    /\ executed[t] <= 1 /\ (executed[t] = 1 => t \in responses)
    /\ judged[t] <= 1 /\ (judged[t] = 1 => t \in evaluations)

ExecutionInv == TypeOK /\ StageIsNeeded /\ ResultsAreKept

----------------------------------------------------------------------------
\* A loaded snapshot satisfies the invariant: nothing has been called yet.
LEMMA InitInv == Init => ExecutionInv
  BY DEF Init, ExecutionInv, TypeOK, StageIsNeeded, ResultsAreKept, Status, Stages

\* The head of the loop chooses a stage that is needed.
LEMMA PlanInv == ExecutionInv /\ Plan => ExecutionInv'
<1> SUFFICES ASSUME ExecutionInv, Plan PROVE ExecutionInv'
  OBVIOUS
<1> USE DEF ExecutionInv, TypeOK, Status, Stages
<1>1. NextStage \in Stages \cup {"none"}
  BY DEF NextStage
<1>2. Pending(NextStage) \subseteq tests
  BY <1>1 DEF Pending
<1>3. TypeOK'
  BY <1>1, <1>2 DEF Plan
<1>4. StageIsNeeded'
  <2>1. NextStage # "none" => status # "COMPLETED"
    BY DEF NextStage
  <2>2. NextStage = "generate_tests" => tests = {}
    BY DEF NextStage, GenerationDone
  <2>3. NextStage = "execute_tests" => Pending(NextStage) = tests \ responses
    BY DEF Pending
  <2>4. NextStage = "evaluate_responses" => responses = tests /\ Pending(NextStage) = tests \ evaluations
    BY DEF NextStage, Pending
  <2> QED BY <2>1, <2>2, <2>3, <2>4 DEF Plan, StageIsNeeded
<1>5. ResultsAreKept'
  BY DEF Plan, ResultsAreKept
<1> QED BY <1>3, <1>4, <1>5

\* One response of the connector: the test had none, and it has one now.
LEMMA ExecuteInv == ASSUME NEW t \in Tests PROVE ExecutionInv /\ ExecuteTest(t) => ExecutionInv'
<1> SUFFICES ASSUME ExecutionInv, ExecuteTest(t) PROVE ExecutionInv'
  OBVIOUS
<1> USE DEF ExecutionInv, ExecuteTest
<1>1. t \in tests /\ t \notin responses
  BY DEF StageIsNeeded
<1>2. executed[t] = 0
  BY <1>1 DEF ResultsAreKept, TypeOK
<1>3. TypeOK'
  BY <1>1 DEF TypeOK, Stages, Status
<1>4. StageIsNeeded'
  BY <1>1 DEF StageIsNeeded, Stages
<1>5. ResultsAreKept'
  BY <1>2 DEF ResultsAreKept, TypeOK
<1> QED BY <1>3, <1>4, <1>5

\* One evaluation of the evaluator, likewise.
LEMMA EvaluateInv == ASSUME NEW t \in Tests PROVE ExecutionInv /\ EvaluateResponse(t) => ExecutionInv'
<1> SUFFICES ASSUME ExecutionInv, EvaluateResponse(t) PROVE ExecutionInv'
  OBVIOUS
<1> USE DEF ExecutionInv, EvaluateResponse
<1>1. t \in responses /\ t \notin evaluations
  BY DEF StageIsNeeded
<1>2. judged[t] = 0
  BY <1>1 DEF ResultsAreKept, TypeOK
<1>3. TypeOK'
  BY <1>1 DEF TypeOK, Stages, Status
<1>4. StageIsNeeded'
  BY <1>1 DEF StageIsNeeded, Stages
<1>5. ResultsAreKept'
  BY <1>2 DEF ResultsAreKept, TypeOK
<1> QED BY <1>3, <1>4, <1>5

\* Every step of the service, and every failure in it, keeps the invariant.
LEMMA NextInv == ExecutionInv /\ [Next]_vars => ExecutionInv'
<1> SUFFICES ASSUME ExecutionInv, [Next]_vars PROVE ExecutionInv'
  OBVIOUS
<1> USE DEF ExecutionInv
<1>1. CASE Resume
  BY <1>1 DEF Resume, snapshot, TypeOK, StageIsNeeded, ResultsAreKept, Stages
<1>2. CASE Plan
  BY <1>2, PlanInv
<1>3. ASSUME NEW generated \in SUBSET Tests, GenerateTests(generated) PROVE ExecutionInv'
  <2>1. TypeOK'
    BY <1>3 DEF GenerateTests, Finish, TypeOK, Status, Stages
  <2>2. StageIsNeeded'
    BY <1>3 DEF GenerateTests, Finish, StageIsNeeded, Stages
  <2>3. ResultsAreKept'
    BY <1>3 DEF GenerateTests, ResultsAreKept
  <2> QED BY <2>1, <2>2, <2>3
<1>4. CASE \E t \in Tests : ExecuteTest(t)
  BY <1>4, ExecuteInv
<1>5. CASE FinishExecution
  BY <1>5 DEF FinishExecution, Finish, TypeOK, StageIsNeeded, ResultsAreKept, Status, Stages
<1>6. CASE \E t \in Tests : EvaluateResponse(t)
  BY <1>6, EvaluateInv
<1>7. CASE FinishEvaluation
  BY <1>7 DEF FinishEvaluation, Finish, TypeOK, StageIsNeeded, ResultsAreKept, Stages
<1>8. CASE Fail
  BY <1>8 DEF Fail, TypeOK, StageIsNeeded, ResultsAreKept, Status, Stages
<1>9. CASE UNCHANGED vars
  BY <1>9 DEF vars, TypeOK, StageIsNeeded, ResultsAreKept
<1> QED BY <1>1, <1>2, <1>3, <1>4, <1>5, <1>6, <1>7, <1>8, <1>9 DEF Next, Serve

\* The inductive invariant of the service.
THEOREM ExecutionInvariant == Spec => []ExecutionInv
  BY InitInv, NextInv, PTL DEF Spec

\* The parts of a snapshot stay consistent: responses belong to tests, evaluations
\* to responses.
THEOREM TypeCorrect == Spec => []TypeOK
<1>1. ExecutionInv => TypeOK
  BY DEF ExecutionInv
<1> QED BY <1>1, ExecutionInvariant, PTL

\* No response is asked for twice and no response is judged twice, however often
\* the audit fails and is resumed.
THEOREM NothingIsRepeated == Spec => []NothingRepeated
<1>1. ExecutionInv => NothingRepeated
  BY DEF ExecutionInv, ResultsAreKept, NothingRepeated
<1> QED BY <1>1, ExecutionInvariant, PTL

----------------------------------------------------------------------------
(* Completion, for audits that were not cancelled. *)

CompletionInv == ExecutionInv /\ CompleteHasEverything /\ status # "CANCELLED"

\* A complete snapshot was saved with everything.
LEMMA InitCompletion == ~WithCancelled /\ Init => CompletionInv
  BY InitInv DEF Init, CompletionInv, CompleteHasEverything

\* Only an empty plan completes an audit, and it is empty when nothing is missing.
LEMMA NextCompletion == CompletionInv /\ [Next]_vars => CompletionInv'
<1> SUFFICES ASSUME CompletionInv, [Next]_vars PROVE CompleteHasEverything' /\ status' # "CANCELLED"
  BY NextInv DEF CompletionInv
<1> USE DEF CompletionInv, CompleteHasEverything
<1>1. CASE Plan
  <2>1. stage = "resume" /\ ~staged
    BY <1>1 DEF Plan, ExecutionInv, StageIsNeeded
  <2>2. NextStage = "none" => responses = tests /\ evaluations = tests
    BY <2>1 DEF NextStage, ExecutionInv, TypeOK
  <2> QED BY <1>1, <2>2 DEF Plan
<1>2. CASE Resume \/ FinishEvaluation \/ UNCHANGED vars
  BY <1>2 DEF Resume, FinishEvaluation, snapshot, vars
<1>3. CASE FinishExecution \/ Fail \/ \E generated \in SUBSET Tests : GenerateTests(generated)
  BY <1>3 DEF FinishExecution, Fail, GenerateTests
<1>4. CASE \E t \in Tests : ExecuteTest(t) \/ EvaluateResponse(t)
  BY <1>4 DEF ExecuteTest, EvaluateResponse, ExecutionInv, StageIsNeeded, Stages
<1> QED BY <1>1, <1>2, <1>3, <1>4 DEF Next, Serve

\* An audit that was not cancelled is complete only when each of its tests has a
\* response and an evaluation.
THEOREM CompleteAuditsAreWhole == ASSUME ~WithCancelled PROVE Spec => []CompleteHasEverything
<1>1. Init => CompletionInv
  BY InitCompletion
<1>2. CompletionInv => CompleteHasEverything
  BY DEF CompletionInv
<1> QED BY <1>1, <1>2, NextCompletion, PTL DEF Spec

\* A staged research audit passes through the service untouched.
THEOREM StagedStaysInert == Spec => StagedIsInert
<1>1. ExecutionInv /\ [Next]_vars => [staged => UNCHANGED <<snapshot, executed, judged>>]_vars
  <2> SUFFICES ASSUME ExecutionInv, Next, staged PROVE FALSE
    OBVIOUS
  <2>1. stage = "none"
    BY DEF ExecutionInv, StageIsNeeded
  <2> QED BY <2>1 DEF Next, Serve, Resume, Plan, FinishExecution, FinishEvaluation, GenerateTests,
                      ExecuteTest, EvaluateResponse, Fail, Stages
<1> QED BY <1>1, ExecutionInvariant, PTL DEF Spec, StagedIsInert

----------------------------------------------------------------------------
(* A failed audit can be resumed. *)

\* Generation is run only when it is not done, and a failed audit that was
\* returned has a stage left.
FailureInv ==
  /\ ExecutionInv
  /\ stage = "generate_tests" => ~GenerationDone
  /\ status = "FAILED" /\ ~staged /\ stage = "none" => NextStage # "none"

\* A failed snapshot was saved by a stage that had not finished.
LEMMA InitFailure == Init => FailureInv
  BY InitInv DEF Init, FailureInv, NextStage, GenerationDone

\* A stage fails only while it has something to do, and leaves it to be done.
LEMMA FailLeavesWork == FailureInv /\ Fail => NextStage' # "none"
<1> SUFFICES ASSUME FailureInv, Fail PROVE NextStage' # "none"
  OBVIOUS
<1>1. ~staged /\ pending \subseteq tests
  BY DEF FailureInv, ExecutionInv, TypeOK, StageIsNeeded, Fail, Stages
<1>2. CASE stage = "generate_tests"
  <2>1. ~GenerationDone'
    BY <1>2 DEF Fail, FailureInv, GenerationDone
  <2> QED BY <1>1, <2>1 DEF Fail, NextStage
<1>3. CASE stage = "execute_tests"
  <2>1. pending # {} /\ pending = tests \ responses
    BY <1>3 DEF Fail, FailureInv, ExecutionInv, StageIsNeeded
  <2> QED BY <1>1, <2>1 DEF Fail, NextStage, GenerationDone
<1>4. CASE stage = "evaluate_responses"
  <2>1. pending # {} /\ responses = tests /\ pending = tests \ evaluations
    BY <1>4 DEF Fail, FailureInv, ExecutionInv, StageIsNeeded
  <2> QED BY <1>1, <2>1 DEF Fail, NextStage, GenerationDone
<1> QED BY <1>2, <1>3, <1>4 DEF Fail, Stages

\* Every step keeps a failed audit resumable.
LEMMA NextFailure == FailureInv /\ [Next]_vars => FailureInv'
<1> SUFFICES ASSUME FailureInv, [Next]_vars
             PROVE  /\ stage' = "generate_tests" => ~GenerationDone'
                    /\ status' = "FAILED" /\ ~staged' /\ stage' = "none" => NextStage' # "none"
  BY NextInv DEF FailureInv
<1>1. CASE Plan
  BY <1>1 DEF Plan, NextStage, GenerationDone
<1>2. CASE Fail
  BY <1>2, FailLeavesWork DEF Fail
<1>3. CASE Resume \/ FinishEvaluation \/ FinishExecution \/ \E generated \in SUBSET Tests : GenerateTests(generated)
  BY <1>3 DEF Resume, FinishEvaluation, FinishExecution, GenerateTests, Finish
<1>4. CASE \E t \in Tests : ExecuteTest(t) \/ EvaluateResponse(t)
  BY <1>4 DEF ExecuteTest, EvaluateResponse
<1>5. CASE UNCHANGED vars
  BY <1>5 DEF vars, FailureInv, NextStage, GenerationDone
<1> QED BY <1>1, <1>2, <1>3, <1>4, <1>5 DEF Next, Serve

\* A failed audit has a stage to resume, and every result it was given.
THEOREM FailedAuditsResume == Spec => []FailedIsResumable
<1>1. FailureInv => FailedIsResumable
  BY DEF FailureInv, ExecutionInv, TypeOK, ResultsAreKept, FailedIsResumable
<1> QED BY <1>1, InitFailure, NextFailure, PTL DEF Spec

(******************************************************************************)
(* StageLock: who may be in the protected stage when renewals come in time,   *)
(* and what keeps holding when they do not.                                   *)

\* The row of a punctual holder is alive, and will be for as long as the holder's
\* renewal may be overdue.
HolderIsCovered ==
  \A c \in Claims : Punctual(c) /\ state[c] = "held" =>
    owner = c /\ beat[c] = "on" /\ left >= Lease - Delay - since[c]

LeaseInv == LeaseTypeOK /\ HolderIsCovered

----------------------------------------------------------------------------
(* Type correctness needs no assumption on the timing. *)

\* The empty table has the declared types.
LEMMA LeaseInitType == LeaseInit => LeaseTypeOK
  BY TokenAssumption, TimeAssumption DEF LeaseInit, LeaseTypeOK, States, Beats

\* Every transaction, crash and tick keeps the types, the lease time included.
LEMMA LeaseNextType == LeaseTypeOK /\ [LeaseNext]_leaseVars => LeaseTypeOK'
<1> SUFFICES ASSUME LeaseTypeOK, [LeaseNext]_leaseVars PROVE LeaseTypeOK'
  OBVIOUS
<1> USE TokenAssumption, TimeAssumption DEF LeaseTypeOK, States, Beats
<1>1. ASSUME NEW c \in Claims, NEW lag \in 0..Delay, Claim(c, lag)
      PROVE  LeaseTypeOK'
  BY <1>1 DEF Claim
<1>2. ASSUME NEW c \in Claims, NEW lag \in 0..Delay, Refuse(c, lag)
      PROVE  LeaseTypeOK'
  BY <1>2 DEF Refuse
<1>3. ASSUME NEW c \in Claims, NEW lag \in 0..Delay, Renew(c, lag)
      PROVE  LeaseTypeOK'
  <2>1. left' \in -Delay..Lease
    BY <1>3 DEF Renew
  <2>2. beat' \in [Claims -> Beats]
    BY <1>3 DEF Renew
  <2>3. since' \in [Claims -> Nat] /\ \A d \in Claims : since'[d] <= Stall[d]
    BY <1>3 DEF Renew
  <2> QED BY <1>3, <2>1, <2>2, <2>3 DEF Renew
<1>4. ASSUME NEW c \in Claims, Forget(c)
      PROVE  LeaseTypeOK'
  BY <1>4 DEF Forget
<1>5. ASSUME NEW c \in Claims, Release(c)
      PROVE  LeaseTypeOK'
  <2>1. owner' \in Claims \cup {NoClaim}
    BY <1>5 DEF Release, Released
  <2>2. beat' \in [Claims -> Beats]
    BY <1>5 DEF Release
  <2> QED BY <1>5, <2>1, <2>2 DEF Release
<1>6. ASSUME NEW c \in Claims, Crash(c)
      PROVE  LeaseTypeOK'
  BY <1>6 DEF Crash
<1>7. CASE Tick
  <2>1. left' \in -Delay..Lease
    BY <1>7 DEF Tick
  <2>2. since' \in [Claims -> Nat] /\ \A d \in Claims : since'[d] <= Stall[d]
    BY <1>7 DEF Tick
  <2> QED BY <1>7, <2>1, <2>2 DEF Tick
<1>8. CASE UNCHANGED leaseVars
  BY <1>8 DEF leaseVars
<1> QED BY <1>1, <1>2, <1>3, <1>4, <1>5, <1>6, <1>7, <1>8 DEF LeaseNext

\* The row, the claims and the heartbeats hold values of their types.
THEOREM LeaseTypeCorrect == LeaseSpec => []LeaseTypeOK
  BY LeaseInitType, LeaseNextType, PTL DEF LeaseSpec

----------------------------------------------------------------------------
(* A holder whose renewals come in time owns the row. *)

\* The lease of a punctual holder cannot be found expired, whatever clock reading is compared.
LEMMA HolderIsNotExpired ==
  ASSUME LeaseInv, NEW c \in Claims, Punctual(c), state[c] = "held", NEW lag \in 0..Delay
  PROVE  owner = c /\ left > 0 /\ ~Expired(lag)
  BY TimeAssumption DEF LeaseInv, HolderIsCovered, LeaseTypeOK, Expired, Punctual

\* Nobody holds the stage in the empty table.
LEMMA InitCovered == LeaseInit => HolderIsCovered
  BY DEF LeaseInit, HolderIsCovered

\* No step takes the row from a punctual holder, stops its heartbeat or outruns its lease.
LEMMA NextCovered == LeaseInv /\ [LeaseNext]_leaseVars => HolderIsCovered'
<1> SUFFICES ASSUME LeaseInv, [LeaseNext]_leaseVars, NEW d \in Claims, Punctual(d), state'[d] = "held"
             PROVE  owner' = d /\ beat'[d] = "on" /\ left' >= Lease - Delay - since'[d]
  BY DEF HolderIsCovered, Punctual
<1>0. LeaseTypeOK /\ HolderIsCovered
  BY DEF LeaseInv
<1> USE TokenAssumption, TimeAssumption
<1>1. ASSUME NEW c \in Claims, NEW lag \in 0..Delay, Claim(c, lag)
      PROVE  owner' = d /\ beat'[d] = "on" /\ left' >= Lease - Delay - since'[d]
  <2>1. d = c
    BY <1>0, <1>1, HolderIsNotExpired DEF Claim, LeaseTypeOK
  <2> QED BY <1>0, <1>1, <2>1 DEF Claim, LeaseTypeOK
<1>2. ASSUME NEW c \in Claims, NEW lag \in 0..Delay, Refuse(c, lag)
      PROVE  owner' = d /\ beat'[d] = "on" /\ left' >= Lease - Delay - since'[d]
  BY <1>0, <1>2 DEF Refuse, LeaseTypeOK, HolderIsCovered
<1>3. ASSUME NEW c \in Claims, NEW lag \in 0..Delay, Renew(c, lag)
      PROVE  owner' = d /\ beat'[d] = "on" /\ left' >= Lease - Delay - since'[d]
  <2>1. state[d] = "held" /\ owner = d /\ beat[d] = "on" /\ left >= Lease - Delay - since[d]
    BY <1>0, <1>3 DEF Renew, HolderIsCovered
  <2>2. CASE c = d
    BY <1>0, <1>3, <2>1, <2>2 DEF Renew, LeaseTypeOK
  <2>3. CASE c # d
    BY <1>0, <1>3, <2>1, <2>3 DEF Renew, LeaseTypeOK
  <2> QED BY <2>2, <2>3
<1>4. ASSUME NEW c \in Claims, Forget(c)
      PROVE  owner' = d /\ beat'[d] = "on" /\ left' >= Lease - Delay - since'[d]
  BY <1>0, <1>4 DEF Forget, LeaseTypeOK, HolderIsCovered
<1>5. ASSUME NEW c \in Claims, Release(c)
      PROVE  owner' = d /\ beat'[d] = "on" /\ left' >= Lease - Delay - since'[d]
  <2>1. d # c /\ state[d] = "held"
    BY <1>0, <1>5 DEF Release, LeaseTypeOK
  <2>2. owner' = d
    BY <1>0, <1>5, <2>1 DEF Release, Released, HolderIsCovered
  <2> QED BY <1>0, <1>5, <2>1, <2>2 DEF Release, LeaseTypeOK, HolderIsCovered
<1>6. ASSUME NEW c \in Claims, Crash(c)
      PROVE  owner' = d /\ beat'[d] = "on" /\ left' >= Lease - Delay - since'[d]
  BY <1>0, <1>6 DEF Crash, LeaseTypeOK, HolderIsCovered
<1>7. CASE Tick
  <2>1. state[d] = "held" /\ owner = d /\ beat[d] = "on" /\ left >= Lease - Delay - since[d]
    BY <1>0, <1>7 DEF Tick, HolderIsCovered
  <2>2. left > 0
    BY <1>0, <2>1, HolderIsNotExpired
  <2> QED BY <1>0, <1>7, <2>1, <2>2 DEF Tick, LeaseTypeOK
<1>8. CASE UNCHANGED leaseVars
  BY <1>0, <1>8 DEF leaseVars, HolderIsCovered
<1> QED BY <1>1, <1>2, <1>3, <1>4, <1>5, <1>6, <1>7, <1>8 DEF LeaseNext

\* A stage whose heartbeats come in time is never robbed of its row, so no second
\* request runs that stage of that audit meanwhile.
THEOREM HolderKeepsRow == LeaseSpec => []PunctualHolderKeepsRow
<1>1. LeaseInit => LeaseInv
  BY LeaseInitType, InitCovered DEF LeaseInv
<1>2. LeaseInv /\ [LeaseNext]_leaseVars => LeaseInv'
  BY LeaseNextType, NextCovered DEF LeaseInv
<1>3. LeaseInv => PunctualHolderKeepsRow
  BY DEF LeaseInv, HolderIsCovered, PunctualHolderKeepsRow
<1> QED BY <1>1, <1>2, <1>3, PTL DEF LeaseSpec

----------------------------------------------------------------------------
(* Those who renew in time exclude one another. *)

Inside == {c \in Claims : Punctual(c) /\ state[c] = "held"}

\* Two of them are never inside: each would own the row.
LEMMA OneInside == ASSUME LeaseInv, NEW c \in Inside PROVE Inside = {c}
  BY DEF LeaseInv, HolderIsCovered, Inside

\* Who claims the row finds it free or expired, which the row of one inside is not.
LEMMA ClaimFindsNobody ==
  ASSUME LeaseInv, NEW c \in Claims, NEW lag \in 0..Delay, Claim(c, lag)
  PROVE  Inside = {}
<1> SUFFICES ASSUME NEW d \in Inside PROVE FALSE
  OBVIOUS
<1>1. d \in Claims /\ Punctual(d) /\ state[d] = "held"
  BY DEF Inside
<1>2. owner = d /\ ~Expired(lag)
  BY <1>1, HolderIsNotExpired
<1> QED BY <1>1, <1>2, TokenAssumption DEF Claim

\* What one step does to the protected stage.
LEMMA StepVisits ==
  ASSUME LeaseInv, [LeaseNext]_leaseVars
  PROVE  \/ Inside' = Inside
         \/ \E c \in Claims : Punctual(c) /\ ((Inside = {} /\ Inside' = {c}) \/ (Inside = {c} /\ Inside' = {}))
<1> DEFINE Visit(c) == (Inside = {} /\ Inside' = {c}) \/ (Inside = {c} /\ Inside' = {})
<1>0. state \in [Claims -> States]
  BY DEF LeaseInv, LeaseTypeOK
<1>1. ASSUME NEW c \in Claims, NEW lag \in 0..Delay, Claim(c, lag)
      PROVE  Inside' = Inside \/ (Punctual(c) /\ Visit(c))
  <2>1. Inside = {}
    BY <1>1, ClaimFindsNobody
  <2>2. Inside' = {d \in {c} : Punctual(d)}
    BY <1>0, <1>1, <2>1 DEF Claim, Inside, Punctual
  <2> QED BY <2>1, <2>2
<1>2. ASSUME NEW c \in Claims, Release(c) \/ Crash(c)
      PROVE  Inside' = Inside \/ (Punctual(c) /\ Visit(c))
  <2>1. Inside' = Inside \ {c}
    BY <1>0, <1>2 DEF Release, Crash, Inside, Punctual
  <2>2. CASE c \in Inside
    <3>1. Inside = {c}
      BY <2>2, OneInside
    <3> QED BY <2>1, <2>2, <3>1 DEF Inside
  <2>3. CASE c \notin Inside
    BY <2>1, <2>3
  <2> QED BY <2>2, <2>3
<1>3. ASSUME NEW c \in Claims, Forget(c) \/ \E lag \in 0..Delay : Refuse(c, lag) \/ Renew(c, lag)
      PROVE  Inside' = Inside
  BY <1>0, <1>3 DEF Forget, Refuse, Renew, Fresh, Inside, Punctual
<1>4. CASE Tick \/ UNCHANGED leaseVars
  BY <1>4 DEF Tick, leaseVars, Inside, Punctual
<1> QED BY <1>1, <1>2, <1>3, <1>4 DEF LeaseNext

\* Of the claims that renew in time one at a time is in the protected stage, which
\* it enters only when no other is there.
THEOREM LeaseIsSection == LeaseSpec => ImplementsOneAtATime
<1>1. LeaseInit => LeaseInv
  BY LeaseInitType, InitCovered DEF LeaseInv
<1>2. LeaseInv /\ [LeaseNext]_leaseVars => LeaseInv'
  BY LeaseNextType, NextCovered DEF LeaseInv
<1>3. LeaseInit => Section!Init
  BY DEF LeaseInit, Section!Init
<1>4. LeaseInv /\ [LeaseNext]_leaseVars => [Section!Next]_({c \in Claims : Punctual(c) /\ state[c] = "held"})
  <2> SUFFICES ASSUME LeaseInv, [LeaseNext]_leaseVars
               PROVE  [Section!Next]_({c \in Claims : Punctual(c) /\ state[c] = "held"})
    OBVIOUS
  <2> QED BY StepVisits DEF Section!Next, Section!Enter, Section!Leave, Inside
<1> QED BY <1>1, <1>2, <1>3, <1>4, PTL DEF LeaseSpec, ImplementsOneAtATime, Section!Spec

----------------------------------------------------------------------------
(* However late the renewals are. *)

\* What one step may do to the row of an owner.
LEMMA StepTakesOnlyExpired ==
  ASSUME LeaseTypeOK, [LeaseNext]_leaseVars, NEW c \in Claims, owner = c, owner' # c
  PROVE  left <= 0 \/ (state[c] = "held" /\ state'[c] = "free")
<1> USE TokenAssumption, TimeAssumption DEF LeaseTypeOK
<1>1. CASE \E d \in Claims, lag \in 0..Delay : Claim(d, lag)
  BY <1>1 DEF Claim, Expired
<1>2. CASE \E d \in Claims : Release(d)
  BY <1>2 DEF Release, Released
<1>3. CASE UNCHANGED owner
  BY <1>3
<1> QED
  BY <1>1, <1>2, <1>3 DEF LeaseNext, leaseVars, Refuse, Renew, Forget, Crash, Tick

\* A row changes hands only by its owner's release or when its lease is over.
THEOREM LiveLeaseIsKept == LeaseSpec => TakenOverOnlyExpired
<1>1. LeaseTypeOK /\ [LeaseNext]_leaseVars =>
        [\A c \in Claims : owner = c /\ owner' # c => left <= 0 \/ (state[c] = "held" /\ state'[c] = "free")]_leaseVars
  BY StepTakesOnlyExpired
<1> QED BY <1>1, LeaseTypeCorrect, PTL DEF LeaseSpec, TakenOverOnlyExpired

\* What one step may do for a claim that does not own the row.
LEMMA StepGivesNothingBack ==
  ASSUME [LeaseNext]_leaseVars, NEW c \in Claims, owner # c, ~Fresh(c)
  PROVE  owner' # c
<1> USE TokenAssumption
<1>1. CASE \E d \in Claims, lag \in 0..Delay : Claim(d, lag)
  BY <1>1 DEF Claim
<1>2. CASE \E d \in Claims : Release(d)
  BY <1>2 DEF Release, Released
<1>3. CASE UNCHANGED owner
  BY <1>3
<1> QED
  BY <1>1, <1>2, <1>3 DEF LeaseNext, leaseVars, Refuse, Renew, Forget, Crash, Tick

\* A claim that lost the row never gets it back through a late heartbeat or a late
\* release, so the next owner keeps its own lease.
THEOREM LostLeaseIsLost == LeaseSpec => NeverBack
<1>1. [LeaseNext]_leaseVars => [\A c \in Claims : owner # c /\ ~Fresh(c) => owner' # c]_leaseVars
  BY StepGivesNothingBack
<1> QED BY <1>1, PTL DEF LeaseSpec, NeverBack

================================================================================
