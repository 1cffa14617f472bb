---------------------------- MODULE TestGenerator ----------------------------
(***************************************************************************)
(* The agent that writes the questions of an audit: a plan of evidence     *)
(* slots, one question for every slot, and bounded rounds of repair until  *)
(* a reviewer has nothing to say.  A plan and a question are what a model  *)
(* returns, within the checks of the code; a review may find anything.     *)
(*                                                                         *)
(* A slot is an ability, a question type and the exact evidence; a         *)
(* question asked of one slot keeps them or is refused.  Of a text matters *)
(* whether the local quality gate rejects it, whether it has letters, and  *)
(* whether it equals another.  Quantity filling is not modelled, only when *)
(* it would begin; nor is the replacement of a single question.            *)
(***************************************************************************)
EXTENDS Integers, Sequences, FiniteSets, SequencesExt

CONSTANTS
  Abilities,  \* sequence: the abilities a question may test, in their order
  Slots,      \* evidence slots: their places in the inventory
  AbilityOf,  \* slot -> ability
  Texts,      \* what a model may ask
  Poor,       \* texts the quality gate rejects
  Blank,      \* a text without letters or digits
  Evidence,   \* sets of slots the confirmed memories may support
  Budgets,    \* requested numbers of questions
  MAX_COVERAGE_REPAIR_ROUNDS, MAX_SEMANTIC_REPAIR_ROUNDS

VARIABLES
  phase,
  request,  \* [policy, budget, available]: what the plan is made for
  quotas,   \* ability -> number of questions planned for it
  plan,     \* sequence of slots
  suite,    \* sequence of [id, slot, text]
  todo,     \* slots to write, or tests to replace, before the phase ends
  mend,     \* coverage repair: [round, gaps, additions, then]
  repairs   \* semantic_repair_rounds

vars == <<phase, request, quotas, plan, suite, todo, mend, repairs>>

Policies == {"strict_full_v1", "evidence_supported_only_v1"}
Idle == [round |-> 0, gaps |-> <<>>, additions |-> <<>>, then |-> "idle"]

ASSUME AbilityAssumption ==
  /\ Slots \subseteq Nat /\ IsFiniteSet(Slots) /\ Evidence \subseteq SUBSET Slots
  /\ Abilities \in Seq(STRING)
  /\ AbilityOf \in [Slots -> {Abilities[a] : a \in DOMAIN Abilities}]
  /\ \A a, b \in DOMAIN Abilities : Abilities[a] = Abilities[b] => a = b
ASSUME TextAssumption == Poor \subseteq Texts /\ Blank \in Texts \ Poor
ASSUME BoundAssumption ==
  /\ Budgets \subseteq Nat
  /\ MAX_COVERAGE_REPAIR_ROUNDS \in Nat \ {0} /\ MAX_SEMANTIC_REPAIR_ROUNDS \in Nat

-----------------------------------------------------------------------------
(* Planning                                                                    *)

Of(ability, slots) == {s \in slots : AbilityOf[s] = ability}
Dims == {Abilities[a] : a \in DOMAIN Abilities}
Strict == request.policy = "strict_full_v1"

Total(count) == Cardinality(UNION {{d} \X (1..count[d]) : d \in Dims})

\* Abilities with evidence for one more question.
Eligible == {d \in Dims : quotas[d] < Cardinality(Of(d, request.available))}

\* Mutant: the first ability with evidence left, not the least represented one.
LeastRepresented_First(eligible) ==
  Abilities[CHOOSE a \in DOMAIN Abilities :
    /\ Abilities[a] \in eligible
    /\ \A b \in 1..(a - 1) : Abilities[b] \notin eligible]

LeastRepresented(eligible) ==
  Abilities[CHOOSE a \in DOMAIN Abilities :
    /\ Abilities[a] \in eligible
    /\ \A b \in DOMAIN Abilities : Abilities[b] \in eligible =>
         \/ quotas[Abilities[a]] < quotas[Abilities[b]]
         \/ quotas[Abilities[a]] = quotas[Abilities[b]] /\ a <= b]

(* The gates before a model is asked for a plan.                               *)
Allocatable == Strict => request.budget >= Len(Abilities)

Plannable ==
  /\ \A d \in Dims : quotas[d] <= Cardinality(Of(d, request.available))
  /\ Total(quotas) # 0
  /\ Strict => Total(quotas) >= request.budget

(* The candidates listed to the planner: twice the quota of each ability.      *)
Inventory ==
  {s \in request.available :
     Cardinality({t \in Of(AbilityOf[s], request.available) : t < s}) < 2 * quotas[AbilityOf[s]]}

(* What passes the checks of the plan: distinct listed slots, as many under    *)
(* each ability as its quota.  That a slot listed under an ability is one of   *)
(* that ability is asked of the provider by a schema and not checked here.     *)
Plans ==
  {p \in [1..Total(quotas) -> Inventory] :
    \A i, j \in DOMAIN p : p[i] = p[j] => i = j}

-----------------------------------------------------------------------------
(* Suites                                                                      *)

\* The n-th of a set of places, and the elements of a sequence at such a set in
\* their order.  (As a concatenation TLC evaluates them once.)
Nth(places, n) == CHOOSE i \in places : Cardinality({j \in places : j <= i}) = n

At(s, places) == <<>> \o [n \in 1..Cardinality(places) |-> s[Nth(places, n)]]

Accepted(tests) == At(tests, {i \in DOMAIN tests : tests[i].text \notin Poor})

\* _coverage_gaps: the slots of a plan differ, so a question matches one at most.
Gaps(tests, slots) ==
  At(slots, {i \in DOMAIN slots : \A j \in DOMAIN tests : tests[j].slot # slots[i]})

\* The ids of questions whose exact wording came earlier.
Repeated(tests) ==
  {tests[i].id : i \in {i \in DOMAIN tests :
     tests[i].text # Blank /\ \E j \in 1..(i - 1) : tests[j].text = tests[i].text}}

(* _remove_exact_wording_duplicates: by id, and the rest are numbered anew.    *)
Renumbered(tests) == [i \in DOMAIN tests |-> [tests[i] EXCEPT !.id = i]]

WithoutRepeats(tests) ==
  Renumbered(At(tests, {i \in DOMAIN tests : tests[i].id \notin Repeated(tests)}))

\* Mutant: additions are compared with the suite, not with one another.
Fresh_Suite(tests, additions) ==
  At(additions, {i \in DOMAIN additions :
    /\ additions[i].text \notin Poor
    /\ \A j \in DOMAIN tests : tests[j].text # additions[i].text})

(* What one round of additions leaves: the gate, then the wording check.       *)
Fresh(tests, additions) ==
  At(additions, {i \in DOMAIN additions :
    /\ additions[i].text \notin Poor
    /\ \A j \in DOMAIN tests : tests[j].text # additions[i].text
    /\ \A j \in 1..(i - 1) : additions[j].text # additions[i].text})

LastOf(tests, id) ==
  CHOOSE i \in DOMAIN tests :
    tests[i].id = id /\ \A j \in DOMAIN tests : tests[j].id = id => j <= i

-----------------------------------------------------------------------------
Init ==
  /\ phase = "allocating"
  /\ \E p \in Policies, b \in Budgets, a \in Evidence :
       request = [policy |-> p, budget |-> b, available |-> a]
  /\ quotas = [d \in Dims |-> IF Strict THEN 1 ELSE 0]
  /\ plan = <<>> /\ suite = <<>> /\ todo = <<>> /\ mend = Idle /\ repairs = 0

(* An error leaves generate, and what it had is not saved.                     *)
Fail ==
  /\ phase' = "failed" /\ UNCHANGED <<request, quotas>>
  /\ plan' = <<>> /\ suite' = <<>> /\ todo' = <<>> /\ mend' = Idle /\ repairs' = 0

Gate ==
  /\ \/ phase = "allocating" /\ ~Allocatable
     \/ phase = "planning" /\ ~Plannable
  /\ Fail

(* _dimension_quotas: one more question at a time, where evidence is left.     *)
Allocate ==
  /\ phase = "allocating" /\ Allocatable
  /\ IF Total(quotas) < request.budget /\ Eligible # {}
     THEN /\ quotas' = [quotas EXCEPT ![LeastRepresented(Eligible)] = @ + 1]
          /\ UNCHANGED phase
     ELSE phase' = "planning" /\ UNCHANGED quotas
  /\ UNCHANGED <<request, plan, suite, todo, mend, repairs>>

Plan ==
  /\ phase = "planning" /\ Plannable
  /\ plan' \in Plans
  /\ phase' = "drafting" /\ todo' = plan'
  /\ UNCHANGED <<request, quotas, suite, mend, repairs>>

(* A call without a usable result ends the generation, but for a coverage      *)
(* repair: there it leaves its slot to the next round.                         *)
CallFails ==
  /\ \/ phase = "planning" /\ Plannable
     \/ phase \in {"drafting", "rewording"}
     \/ phase = "reviewing" /\ Len(suite) > 1
  /\ Fail

-----------------------------------------------------------------------------
(* Coverage: what is missing is written, then the suite goes on to the next    *)
(* phase; nothing missing, at once.                                            *)

Continue(next) ==
  /\ todo' = Gaps(suite', plan)
  /\ IF todo' = <<>> THEN phase' = next /\ mend' = Idle
     ELSE /\ phase' = "mending"
          /\ mend' = [round |-> 1, gaps |-> todo', additions |-> <<>>, then |-> next]

(* _generate_planned_slots: one request for every slot.                        *)
Draft(text) ==
  /\ phase = "drafting"
  /\ LET tests == Append(suite, [id |-> Len(suite) + 1, slot |-> Head(todo), text |-> text]) IN
     IF Len(todo) = 1 THEN suite' = Accepted(tests) /\ Continue("cleaning")
     ELSE suite' = tests /\ todo' = Tail(todo) /\ UNCHANGED <<phase, mend>>
  /\ UNCHANGED <<request, quotas, plan, repairs>>

(* The end of a round of _repair_coverage.                                     *)
EndRound(completed) ==
  IF \/ Len(completed) > request.budget
     \/ Gaps(completed, mend.gaps) # <<>> /\ mend.round = MAX_COVERAGE_REPAIR_ROUNDS
  THEN Fail
  ELSE /\ suite' = completed
       /\ todo' = Gaps(completed, mend.gaps)
       /\ IF todo' = <<>> THEN phase' = mend.then /\ mend' = Idle
          ELSE /\ mend' = [mend EXCEPT !.round = @ + 1, !.additions = <<>>]
               /\ UNCHANGED phase
       /\ UNCHANGED <<request, quotas, plan, repairs>>

(* One slot of a round; a call that fails adds nothing.                        *)
Mend(written) ==
  /\ phase = "mending"
  /\ \E additions \in {mend.additions \o written} :
       IF Len(todo) = 1 THEN \E added \in {Fresh(suite, additions)} : EndRound(suite \o added)
       ELSE /\ todo' = Tail(todo) /\ mend' = [mend EXCEPT !.additions = additions]
            /\ UNCHANGED <<phase, request, quotas, plan, suite, repairs>>

\* Numbered on from the suite before the checks drop some of the round.
Written(text) ==
  <<[id |-> Len(suite) + Len(mend.additions) + 1, slot |-> Head(todo), text |-> text]>>

\* Mutant: what the wording check removes is not missed.
Clean_Unchecked ==
  /\ phase = "cleaning"
  /\ suite' = WithoutRepeats(suite) /\ phase' = "reviewing"
  /\ UNCHANGED <<request, quotas, plan, todo, mend, repairs>>

(* Exact repeats go before the suite is reviewed, and their slots are written  *)
(* again.                                                                      *)
Clean ==
  /\ phase = "cleaning"
  /\ suite' = WithoutRepeats(suite) /\ Continue("reviewing")
  /\ UNCHANGED <<request, quotas, plan, repairs>>

-----------------------------------------------------------------------------
(* Review                                                                      *)

Ids == {suite[i].id : i \in DOMAIN suite}

\* Every connected group of duplicates keeps the test that comes first, so
\* whatever pairs a review returns, the first test of all is not replaced.
Later == {id \in Ids : \E other \in Ids : LastOf(suite, other) < LastOf(suite, id)}

\* Mutant: only the rounds that replace duplicates are counted.
Counted_Duplicates(duplicates) == IF duplicates = {} THEN repairs ELSE repairs + 1

Counted(duplicates) == repairs + 1

Asked(ids, every) == [i \in DOMAIN ids |-> [id |-> ids[i], every |-> every]]

(* What the reviewer finds: tests that repeat another, and other issues.       *)
(* Tests that share an id are duplicates together, each asking for a           *)
(* replacement; an issue of theirs asks for one.                               *)
ReviewFinds(duplicates, issues) ==
  LET ids == [i \in DOMAIN suite |-> suite[i].id] IN
  /\ phase' = "rewording" /\ repairs' = Counted(duplicates)
  /\ todo' = Asked(At(ids, {i \in DOMAIN ids : ids[i] \in duplicates}), FALSE)
               \o Asked(SetToSeq(issues), TRUE)
  /\ UNCHANGED <<request, quotas, plan, suite, mend>>

(* What it finds is replaced, unless that was done often enough.               *)
Review ==
  /\ phase = "reviewing" /\ Len(suite) > 1
  /\ IF repairs >= MAX_SEMANTIC_REPAIR_ROUNDS THEN Fail
     ELSE \E duplicates \in SUBSET Later :
            \E issues \in SUBSET (Ids \ duplicates) :
              duplicates \cup issues # {} /\ ReviewFinds(duplicates, issues)

(* _repair_duplicates replaces one test, _repair_test_quality every test with  *)
(* the id; the slot stays that of the last one.                                *)
Reworded(last, every, text) ==
  [i \in DOMAIN suite |->
     IF i = last \/ (every /\ suite[i].id = suite[last].id)
     THEN [suite[last] EXCEPT !.text = text] ELSE suite[i]]

Reword(text) ==
  /\ phase = "rewording"
  /\ todo' = Tail(todo)
  /\ \E last \in DOMAIN suite :
       /\ last = LastOf(suite, Head(todo).id)
       /\ IF todo' = <<>>
          THEN suite' = Accepted(Reworded(last, Head(todo).every, text)) /\ phase' = "cleaning"
          ELSE suite' = Reworded(last, Head(todo).every, text) /\ UNCHANGED phase
  /\ UNCHANGED <<request, quotas, plan, mend, repairs>>

Asking(ability, tests) == Cardinality({i \in DOMAIN tests : AbilityOf[tests[i].slot] = ability})

(* The last checks: wording, and each ability's quota of questions.            *)
Suitable(tests) ==
  /\ \A i \in DOMAIN tests : tests[i].text # Blank
  /\ \A i, j \in DOMAIN tests : tests[i].text = tests[j].text => i = j
  /\ \A d \in Dims : Asking(d, tests) >= quotas[d]

(* A review without findings, or a single question, which is not reviewed.     *)
ReviewIsClear ==
  /\ phase = "reviewing"
  /\ IF Len(suite) < Len(plan)
     THEN phase' = "filling" /\ UNCHANGED <<request, quotas, plan, suite, todo, mend, repairs>>
     ELSE IF Suitable(Accepted(suite))
     THEN /\ phase' = "completed" /\ suite' = Accepted(suite)
          /\ UNCHANGED <<request, quotas, plan, todo, mend, repairs>>
     ELSE Fail

-----------------------------------------------------------------------------
Next ==
  \/ Gate \/ Allocate \/ Plan \/ CallFails
  \/ \E text \in Texts : Draft(text) \/ Mend(Written(text)) \/ Reword(text)
  \/ Mend(<<>>)
  \/ Clean \/ Review \/ ReviewIsClear

Spec == Init /\ [][Next]_vars

(* The loop runs on in one thread; every call returns or times out.            *)
FairSpec == Spec /\ WF_vars(Next)

-----------------------------------------------------------------------------
(* Properties                                                                  *)

TypeOK ==
  /\ phase \in {"allocating", "planning", "drafting", "mending", "cleaning", "reviewing", "rewording",
                "filling", "completed", "failed"}
  /\ plan \in Seq(Slots)
  /\ \A i \in DOMAIN suite : suite[i].slot \in Slots /\ suite[i].text \in Texts /\ suite[i].id \in Nat
  /\ repairs \in 0..MAX_SEMANTIC_REPAIR_ROUNDS /\ mend.round \in 0..MAX_COVERAGE_REPAIR_ROUNDS

(* "Have a bounded Agent choose evidence slots; code remains the quota         *)
(* authority" (agent.py:479): refuted, see the README.                         *)
PlanMeetsQuotas ==
  \A d \in Dims : plan # <<>> =>
    Cardinality({i \in DOMAIN plan : AbilityOf[plan[i]] = d}) = quotas[d]

(* generate: when the repairs are done a question stands for every slot of the *)
(* plan and no more than were requested, however ids collided on the way, so   *)
(* there never is anything to fill; a plan as long as the request is asked     *)
(* slot by slot, each once.                                                    *)
NothingToFill ==
  phase \in {"reviewing", "filling", "completed"} =>
    /\ phase # "filling"
    /\ Gaps(suite, plan) = <<>> /\ Len(suite) <= request.budget
    /\ \A i, j \in DOMAIN suite :
         Len(plan) = request.budget /\ suite[i].slot = suite[j].slot => i = j

(* "Do not add a question whose intent is already covered by another slot"     *)
(* (agent.py:469): refuted, where a plan is shorter than the request, see the  *)
(* README.                                                                     *)
EverySlotOnce ==
  phase = "completed" =>
    \A i, j \in DOMAIN suite : suite[i].slot = suite[j].slot => i = j

(* A suite that is completed uses up the budget or the evidence, has no ability*)
(* with two questions more than another that could have one more, repeats no   *)
(* wording, and has no question the quality gate rejects and none without      *)
(* letters.                                                                    *)
Balanced(count) ==
  LET Left(d) == Cardinality(Of(d, request.available)) - count[d] IN
  /\ Total(count) <= request.budget
  /\ Total(count) < request.budget =>
       ~Strict /\ \A d \in Dims : Left(d) <= 0
  /\ \A d, e \in Dims : Left(e) > 0 => count[d] <= count[e] + 1

CompletedIsSound ==
  phase = "completed" =>
    /\ Balanced([d \in Dims |-> Asking(d, suite)])
    /\ \A i \in DOMAIN suite :
         /\ suite[i].text \notin Poor \cup {Blank}
         /\ \A j \in DOMAIN suite : suite[i].text = suite[j].text => i = j

(* The last checks refuse nothing that was planned by the quotas, repaired and *)
(* reviewed, but for a question without letters, which no check before them    *)
(* looks for.                                                                  *)
LastChecksAreIdle ==
  phase = "reviewing" /\ PlanMeetsQuotas => Accepted(suite) = suite
    /\ (Suitable(suite) \/ \E i \in DOMAIN suite : suite[i].text = Blank)

(* Every generation ends.                                                      *)
GenerationEnds == <>(phase \in {"completed", "failed"})

=============================================================================
