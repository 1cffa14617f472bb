------------------------- MODULE TestGenerator_proofs -------------------------
(* Proofs about TestGenerator, for any abilities and finite set of slots, any *)
(* texts, evidence, requests and numbers of rounds, and whatever the models   *)
(* return.  First selections from sequences and the counting of questions,    *)
(* then the invariant, and last the properties.                               *)
EXTENDS TestGenerator, FiniteSetTheorems, SequenceTheorems, TLAPS

Question == [id : Nat, slot : Slots, text : Texts]
Demand == [id : Nat, every : BOOLEAN]

\* The questions of a count: the n-th of each ability, up to its number.
Pairs(count) == UNION {{d} \X (1..count[d]) : d \in Dims}

Covered(tests) == \A i \in DOMAIN plan : \E j \in DOMAIN tests : tests[j].slot = plan[i]
Kept(tests) == \A i \in DOMAIN tests : tests[i].text \notin Poor
Varied(tests) ==
  \A i, j \in DOMAIN tests : tests[i].text = tests[j].text => i = j \/ tests[i].text = Blank

Early == {"allocating", "planning"}
Judged == {"reviewing", "completed"}
Drafted == {"mending", "cleaning", "rewording"} \cup Judged
Phases == Early \cup {"drafting", "failed"} \cup Drafted

GeneratorType ==
  /\ phase \in Phases
  /\ request \in [policy : Policies, budget : Nat, available : SUBSET Slots]
  /\ quotas \in [Dims -> Nat]
  /\ plan \in Seq(Slots) /\ suite \in Seq(Question)
  /\ mend \in [round : 0..MAX_COVERAGE_REPAIR_ROUNDS, gaps : Seq(Slots),
               additions : Seq(Question), then : {"idle", "cleaning", "reviewing"}]
  /\ repairs \in 0..MAX_SEMANTIC_REPAIR_ROUNDS

\* What is left to do fits the phase.
TodoOK ==
  /\ phase \in {"drafting", "mending"} => todo \in Seq(Slots) /\ todo # <<>>
  /\ phase = "rewording" =>
       /\ todo \in Seq(Demand) /\ todo # <<>>
       /\ \A i \in DOMAIN todo : todo[i].id \in Ids

\* Quotas are within the request, even, and given out while there is evidence.
QuotasOK ==
  /\ IsFiniteSet(Pairs(quotas))
  /\ Allocatable => Total(quotas) <= request.budget
  /\ \A d, e \in Dims :
       quotas[e] < Cardinality(Of(e, request.available)) => quotas[d] <= quotas[e] + 1
  /\ phase \notin {"allocating", "failed"} =>
       Allocatable /\ (Total(quotas) >= request.budget \/ Eligible = {})
  /\ phase \notin Early \cup {"failed"} => Plannable

\* A plan has the slots its quotas ask for, each once.
PlanOK ==
  phase \notin Early \cup {"failed"} =>
    /\ Len(plan) = Total(quotas) /\ plan # <<>>
    /\ \A i, j \in DOMAIN plan : plan[i] = plan[j] => i = j

\* A slot of the plan is asked, or is still to be written.
SuiteOK ==
  /\ phase \in Early => suite = <<>>
  /\ phase = "drafting" => Len(suite) + Len(todo) = Len(plan)
  /\ phase \in Drafted => Len(suite) <= request.budget
  /\ phase \in {"mending", "cleaning"} \cup Judged => Kept(suite)
  /\ phase = "mending" =>
       /\ mend.then \in {"cleaning", "reviewing"}
       /\ \A i \in DOMAIN plan :
            \/ \E j \in DOMAIN mend.gaps : mend.gaps[j] = plan[i]
            \/ \E j \in DOMAIN suite : suite[j].slot = plan[i]
  /\ phase \in Judged => Covered(suite)
  /\ phase \in Judged \/ (phase = "mending" /\ mend.then = "reviewing") => Varied(suite)
  /\ phase = "completed" => Suitable(suite)

GeneratorInv == GeneratorType /\ TodoOK /\ QuotasOK /\ PlanOK /\ SuiteOK

(******************************************************************************)
(* Selections.  The rank of a member of a finite set of numbers is how many   *)
(* members are not above it: ranks are the numbers up to the cardinality,     *)
(* each once.                                                                 *)

Rank(K, k) == Cardinality({j \in K : j <= k})

\* A nonempty set of natural numbers has a least one.
LEMMA Least ==
  ASSUME NEW S \in SUBSET Nat, S # {}
  PROVE  \E m \in S : \A n \in S : m <= n
<1>1. PICK top \in S : TRUE
  OBVIOUS
<1> DEFINE T == {0..n : n \in S \cap 0..top}
           Below == SUBSET (0..top)
<1>2. IsWellFoundedOn(StrictSubsetOrdering(0..top), Below)
  <2>1. IsFiniteSet(0..top)
    BY FS_Interval
  <2> QED BY <2>1, FS_StrictSubsetOrderingWellFounded, FS_FiniteSubsetsOfFinite
<1>3. T \subseteq Below /\ T # {}
  BY <1>1
<1>4. PICK t \in T : \A r \in T : ~(<<r, t>> \in StrictSubsetOrdering(0..top))
  <2> HIDE DEF T, Below
  <2> QED BY <1>2, <1>3, WFMin
<1>5. PICK m \in S \cap 0..top : t = 0..m
  BY <1>4
<1>6. ASSUME NEW n \in S, n < m
      PROVE  FALSE
  <2>1. 0..n \in T /\ 0..n \subseteq 0..m /\ 0..n # 0..m
    BY <1>5, <1>6
  <2>2. 0..n \in SUBSET (0..top) /\ 0..m \in SUBSET (0..top)
    BY <1>3, <1>5, <2>1
  <2> QED BY <1>4, <1>5, <2>1, <2>2 DEF StrictSubsetOrdering
<1> QED BY <1>5, <1>6

\* The rank of a member is a number from 1 to the cardinality.
LEMMA RankType ==
  ASSUME NEW K \in SUBSET Nat, IsFiniteSet(K), NEW k \in K
  PROVE  Rank(K, k) \in 1..Cardinality(K)
<1> DEFINE below == {j \in K : j <= k}
<1>1. IsFiniteSet(below) /\ Cardinality(below) <= Cardinality(K)
  BY FS_Subset
<1>2. below # {}
  OBVIOUS
<1>3. Cardinality(below) \in Nat /\ Cardinality(K) \in Nat
  BY <1>1, FS_CardinalityType
<1>4. Cardinality(below) # 0
  BY <1>1, <1>2, FS_EmptySet
<1> QED BY <1>1, <1>3, <1>4 DEF Rank

\* Ranks grow with the members.
LEMMA RankGrows ==
  ASSUME NEW K \in SUBSET Nat, IsFiniteSet(K), NEW k \in K, NEW l \in K, k < l
  PROVE  Rank(K, k) < Rank(K, l)
<1> DEFINE K1 == {j \in K : j <= k}
           K2 == {j \in K : j <= l}
<1>1. K1 \subseteq K2 /\ l \in K2 /\ l \notin K1
  <2> k \in Nat /\ l \in Nat
    OBVIOUS
  <2>1. l \in K2 /\ l \notin K1
    OBVIOUS
  <2>2. ASSUME NEW j \in K, j <= k
        PROVE  j <= l
    BY <2>2
  <2> QED BY <2>1, <2>2
<1>2. IsFiniteSet(K2)
  BY FS_Subset
<1>3. Cardinality(K1) <= Cardinality(K2) /\ Cardinality(K1) # Cardinality(K2)
  <2> HIDE DEF K1, K2
  <2> QED BY <1>1, <1>2, FS_Subset
<1>4. Cardinality(K1) \in Nat /\ Cardinality(K2) \in Nat
  BY FS_Subset, FS_CardinalityType
<1> QED BY <1>3, <1>4 DEF Rank

\* Members of one rank are one member.
LEMMA RankNames ==
  ASSUME NEW K \in SUBSET Nat, IsFiniteSet(K), NEW k \in K, NEW l \in K,
         Rank(K, k) = Rank(K, l)
  PROVE  k = l
<1>1. Rank(K, k) \in Int /\ k \in Int /\ l \in Int
  BY RankType
<1>2. ~(k < l) /\ ~(l < k)
  BY <1>1, RankGrows
<1> QED BY <1>1, <1>2

\* A number up to the cardinality is the rank of one member, which Nth names.
LEMMA NthIsMember ==
  ASSUME NEW K \in SUBSET Nat, IsFiniteSet(K), NEW n \in 1..Cardinality(K)
  PROVE  Nth(K, n) \in K /\ Rank(K, Nth(K, n)) = n
<1> DEFINE f == [k \in K |-> Rank(K, k)]
           R == 1..Cardinality(K)
<1>1. Cardinality(K) \in Nat
  BY FS_CardinalityType
<1>2. f \in Injection(K, R)
  <2>1. f \in [K -> R]
    BY RankType
  <2>2. ASSUME NEW k \in K, NEW l \in K, f[k] = f[l]
        PROVE  k = l
    BY <2>2, RankNames
  <2> QED BY <2>1, <2>2 DEF Injection, IsInjective
<1>3. IsFiniteSet(R) /\ Cardinality(R) = Cardinality(K)
  BY <1>1, FS_Interval
<1>4. f \in Surjection(K, R)
  BY <1>2, <1>3, FS_Injection
<1>5. \E k \in K : Rank(K, k) = n
  BY <1>4 DEF Surjection
<1> QED BY <1>5 DEF Nth, Rank

\* Every member is named by its rank.
LEMMA NthOfRank ==
  ASSUME NEW K \in SUBSET Nat, IsFiniteSet(K), NEW k \in K
  PROVE  Nth(K, Rank(K, k)) = k
<1>1. Nth(K, Rank(K, k)) \in K /\ Rank(K, Nth(K, Rank(K, k))) = Rank(K, k)
  BY RankType, NthIsMember
<1>2. \A i, j \in K : Rank(K, i) = Rank(K, j) => i = j
  BY RankNames
<1> QED BY ONLY <1>1, <1>2, k \in K

\* There are n numbers from 1 to n.
LEMMA UpTo ==
  ASSUME NEW n \in Nat
  PROVE  IsFiniteSet(1..n) /\ Cardinality(1..n) = n
<1>1. IsFiniteSet(1..n) /\ Cardinality(1..n) = IF 1 > n THEN 0 ELSE n - 1 + 1
  BY FS_Interval
<1> QED BY <1>1

\* What a selection is: the elements at the chosen places, each place once.
LEMMA AtProperties ==
  ASSUME NEW T, NEW s \in Seq(T), NEW K \in SUBSET (DOMAIN s)
  PROVE  /\ At(s, K) \in Seq(T) /\ Len(At(s, K)) = Cardinality(K)
         /\ DOMAIN At(s, K) = 1..Cardinality(K)
         /\ Cardinality(K) \in Nat /\ Cardinality(K) <= Len(s)
         /\ \A n \in 1..Cardinality(K) : Nth(K, n) \in K /\ At(s, K)[n] = s[Nth(K, n)]
         /\ \A m, n \in 1..Cardinality(K) : Nth(K, m) = Nth(K, n) => m = n
         /\ \A k \in K : \E n \in 1..Cardinality(K) : Nth(K, n) = k
<1>1. DOMAIN s = 1..Len(s) /\ Len(s) \in Nat
  BY LenProperties
<1>2. IsFiniteSet(1..Len(s)) /\ Cardinality(1..Len(s)) = Len(s)
  BY <1>1, UpTo
<1>3. K \in SUBSET Nat
  BY <1>1
<1>4. IsFiniteSet(K) /\ Cardinality(K) <= Len(s)
  BY <1>1, <1>2, FS_Subset
<1>5. Cardinality(K) \in Nat
  BY <1>4, FS_CardinalityType
<1>6. \A n \in 1..Cardinality(K) : Nth(K, n) \in K /\ Rank(K, Nth(K, n)) = n
  BY <1>3, <1>4, NthIsMember
<1> DEFINE f == [n \in 1..Cardinality(K) |-> s[Nth(K, n)]]
<1>7. \A n \in 1..Cardinality(K) : s[Nth(K, n)] \in T
  BY <1>1, <1>6, ElementOfSeq
<1>8. f \in Seq(T) /\ Len(f) = Cardinality(K) /\ DOMAIN f = 1..Cardinality(K)
  BY <1>5, <1>7
<1>9. At(s, K) = f
  BY <1>8, ConcatEmptySeq DEF At
<1>10. \A m, n \in 1..Cardinality(K) : Nth(K, m) = Nth(K, n) => m = n
  BY ONLY <1>6
<1>11. \A k \in K : Rank(K, k) \in 1..Cardinality(K) /\ Nth(K, Rank(K, k)) = k
  BY <1>3, <1>4, RankType, NthOfRank
<1>12. \A n \in 1..Cardinality(K) : f[n] = s[Nth(K, n)]
  OBVIOUS
<1> HIDE DEF f
<1> QED BY <1>4, <1>5, <1>6, <1>8, <1>9, <1>10, <1>11, <1>12

\* A selection has the elements at the chosen places and no others.
LEMMA AtElements ==
  ASSUME NEW T, NEW s \in Seq(T), NEW K \in SUBSET (DOMAIN s)
  PROVE  /\ \A n \in DOMAIN At(s, K) : \E k \in K : At(s, K)[n] = s[k]
         /\ \A k \in K : \E n \in DOMAIN At(s, K) : At(s, K)[n] = s[k]
<1>1. /\ DOMAIN At(s, K) = 1..Cardinality(K)
      /\ \A n \in 1..Cardinality(K) : Nth(K, n) \in K /\ At(s, K)[n] = s[Nth(K, n)]
      /\ \A k \in K : \E n \in 1..Cardinality(K) : Nth(K, n) = k
  BY AtProperties
<1> QED BY ONLY <1>1

\* Elements at different places of a selection come from different places.
LEMMA AtDistinct ==
  ASSUME NEW T, NEW s \in Seq(T), NEW K \in SUBSET (DOMAIN s),
         NEW m \in DOMAIN At(s, K), NEW n \in DOMAIN At(s, K), m # n
  PROVE  \E k, l \in K : k # l /\ At(s, K)[m] = s[k] /\ At(s, K)[n] = s[l]
<1>1. /\ DOMAIN At(s, K) = 1..Cardinality(K)
      /\ \A i \in 1..Cardinality(K) : Nth(K, i) \in K /\ At(s, K)[i] = s[Nth(K, i)]
      /\ \A i, j \in 1..Cardinality(K) : Nth(K, i) = Nth(K, j) => i = j
  BY AtProperties
<1> QED BY ONLY <1>1, m \in DOMAIN At(s, K), n \in DOMAIN At(s, K), m # n

\* Nothing is selected exactly where no place is chosen.
LEMMA AtNothing ==
  ASSUME NEW T, NEW s \in Seq(T), NEW K \in SUBSET (DOMAIN s)
  PROVE  At(s, K) = <<>> <=> K = {}
<1>1. At(s, K) \in Seq(T) /\ Len(At(s, K)) = Cardinality(K)
  BY AtProperties
<1>2. IsFiniteSet(K)
  <2>1. DOMAIN s = 1..Len(s) /\ Len(s) \in Nat
    BY LenProperties
  <2>2. IsFiniteSet(1..Len(s))
    BY <2>1, UpTo
  <2> QED BY <2>1, <2>2, FS_Subset
<1>3. Cardinality(K) = 0 <=> K = {}
  BY <1>2, FS_EmptySet
<1> QED BY <1>1, <1>3, EmptySeq

\* The selection of every place is the sequence itself.
LEMMA AtEverywhere ==
  ASSUME NEW T, NEW s \in Seq(T)
  PROVE  At(s, DOMAIN s) = s
<1>1. DOMAIN s = 1..Len(s) /\ Len(s) \in Nat
  BY LenProperties
<1> DEFINE K == 1..Len(s)
<1>2. IsFiniteSet(K) /\ Cardinality(K) = Len(s) /\ K \in SUBSET Nat
  BY <1>1, UpTo
<1>3. ASSUME NEW n \in K
      PROVE  Nth(K, n) = n
  <2>1. {j \in K : j <= n} = 1..n
    BY <1>1
  <2>2. Rank(K, n) = n
    <3>1. n \in Nat
      BY <1>1
    <3> QED BY <2>1, <3>1, UpTo DEF Rank
  <2>3. Nth(K, Rank(K, n)) = n
    BY <1>2, NthOfRank
  <2> QED BY <2>2, <2>3
<1>4. /\ At(s, K) \in Seq(T) /\ Len(At(s, K)) = Len(s)
      /\ \A n \in K : At(s, K)[n] = s[Nth(K, n)]
  BY <1>1, <1>2, AtProperties
<1>5. \A n \in 1..Len(s) : At(s, K)[n] = s[n]
  BY <1>3, <1>4
<1> HIDE DEF K
<1>6. At(s, K) = s
  BY <1>4, <1>5, SeqEqual
<1> QED BY <1>1, <1>6 DEF K

(******************************************************************************)
(* What the steps of a generation make of a suite.                            *)

\* The gate leaves what it does not reject, and everything if it rejects none.
LEMMA AcceptedFacts ==
  ASSUME NEW s \in Seq(Question)
  PROVE  /\ Accepted(s) \in Seq(Question) /\ Len(Accepted(s)) <= Len(s)
         /\ Kept(Accepted(s))
         /\ Kept(s) => Accepted(s) = s
<1> DEFINE K == {i \in DOMAIN s : s[i].text \notin Poor}
<1>1. K \in SUBSET DOMAIN s
  OBVIOUS
<1>2. /\ At(s, K) \in Seq(Question) /\ Len(At(s, K)) <= Len(s)
      /\ \A n \in DOMAIN At(s, K) : \E k \in K : At(s, K)[n] = s[k]
  <2> HIDE DEF K
  <2>1. /\ At(s, K) \in Seq(Question) /\ Len(At(s, K)) = Cardinality(K)
        /\ Cardinality(K) <= Len(s)
    BY <1>1, AtProperties
  <2>2. \A n \in DOMAIN At(s, K) : \E k \in K : At(s, K)[n] = s[k]
    BY <1>1, AtElements
  <2> QED BY <2>1, <2>2
<1>3. Kept(At(s, K))
  BY <1>2 DEF Kept
<1>4. Kept(s) => K = DOMAIN s
  BY DEF Kept
<1>5. At(s, DOMAIN s) = s
  BY AtEverywhere
<1>6. Accepted(s) = At(s, K)
  BY DEF Accepted
<1> HIDE DEF K
<1> QED BY <1>2, <1>3, <1>4, <1>5, <1>6

\* A slot is asked or in the gaps; there are no gaps exactly when all are asked.
LEMMA GapsFacts ==
  ASSUME NEW s \in Seq(Question), NEW p \in Seq(Slots)
  PROVE  /\ Gaps(s, p) \in Seq(Slots)
         /\ Gaps(s, p) = <<>> <=> \A i \in DOMAIN p : \E j \in DOMAIN s : s[j].slot = p[i]
         /\ \A i \in DOMAIN p :
              \/ \E n \in DOMAIN Gaps(s, p) : Gaps(s, p)[n] = p[i]
              \/ \E j \in DOMAIN s : s[j].slot = p[i]
<1> DEFINE K == {i \in DOMAIN p : \A j \in DOMAIN s : s[j].slot # p[i]}
<1>1. K \in SUBSET DOMAIN p
  OBVIOUS
<1>2. /\ At(p, K) \in Seq(Slots)
      /\ At(p, K) = <<>> <=> K = {}
      /\ \A k \in K : \E n \in DOMAIN At(p, K) : At(p, K)[n] = p[k]
  <2> HIDE DEF K
  <2>1. At(p, K) \in Seq(Slots)
    BY <1>1, AtProperties
  <2>2. At(p, K) = <<>> <=> K = {}
    BY <1>1, AtNothing
  <2>3. \A k \in K : \E n \in DOMAIN At(p, K) : At(p, K)[n] = p[k]
    BY <1>1, AtElements
  <2> QED BY <2>1, <2>2, <2>3
<1>3. K = {} <=> \A i \in DOMAIN p : \E j \in DOMAIN s : s[j].slot = p[i]
  OBVIOUS
<1>4. \A i \in DOMAIN p : i \in K \/ \E j \in DOMAIN s : s[j].slot = p[i]
  OBVIOUS
<1>5. Gaps(s, p) = At(p, K)
  BY DEF Gaps
<1> HIDE DEF K
<1> QED BY <1>2, <1>3, <1>4, <1>5

\* Wording that has letters occurs once in what is left of a suite.
LEMMA WithoutRepeatsFacts ==
  ASSUME NEW s \in Seq(Question)
  PROVE  /\ WithoutRepeats(s) \in Seq(Question) /\ Len(WithoutRepeats(s)) <= Len(s)
         /\ Varied(WithoutRepeats(s))
         /\ Kept(s) => Kept(WithoutRepeats(s))
<1> DEFINE K == {i \in DOMAIN s : s[i].id \notin Repeated(s)}
           kept == At(s, K)
           tests == Renumbered(kept)
<1>1. K \in SUBSET DOMAIN s
  OBVIOUS
<1>2. /\ kept \in Seq(Question) /\ Len(kept) <= Len(s)
      /\ \A n \in DOMAIN kept : \E k \in K : kept[n] = s[k]
      /\ \A m, n \in DOMAIN kept : m # n =>
           \E k, l \in K : k # l /\ kept[m] = s[k] /\ kept[n] = s[l]
  <2> HIDE DEF K
  <2>1. /\ At(s, K) \in Seq(Question) /\ Len(At(s, K)) = Cardinality(K)
        /\ Cardinality(K) <= Len(s)
    BY <1>1, AtProperties
  <2>2. \A n \in DOMAIN At(s, K) : \E k \in K : At(s, K)[n] = s[k]
    BY <1>1, AtElements
  <2>3. \A m, n \in DOMAIN At(s, K) : m # n =>
          \E k, l \in K : k # l /\ At(s, K)[m] = s[k] /\ At(s, K)[n] = s[l]
    BY <1>1, AtDistinct
  <2> QED BY <2>1, <2>2, <2>3
<1>3. \A k, l \in K : k # l => s[k].text # s[l].text \/ s[k].text = Blank
  <2> SUFFICES ASSUME NEW k \in K, NEW l \in K, k < l,
                      s[k].text = s[l].text, s[k].text # Blank
               PROVE  FALSE
    <3> DOMAIN s = 1..Len(s) /\ Len(s) \in Nat
      BY LenProperties
    <3> QED OBVIOUS
  <2>1. DOMAIN s = 1..Len(s) /\ Len(s) \in Nat
    BY LenProperties
  <2>2. k \in 1..(l - 1) /\ l \in DOMAIN s
    BY <2>1
  <2>3. s[l].id \in Repeated(s)
    BY <2>2 DEF Repeated
  <2> QED BY <2>3
<1> HIDE DEF K, kept
<1>4. DOMAIN kept = 1..Len(kept) /\ Len(kept) \in Nat
  BY <1>2, LenProperties
<1>5. /\ tests \in Seq(Question) /\ Len(tests) = Len(kept) /\ DOMAIN tests = DOMAIN kept
      /\ \A i \in DOMAIN tests : tests[i].text = kept[i].text
  <2>1. \A i \in 1..Len(kept) : kept[i] \in Question
    BY <1>2, ElementOfSeq
  <2>2. \A i \in 1..Len(kept) : /\ [kept[i] EXCEPT !.id = i] \in Question
                                /\ [kept[i] EXCEPT !.id = i].text = kept[i].text
    BY <2>1 DEF Question
  <2>3. tests = [i \in 1..Len(kept) |-> [kept[i] EXCEPT !.id = i]]
    BY <1>4 DEF Renumbered
  <2>4. tests \in [1..Len(kept) -> Question]
    BY <2>2, <2>3
  <2>5. tests \in Seq(Question) /\ Len(tests) = Len(kept)
    BY <1>4, <2>4
  <2> HIDE DEF tests
  <2> QED BY <1>4, <2>2, <2>3, <2>5
<1>6. WithoutRepeats(s) = tests
  BY DEF WithoutRepeats, K, kept
<1> HIDE DEF tests
<1>7. Varied(tests)
  <2> SUFFICES ASSUME NEW m \in DOMAIN tests, NEW n \in DOMAIN tests, m # n,
                      tests[m].text = tests[n].text
               PROVE  tests[m].text = Blank
    BY DEF Varied
  <2>1. PICK k, l \in K : k # l /\ kept[m] = s[k] /\ kept[n] = s[l]
    BY <1>2, <1>5
  <2>2. tests[m].text = s[k].text /\ tests[n].text = s[l].text
    BY <1>5, <2>1
  <2> QED BY <1>3, <2>1, <2>2
<1>8. Kept(s) => Kept(tests)
  BY <1>1, <1>2, <1>5 DEF Kept
<1> QED BY <1>2, <1>5, <1>6, <1>7, <1>8

\* A round of additions adds no rejected question and no wording twice.
LEMMA FreshFacts ==
  ASSUME NEW s \in Seq(Question), NEW a \in Seq(Question)
  PROVE  /\ Fresh(s, a) \in Seq(Question) /\ Kept(Fresh(s, a))
         /\ \A i \in DOMAIN Fresh(s, a) : \A j \in DOMAIN s : s[j].text # Fresh(s, a)[i].text
         /\ \A i, j \in DOMAIN Fresh(s, a) : Fresh(s, a)[i].text = Fresh(s, a)[j].text => i = j
<1> DEFINE K == {i \in DOMAIN a :
                   /\ a[i].text \notin Poor
                   /\ \A j \in DOMAIN s : s[j].text # a[i].text
                   /\ \A j \in 1..(i - 1) : a[j].text # a[i].text}
           added == At(a, K)
<1>1. K \in SUBSET DOMAIN a
  OBVIOUS
<1>2. /\ added \in Seq(Question)
      /\ \A n \in DOMAIN added : \E k \in K : added[n] = a[k]
      /\ \A m, n \in DOMAIN added : m # n =>
           \E k, l \in K : k # l /\ added[m] = a[k] /\ added[n] = a[l]
  <2> HIDE DEF K
  <2>1. At(a, K) \in Seq(Question)
    BY <1>1, AtProperties
  <2>2. \A n \in DOMAIN At(a, K) : \E k \in K : At(a, K)[n] = a[k]
    BY <1>1, AtElements
  <2>3. \A m, n \in DOMAIN At(a, K) : m # n =>
          \E k, l \in K : k # l /\ At(a, K)[m] = a[k] /\ At(a, K)[n] = a[l]
    BY <1>1, AtDistinct
  <2> QED BY <2>1, <2>2, <2>3
<1>3. \A k, l \in K : k # l => a[k].text # a[l].text
  <2> SUFFICES ASSUME NEW k \in K, NEW l \in K, k < l, a[k].text = a[l].text
               PROVE  FALSE
    <3> DOMAIN a = 1..Len(a) /\ Len(a) \in Nat
      BY LenProperties
    <3> QED OBVIOUS
  <2>1. DOMAIN a = 1..Len(a) /\ Len(a) \in Nat
    BY LenProperties
  <2>2. k \in 1..(l - 1)
    BY <2>1
  <2> QED BY <2>2
<1>4. \A k \in K : a[k].text \notin Poor /\ \A j \in DOMAIN s : s[j].text # a[k].text
  OBVIOUS
<1>5. Fresh(s, a) = added
  BY DEF Fresh
<1> HIDE DEF K, added
<1>6. Kept(added)
  BY <1>2, <1>4 DEF Kept
<1>7. \A i \in DOMAIN added : \A j \in DOMAIN s : s[j].text # added[i].text
  BY <1>2, <1>4
<1>8. \A i, j \in DOMAIN added : added[i].text = added[j].text => i = j
  BY <1>2, <1>3
<1> QED BY <1>2, <1>5, <1>6, <1>7, <1>8

\* A suite with such a round appended.
LEMMA JoinedFacts ==
  ASSUME NEW s \in Seq(Question), NEW a \in Seq(Question)
  PROVE  LET joined == s \o Fresh(s, a) IN
         /\ joined \in Seq(Question)
         /\ \A j \in DOMAIN s : j \in DOMAIN joined /\ joined[j] = s[j]
         /\ Kept(s) => Kept(joined)
         /\ Varied(s) => Varied(joined)
<1> DEFINE f == Fresh(s, a)
           joined == s \o f
<1>1. /\ f \in Seq(Question) /\ Kept(f)
      /\ \A i \in DOMAIN f : \A j \in DOMAIN s : s[j].text # f[i].text
      /\ \A i, j \in DOMAIN f : f[i].text = f[j].text => i = j
  BY FreshFacts
<1> HIDE DEF f
<1>2. /\ DOMAIN s = 1..Len(s) /\ Len(s) \in Nat
      /\ DOMAIN f = 1..Len(f) /\ Len(f) \in Nat
  BY <1>1, LenProperties
<1>3. /\ joined \in Seq(Question) /\ Len(joined) = Len(s) + Len(f)
      /\ \A i \in 1..(Len(s) + Len(f)) :
           joined[i] = IF i <= Len(s) THEN s[i] ELSE f[i - Len(s)]
  BY <1>1, ConcatProperties
<1> HIDE DEF joined
<1>4. DOMAIN joined = 1..(Len(s) + Len(f))
  BY <1>3, LenProperties
<1>5. \A i \in DOMAIN joined : \/ i \in DOMAIN s /\ joined[i] = s[i]
                               \/ i - Len(s) \in DOMAIN f /\ joined[i] = f[i - Len(s)]
  BY <1>2, <1>3, <1>4
<1>6. \A j \in DOMAIN s : j \in DOMAIN joined /\ joined[j] = s[j]
  BY <1>2, <1>3, <1>4
<1>7. Kept(s) => Kept(joined)
  BY <1>1, <1>5 DEF Kept
<1>8. ASSUME Varied(s), NEW i \in DOMAIN joined, NEW j \in DOMAIN joined,
             joined[i].text = joined[j].text
      PROVE  i = j \/ joined[i].text = Blank
  <2>1. CASE joined[i] = s[i] /\ joined[j] = s[j] /\ i \in DOMAIN s /\ j \in DOMAIN s
    BY <1>8, <2>1 DEF Varied
  <2>2. CASE /\ joined[i] = f[i - Len(s)] /\ joined[j] = f[j - Len(s)]
             /\ i - Len(s) \in DOMAIN f /\ j - Len(s) \in DOMAIN f
    <3>1. i - Len(s) = j - Len(s)
      BY <1>1, <1>8, <2>2
    <3> QED BY <1>2, <1>4, <3>1
  <2> QED BY <1>1, <1>5, <1>8, <2>1, <2>2
<1>9. Varied(s) => Varied(joined)
  BY <1>8 DEF Varied
<1> QED BY <1>3, <1>6, <1>7, <1>9 DEF joined, f

\* Rewording changes texts; ids stay where they are.
LEMMA RewordedFacts ==
  ASSUME suite \in Seq(Question), NEW last \in DOMAIN suite, NEW every \in BOOLEAN,
         NEW text \in Texts
  PROVE  LET tests == Reworded(last, every, text) IN
         /\ tests \in Seq(Question) /\ Len(tests) = Len(suite)
         /\ DOMAIN tests = DOMAIN suite
         /\ \A i \in DOMAIN suite : tests[i].id = suite[i].id
<1>1. DOMAIN suite = 1..Len(suite) /\ Len(suite) \in Nat
  BY LenProperties
<1>2. \A i \in DOMAIN suite : suite[i] \in Question
  BY <1>1, ElementOfSeq
<1>3. /\ [suite[last] EXCEPT !.text = text] \in Question
      /\ [suite[last] EXCEPT !.text = text].id = suite[last].id
  BY <1>2 DEF Question
<1> DEFINE tests == Reworded(last, every, text)
<1>4. /\ DOMAIN tests = 1..Len(suite)
      /\ \A i \in 1..Len(suite) : tests[i] \in Question /\ tests[i].id = suite[i].id
  BY <1>1, <1>2, <1>3 DEF Reworded
<1>5. tests \in [1..Len(suite) -> Question]
  BY <1>1, <1>2, <1>3 DEF Reworded
<1>6. tests \in Seq(Question) /\ Len(tests) = Len(suite)
  BY <1>1, <1>5
<1> QED BY <1>1, <1>4, <1>6

(******************************************************************************)
(* Counting questions.                                                        *)

\* The members of Pairs.
LEMMA PairsAre ==
  ASSUME NEW count
  PROVE  \A x : x \in Pairs(count) <=> \E d \in Dims : \E n \in 1..count[d] : x = <<d, n>>
<1>1. \A d, x : x \in {d} \X (1..count[d]) <=> \E n \in 1..count[d] : x = <<d, n>>
  OBVIOUS
<1> QED BY <1>1 DEF Pairs

\* The abilities are as many as their list is long.
LEMMA DimsFinite == IsFiniteSet(Dims) /\ Cardinality(Dims) = Len(Abilities)
<1> DEFINE n == Len(Abilities)
           f == [a \in 1..n |-> Abilities[a]]
<1>1. n \in Nat /\ DOMAIN Abilities = 1..n
  BY AbilityAssumption, LenProperties
<1>2. f \in Bijection(1..n, Dims)
  BY <1>1, AbilityAssumption DEF Bijection, Injection, Surjection, IsInjective, Dims
<1>3. ExistsBijection(1..n, Dims)
  BY <1>2 DEF ExistsBijection
<1> HIDE DEF n
<1>4. Cardinality(Dims) = n
  BY <1>1, <1>3, FS_CountingElements
<1>5. IsFiniteSet(Dims)
  BY <1>1, <1>3, FS_NatBijection
<1> QED BY <1>4, <1>5 DEF n

\* A finite count is a number.
LEMMA TotalType ==
  ASSUME NEW count, IsFiniteSet(Pairs(count))
  PROVE  Total(count) \in Nat
  BY FS_CardinalityType DEF Total, Pairs

\* Before the first question is given out.
LEMMA PairsAtFirst ==
  /\ IsFiniteSet(Pairs([d \in Dims |-> 1])) /\ Total([d \in Dims |-> 1]) = Len(Abilities)
  /\ IsFiniteSet(Pairs([d \in Dims |-> 0])) /\ Total([d \in Dims |-> 0]) = 0
<1>1. Pairs([d \in Dims |-> 1]) = Dims \X {1}
  <2>1. \A x : x \in Pairs([d \in Dims |-> 1]) <=> \E d \in Dims : \E n \in 1..1 : x = <<d, n>>
    BY PairsAre
  <2> QED BY <2>1
<1>2. Pairs([d \in Dims |-> 0]) = {}
  <2>1. \A x : x \in Pairs([d \in Dims |-> 0]) => \E d \in Dims : \E n \in 1..0 : x = <<d, n>>
    BY PairsAre
  <2> QED BY <2>1
<1>3. Len(Abilities) \in Nat
  BY AbilityAssumption, LenProperties
<1>4. IsFiniteSet(Dims \X {1}) /\ Cardinality(Dims \X {1}) = Len(Abilities)
  <2>1. IsFiniteSet({1}) /\ Cardinality({1}) = 1
    BY FS_Singleton
  <2>2. IsFiniteSet(Dims \X {1}) /\ Cardinality(Dims \X {1}) = Cardinality(Dims) * Cardinality({1})
    BY <2>1, DimsFinite, FS_Product
  <2> QED BY <1>3, <2>1, <2>2, DimsFinite
<1>5. IsFiniteSet({}) /\ Cardinality({}) = 0
  BY FS_EmptySet
<1>6. \A c : Total(c) = Cardinality(Pairs(c))
  BY DEF Total, Pairs
<1> QED BY <1>1, <1>2, <1>4, <1>5, <1>6

\* One question more.
LEMMA PairsGrow ==
  ASSUME NEW count \in [Dims -> Nat], IsFiniteSet(Pairs(count)), NEW d \in Dims
  PROVE  LET more == [count EXCEPT ![d] = @ + 1] IN
         IsFiniteSet(Pairs(more)) /\ Total(more) = Total(count) + 1
<1> DEFINE more == [count EXCEPT ![d] = @ + 1]
           new == <<d, count[d] + 1>>
<1>1. /\ more[d] = count[d] + 1 /\ count[d] \in Nat
      /\ \A e \in Dims : e # d => more[e] = count[e]
  OBVIOUS
<1> HIDE DEF more
<1>2. Pairs(more) = Pairs(count) \cup {new}
  <2>1. \A x : x \in Pairs(more) <=> \E e \in Dims : \E n \in 1..more[e] : x = <<e, n>>
    BY PairsAre
  <2>2. \A x : x \in Pairs(count) <=> \E e \in Dims : \E n \in 1..count[e] : x = <<e, n>>
    BY PairsAre
  <2>3. \A e \in Dims : 1..more[e] = 1..count[e] \cup (IF e = d THEN {count[d] + 1} ELSE {})
    BY <1>1
  <2> QED BY <2>1, <2>2, <2>3
<1>3. new \notin Pairs(count)
  <2>1. \A x : x \in Pairs(count) => \E e \in Dims : \E n \in 1..count[e] : x = <<e, n>>
    BY PairsAre
  <2>2. count[d] + 1 \notin 1..count[d]
    BY <1>1
  <2> QED BY <2>1, <2>2
<1>4. \A c : Total(c) = Cardinality(Pairs(c))
  BY DEF Total, Pairs
<1> HIDE DEF new
<1>5. IsFiniteSet(Pairs(more)) /\ Cardinality(Pairs(more)) = Cardinality(Pairs(count)) + 1
  BY <1>2, <1>3, FS_AddElement
<1> QED BY <1>4, <1>5 DEF more

\* As many questions of every ability are as many in all; as many in all only if
\* they are as many of every ability.
LEMMA PairsOrdered ==
  ASSUME NEW low \in [Dims -> Nat], NEW high \in [Dims -> Nat], IsFiniteSet(Pairs(high)),
         \A d \in Dims : low[d] <= high[d]
  PROVE  /\ Total(low) \in Nat /\ Total(high) \in Nat /\ Total(low) <= Total(high)
         /\ Total(low) = Total(high) => \A d \in Dims : low[d] = high[d]
<1>1. \A x : x \in Pairs(low) <=> \E d \in Dims : \E n \in 1..low[d] : x = <<d, n>>
  BY PairsAre
<1>2. \A x : x \in Pairs(high) <=> \E d \in Dims : \E n \in 1..high[d] : x = <<d, n>>
  BY PairsAre
<1>3. \A d \in Dims : 1..low[d] \subseteq 1..high[d]
  OBVIOUS
<1>4. Pairs(low) \subseteq Pairs(high)
  BY <1>1, <1>2, <1>3
<1>5. IsFiniteSet(Pairs(low))
  BY <1>4, FS_Subset
<1>6. \A c : Total(c) = Cardinality(Pairs(c))
  BY DEF Total, Pairs
<1>7. Total(low) \in Nat /\ Total(high) \in Nat
  BY <1>5, <1>6, FS_CardinalityType
<1>8. Total(low) <= Total(high)
  BY <1>4, <1>6, FS_Subset
<1>9. ASSUME Total(low) = Total(high), NEW d \in Dims
      PROVE  low[d] = high[d]
  <2>1. Pairs(low) = Pairs(high)
    BY <1>4, <1>6, <1>9, FS_Subset
  <2>2. SUFFICES ASSUME high[d] # 0
                 PROVE  low[d] = high[d]
    OBVIOUS
  <2>3. high[d] \in 1..high[d]
    BY <2>2
  <2>4. <<d, high[d]>> \in Pairs(high)
    BY <1>2, <2>3
  <2>5. PICK e \in Dims : \E n \in 1..low[e] : <<d, high[d]>> = <<e, n>>
    BY <1>1, <2>1, <2>4
  <2> QED BY <2>5
<1> QED BY <1>7, <1>8, <1>9

\* The questions of a suite, counted by ability, are no more than its length.
LEMMA AskingCounts ==
  ASSUME NEW s \in Seq(Question)
  PROVE  LET count == [d \in Dims |-> Asking(d, s)] IN
         /\ count \in [Dims -> Nat] /\ IsFiniteSet(Pairs(count))
         /\ Total(count) \in Nat /\ Total(count) <= Len(s)
<1> DEFINE K(d) == {i \in DOMAIN s : AbilityOf[s[i].slot] = d}
           count == [d \in Dims |-> Asking(d, s)]
           f == [x \in Pairs(count) |-> Nth(K(x[1]), x[2])]
<1>1. DOMAIN s = 1..Len(s) /\ Len(s) \in Nat
  BY LenProperties
<1>2. IsFiniteSet(1..Len(s)) /\ Cardinality(1..Len(s)) = Len(s)
  BY <1>1, UpTo
<1>3. \A d \in Dims : K(d) \in SUBSET DOMAIN s /\ count[d] = Cardinality(K(d))
  BY DEF Asking
<1>4. ASSUME NEW d \in Dims
      PROVE  /\ count[d] \in Nat
             /\ \A n \in 1..count[d] : Nth(K(d), n) \in K(d)
             /\ \A m, n \in 1..count[d] : Nth(K(d), m) = Nth(K(d), n) => m = n
  <2> HIDE DEF K, count
  <2>1. /\ Cardinality(K(d)) \in Nat
        /\ \A n \in 1..Cardinality(K(d)) : Nth(K(d), n) \in K(d)
        /\ \A m, n \in 1..Cardinality(K(d)) : Nth(K(d), m) = Nth(K(d), n) => m = n
    BY <1>3, AtProperties
  <2> QED BY <1>3, <2>1
<1>5. \A x : x \in Pairs(count) <=> \E d \in Dims : \E n \in 1..count[d] : x = <<d, n>>
  <2> HIDE DEF count
  <2> QED BY PairsAre
<1>6. \A d, e, i : i \in K(d) /\ i \in K(e) => d = e
  OBVIOUS
<1>7. count \in [Dims -> Nat]
  BY <1>4
<1> HIDE DEF K, count
<1>8. f \in Injection(Pairs(count), 1..Len(s))
  <2>1. ASSUME NEW x \in Pairs(count)
        PROVE  f[x] \in 1..Len(s)
    <3>1. PICK d \in Dims : \E n \in 1..count[d] : x = <<d, n>>
      BY <1>5
    <3>2. PICK n \in 1..count[d] : x = <<d, n>>
      BY <3>1
    <3>3. Nth(K(d), n) \in K(d)
      BY <1>4
    <3> QED BY <1>1, <1>3, <3>2, <3>3
  <2>2. ASSUME NEW x \in Pairs(count), NEW y \in Pairs(count), f[x] = f[y]
        PROVE  x = y
    <3>1. PICK d \in Dims : \E n \in 1..count[d] : x = <<d, n>>
      BY <1>5
    <3>2. PICK n \in 1..count[d] : x = <<d, n>>
      BY <3>1
    <3>3. PICK e \in Dims : \E m \in 1..count[e] : y = <<e, m>>
      BY <1>5
    <3>4. PICK m \in 1..count[e] : y = <<e, m>>
      BY <3>3
    <3>5. Nth(K(d), n) = Nth(K(e), m) /\ Nth(K(d), n) \in K(d) /\ Nth(K(e), m) \in K(e)
      BY <1>4, <2>2, <3>2, <3>4
    <3>6. d = e
      BY <1>6, <3>5
    <3>7. n = m
      BY <1>4, <3>5, <3>6
    <3> QED BY <3>2, <3>4, <3>6, <3>7
  <2> QED BY <2>1, <2>2 DEF Injection, IsInjective
<1> HIDE DEF f
<1>9. IsFiniteSet(Pairs(count)) /\ Cardinality(Pairs(count)) <= Len(s)
  BY <1>2, <1>8, FS_Injection
<1>10. Total(count) = Cardinality(Pairs(count))
  BY DEF Total, Pairs
<1> QED BY <1>7, <1>9, <1>10, FS_CardinalityType DEF count

\* The question after the first is given to an ability with the fewest so far.
LEMMA LeastRepresentedFacts ==
  ASSUME quotas \in [Dims -> Nat], Eligible # {}
  PROVE  /\ LeastRepresented(Eligible) \in Eligible
         /\ \A e \in Eligible : quotas[LeastRepresented(Eligible)] <= quotas[e]
<1> DEFINE A == {a \in DOMAIN Abilities : Abilities[a] \in Eligible}
           Counts == {quotas[Abilities[a]] : a \in A}
<1>1. DOMAIN Abilities = 1..Len(Abilities) /\ Len(Abilities) \in Nat
  BY AbilityAssumption, LenProperties
<1>2. \A e \in Eligible : \E a \in A : e = Abilities[a]
  BY DEF Eligible, Dims
<1>3. Eligible \subseteq Dims
  BY DEF Eligible
<1>4. Counts \in SUBSET Nat /\ Counts # {}
  BY <1>2, <1>3
<1>5. PICK low \in Counts : \A n \in Counts : low <= n
  <2> HIDE DEF Counts
  <2> QED BY <1>4, Least
<1> DEFINE Lowest == {a \in A : quotas[Abilities[a]] = low}
<1>6. Lowest \in SUBSET Nat /\ Lowest # {}
  BY <1>1, <1>5
<1>7. PICK a \in Lowest : \A b \in Lowest : a <= b
  <2> HIDE DEF Lowest
  <2> QED BY <1>6, Least
<1> DEFINE Chosen(c) ==
      /\ Abilities[c] \in Eligible
      /\ \A b \in DOMAIN Abilities : Abilities[b] \in Eligible =>
           \/ quotas[Abilities[c]] < quotas[Abilities[b]]
           \/ quotas[Abilities[c]] = quotas[Abilities[b]] /\ c <= b
<1>8. a \in DOMAIN Abilities /\ Chosen(a)
  <2>1. \A b \in A : quotas[Abilities[b]] \in Nat /\ low <= quotas[Abilities[b]] /\ low \in Nat
    BY <1>3, <1>4, <1>5
  <2>2. \A b \in A : quotas[Abilities[b]] = low => a <= b
    BY <1>7
  <2>3. a \in A /\ quotas[Abilities[a]] = low
    BY <1>7
  <2> QED BY <2>1, <2>2, <2>3
<1>9. PICK c \in DOMAIN Abilities : Chosen(c) /\ LeastRepresented(Eligible) = Abilities[c]
  <2> DEFINE c == CHOOSE c \in DOMAIN Abilities : Chosen(c)
  <2>1. c \in DOMAIN Abilities /\ Chosen(c)
    <3> HIDE DEF Chosen
    <3> QED BY <1>8
  <2>2. LeastRepresented(Eligible) = Abilities[c]
    BY DEF LeastRepresented
  <2> QED BY <2>1, <2>2
<1>10. ASSUME NEW e \in Eligible
       PROVE  quotas[LeastRepresented(Eligible)] <= quotas[e]
  <2>1. PICK b \in DOMAIN Abilities : e = Abilities[b]
    BY <1>2
  <2>2. quotas[Abilities[c]] \in Nat /\ quotas[e] \in Nat
    BY <1>3, <1>9
  <2>3. quotas[Abilities[c]] < quotas[e] \/ quotas[Abilities[c]] = quotas[e]
    BY <1>9, <2>1
  <2> QED BY <1>9, <2>2, <2>3
<1> QED BY <1>9, <1>10

\* Where every slot of a plan is asked, a question can be named for each slot.
LEMMA Answering ==
  ASSUME NEW s \in Seq(Question), Covered(s),
         \A i, j \in DOMAIN plan : plan[i] = plan[j] => i = j
  PROVE  \E f \in Injection(DOMAIN plan, DOMAIN s) : \A i \in DOMAIN plan : s[f[i]].slot = plan[i]
<1> DEFINE f == [i \in DOMAIN plan |-> CHOOSE j \in DOMAIN s : s[j].slot = plan[i]]
<1>1. \A i \in DOMAIN plan : f[i] \in DOMAIN s /\ s[f[i]].slot = plan[i]
  BY DEF Covered
<1>2. f \in [DOMAIN plan -> DOMAIN s]
  BY <1>1
<1> HIDE DEF f
<1>3. f \in Injection(DOMAIN plan, DOMAIN s)
  BY <1>1, <1>2 DEF Injection, IsInjective
<1> QED BY <1>1, <1>3

\* Then there are as many questions as slots, and, with no question more, each
\* slot is asked once.
LEMMA AnsweredOnce ==
  ASSUME NEW s \in Seq(Question), Covered(s), plan \in Seq(Slots),
         \A i, j \in DOMAIN plan : plan[i] = plan[j] => i = j
  PROVE  /\ Len(plan) <= Len(s)
         /\ Len(plan) = Len(s) => \A i, j \in DOMAIN s : s[i].slot = s[j].slot => i = j
<1>1. /\ DOMAIN s = 1..Len(s) /\ Len(s) \in Nat
      /\ DOMAIN plan = 1..Len(plan) /\ Len(plan) \in Nat
  BY LenProperties
<1>2. /\ IsFiniteSet(DOMAIN s) /\ Cardinality(DOMAIN s) = Len(s)
      /\ IsFiniteSet(DOMAIN plan) /\ Cardinality(DOMAIN plan) = Len(plan)
  BY <1>1, UpTo
<1>3. PICK f \in Injection(DOMAIN plan, DOMAIN s) : \A i \in DOMAIN plan : s[f[i]].slot = plan[i]
  BY Answering
<1>4. Len(plan) <= Len(s) /\ (Len(plan) = Len(s) => f \in Surjection(DOMAIN plan, DOMAIN s))
  BY <1>2, <1>3, FS_Injection
<1>5. ASSUME Len(plan) = Len(s), NEW i \in DOMAIN s, NEW j \in DOMAIN s, s[i].slot = s[j].slot
      PROVE  i = j
  <2>1. PICK k \in DOMAIN plan : f[k] = i
    BY <1>4, <1>5 DEF Surjection
  <2>2. PICK l \in DOMAIN plan : f[l] = j
    BY <1>4, <1>5 DEF Surjection
  <2>3. plan[k] = plan[l]
    BY <1>3, <1>5, <2>1, <2>2
  <2> QED BY <2>1, <2>2, <2>3
<1> QED BY <1>4, <1>5

\* And every ability is asked as often as the plan has slots of it.
LEMMA AnsweredByAbility ==
  ASSUME NEW s \in Seq(Question), Covered(s), NEW d,
         \A i, j \in DOMAIN plan : plan[i] = plan[j] => i = j
  PROVE  Cardinality({i \in DOMAIN plan : AbilityOf[plan[i]] = d}) <= Asking(d, s)
<1> DEFINE P == {i \in DOMAIN plan : AbilityOf[plan[i]] = d}
           Q == {i \in DOMAIN s : AbilityOf[s[i].slot] = d}
<1>1. PICK f \in Injection(DOMAIN plan, DOMAIN s) : \A i \in DOMAIN plan : s[f[i]].slot = plan[i]
  BY Answering
<1> DEFINE g == [i \in P |-> f[i]]
<1>2. g \in Injection(P, Q)
  BY <1>1 DEF Injection, IsInjective
<1>3. IsFiniteSet(Q)
  <2>1. DOMAIN s = 1..Len(s) /\ Len(s) \in Nat
    BY LenProperties
  <2>2. IsFiniteSet(DOMAIN s)
    BY <2>1, UpTo
  <2> QED BY <2>2, FS_Subset
<1> HIDE DEF P, Q, g
<1>4. Cardinality(P) <= Cardinality(Q)
  BY <1>2, <1>3, FS_Injection
<1> QED BY <1>4 DEF P, Q, Asking

\* SetToSeq lists the members of a finite set.
LEMMA SetInSequence ==
  ASSUME NEW S, IsFiniteSet(S)
  PROVE  SetToSeq(S) \in Seq(S) /\ (S # {} => SetToSeq(S) # <<>>)
<1> DEFINE n == Cardinality(S)
<1>1. n \in Nat /\ ExistsBijection(1..n, S) /\ (n = 0 <=> S = {})
  BY FS_CardinalityType, FS_EmptySet
<1>2. \E f \in [1..n -> S] : IsInjective(f)
  BY <1>1 DEF ExistsBijection, Bijection, Injection
<1>3. SetToSeq(S) \in [1..n -> S]
  BY <1>2 DEF SetToSeq
<1> HIDE DEF n
<1>4. SetToSeq(S) \in Seq(S) /\ Len(SetToSeq(S)) = n
  BY <1>1, <1>3
<1> QED BY <1>1, <1>4

\* What is left after the first of several is not empty.
LEMMA RestOfSeq ==
  ASSUME NEW S, NEW s \in Seq(S), s # <<>>, Len(s) # 1
  PROVE  Tail(s) # <<>>
<1>1. Len(s) \in Nat \ {0} /\ Len(Tail(s)) = Len(s) - 1
  BY HeadTailProperties, EmptySeq
<1>2. Len(Tail(s)) # 0
  BY <1>1
<1> QED BY <1>2, EmptySeq

\* A function on the numbers up to n is a sequence.
LEMMA FunctionIsSeq ==
  ASSUME NEW T, NEW n \in Nat, NEW f \in [1..n -> T]
  PROVE  f \in Seq(T) /\ Len(f) = n
  OBVIOUS

\* A review asks for one replacement of each question it names.
LEMMA AskedFacts ==
  ASSUME NEW S, NEW ids \in Seq(S), NEW every \in BOOLEAN
  PROVE  /\ Asked(ids, every) \in Seq([id : S, every : BOOLEAN])
         /\ Len(Asked(ids, every)) = Len(ids)
<1>1. DOMAIN ids = 1..Len(ids) /\ Len(ids) \in Nat
  BY LenProperties
<1>2. \A i \in 1..Len(ids) : ids[i] \in S
  BY ElementOfSeq
<1>3. Asked(ids, every) \in [1..Len(ids) -> [id : S, every : BOOLEAN]]
  BY <1>1, <1>2 DEF Asked
<1> QED BY <1>1, <1>3, FunctionIsSeq

\* What a review asks for: something, and of questions that are there.
LEMMA FindsFacts ==
  ASSUME suite \in Seq(Question), NEW duplicates \in SUBSET Ids, NEW issues \in SUBSET Ids,
         duplicates \cup issues # {}
  PROVE  LET ids == [i \in DOMAIN suite |-> suite[i].id]
             asked == Asked(At(ids, {i \in DOMAIN ids : ids[i] \in duplicates}), FALSE)
                        \o Asked(SetToSeq(issues), TRUE) IN
         asked \in Seq([id : Ids, every : BOOLEAN]) /\ asked # <<>>
<1> DEFINE ids == [i \in DOMAIN suite |-> suite[i].id]
           K == {i \in DOMAIN ids : ids[i] \in duplicates}
           first == At(ids, K)
           second == SetToSeq(issues)
<1>1. DOMAIN suite = 1..Len(suite) /\ Len(suite) \in Nat
  BY LenProperties
<1>2. ids \in Seq(Ids) /\ DOMAIN ids = DOMAIN suite
  <2>1. ids \in [1..Len(suite) -> Ids]
    BY <1>1 DEF Ids
  <2> QED BY <1>1, <2>1
<1>3. IsFiniteSet(Ids)
  <2>1. ids \in Surjection(DOMAIN suite, Ids)
    BY DEF Surjection, Ids
  <2>2. IsFiniteSet(DOMAIN suite)
    BY <1>1, UpTo
  <2> HIDE DEF ids
  <2> QED BY <2>1, <2>2, FS_Surjection
<1>4. duplicates # {} => K # {}
  BY DEF Ids
<1>5. K \in SUBSET DOMAIN ids
  OBVIOUS
<1> HIDE DEF ids, K
<1>6. first \in Seq(Ids) /\ (duplicates # {} => first # <<>>)
  BY <1>2, <1>4, <1>5, AtProperties, AtNothing
<1>7. IsFiniteSet(issues)
  BY <1>3, FS_Subset
<1>8. second \in Seq(issues) /\ (issues # {} => second # <<>>)
  BY <1>7, SetInSequence
<1>9. second \in Seq(Ids)
  BY <1>8, SeqMonotonic
<1> HIDE DEF first, second
<1> DEFINE D == [id : Ids, every : BOOLEAN]
           a == Asked(first, FALSE)
           b == Asked(second, TRUE)
<1>10. a \in Seq(D) /\ Len(a) = Len(first)
  BY <1>6, AskedFacts
<1>11. b \in Seq(D) /\ Len(b) = Len(second)
  BY <1>9, AskedFacts
<1>12. Len(first) # 0 \/ Len(second) # 0
  BY <1>6, <1>8, <1>9, EmptySeq
<1> HIDE DEF D, a, b
<1>13. a \o b \in Seq(D) /\ Len(a \o b) = Len(a) + Len(b)
  BY <1>10, <1>11, ConcatProperties
<1>14. Len(a) \in Nat /\ Len(b) \in Nat
  BY <1>10, <1>11, LenProperties
<1>15. a \o b # <<>>
  BY <1>10, <1>11, <1>12, <1>13, <1>14
<1> QED BY <1>13, <1>15 DEF ids, K, first, second, D, a, b

(******************************************************************************)
(* The invariant.                                                             *)

\* Quotas and what hangs on them are the same after steps that leave them.
LEMMA SameQuotas ==
  ASSUME UNCHANGED <<request, quotas>>
  PROVE  /\ Allocatable' <=> Allocatable
         /\ Plannable' <=> Plannable
         /\ Total(quotas)' = Total(quotas) /\ Pairs(quotas)' = Pairs(quotas)
         /\ Eligible' = Eligible
  BY DEF Allocatable, Plannable, Strict, Total, Pairs, Eligible

\* What holds of the quotas is kept by a step that leaves them, out of the
\* planning or into a failure.
LEMMA QuotasStay ==
  ASSUME QuotasOK, UNCHANGED <<request, quotas>>,
         phase' = "failed" \/ phase \notin Early \cup {"failed"}
  PROVE  QuotasOK'
<1>1. /\ Allocatable' <=> Allocatable
      /\ Plannable' <=> Plannable
      /\ Total(quotas)' = Total(quotas) /\ Pairs(quotas)' = Pairs(quotas)
      /\ Eligible' = Eligible
  BY SameQuotas
<1>2. \A d, e \in Dims :
        quotas'[e] < Cardinality(Of(e, request'.available)) => quotas'[d] <= quotas'[e] + 1
  BY DEF QuotasOK
<1>3. IsFiniteSet(Pairs(quotas)') /\ (Allocatable' => Total(quotas)' <= request'.budget)
  BY <1>1 DEF QuotasOK
<1>4. phase' \notin {"allocating", "failed"} =>
        Allocatable' /\ (Total(quotas)' >= request'.budget \/ Eligible' = {})
  BY <1>1 DEF QuotasOK, Early
<1>5. phase' \notin Early \cup {"failed"} => Plannable'
  BY <1>1 DEF QuotasOK
<1> QED BY <1>2, <1>3, <1>4, <1>5 DEF QuotasOK

\* And so is what holds of the plan.
LEMMA PlanStays ==
  ASSUME PlanOK, QuotasOK, UNCHANGED <<request, quotas, plan>>,
         phase \notin Early \cup {"failed"}
  PROVE  QuotasOK' /\ PlanOK'
<1>1. QuotasOK' /\ Total(quotas)' = Total(quotas)
  BY QuotasStay, SameQuotas
<1> QED BY <1>1 DEF PlanOK

\* A generation that fails keeps nothing that could be wrong.
LEMMA FailKeeps == GeneratorInv /\ Fail => GeneratorInv'
<1> SUFFICES ASSUME GeneratorInv, Fail
             PROVE  GeneratorInv'
  OBVIOUS
<1> USE DEF GeneratorInv, Fail
<1>1. GeneratorType'
  <2>1. Idle \in [round : 0..MAX_COVERAGE_REPAIR_ROUNDS, gaps : Seq(Slots),
                  additions : Seq(Question), then : {"idle", "cleaning", "reviewing"}]
    BY BoundAssumption, EmptySeq DEF Idle
  <2> QED BY <2>1, BoundAssumption, EmptySeq DEF GeneratorType, Phases
<1>2. QuotasOK'
  BY QuotasStay
<1> QED BY <1>1, <1>2 DEF TodoOK, PlanOK, SuiteOK, Drafted, Judged

\* Going on from a suite that is short enough, without rejected questions and,
\* before a review, without repeats.
LEMMA ContinueKeeps ==
  ASSUME GeneratorInv, phase \notin Early \cup {"failed"}, NEW next \in {"cleaning", "reviewing"},
         suite' \in Seq(Question), Len(suite') <= request.budget, Kept(suite'),
         next = "reviewing" => Varied(suite'),
         Continue(next), UNCHANGED <<request, quotas, plan, repairs>>
  PROVE  GeneratorInv'
<1> USE DEF GeneratorInv
<1>1. QuotasOK' /\ PlanOK'
  BY PlanStays
<1>2. /\ todo' \in Seq(Slots)
      /\ todo' = <<>> => Covered(suite)'
      /\ \A i \in DOMAIN plan :
           \/ \E n \in DOMAIN todo' : todo'[n] = plan[i]
           \/ \E j \in DOMAIN suite' : suite'[j].slot = plan[i]
  <2>1. plan \in Seq(Slots) /\ todo' = Gaps(suite', plan)
    BY DEF Continue, GeneratorType
  <2>2. /\ Gaps(suite', plan) \in Seq(Slots)
        /\ Gaps(suite', plan) = <<>> <=>
             \A i \in DOMAIN plan : \E j \in DOMAIN suite' : suite'[j].slot = plan[i]
        /\ \A i \in DOMAIN plan :
             \/ \E n \in DOMAIN Gaps(suite', plan) : Gaps(suite', plan)[n] = plan[i]
             \/ \E j \in DOMAIN suite' : suite'[j].slot = plan[i]
    <3> HIDE DEF GeneratorInv
    <3> QED BY <2>1, GapsFacts
  <2>3. Covered(suite)' <=> \A i \in DOMAIN plan : \E j \in DOMAIN suite' : suite'[j].slot = plan[i]
    BY DEF Covered
  <2> QED BY <2>1, <2>2, <2>3
<1>3. /\ Kept(suite)' <=> Kept(suite')
      /\ Varied(suite)' <=> Varied(suite')
  BY DEF Kept, Varied
<1>4. CASE todo' = <<>>
  <2>1. phase' = next /\ mend' = Idle
    BY <1>4 DEF Continue
  <2>2. GeneratorType'
    BY <2>1, BoundAssumption, EmptySeq DEF GeneratorType, Idle, Phases, Drafted, Judged
  <2>3. TodoOK'
    BY <2>1 DEF TodoOK
  <2>4. SuiteOK'
    BY <1>2, <1>3, <1>4, <2>1 DEF SuiteOK, Early, Drafted, Judged
  <2> QED BY <1>1, <2>2, <2>3, <2>4
<1>5. CASE todo' # <<>>
  <2>1. /\ phase' = "mending"
        /\ mend' = [round |-> 1, gaps |-> todo', additions |-> <<>>, then |-> next]
    BY <1>5 DEF Continue
  <2>2. GeneratorType'
    <3>1. mend' \in [round : 0..MAX_COVERAGE_REPAIR_ROUNDS, gaps : Seq(Slots),
                     additions : Seq(Question), then : {"idle", "cleaning", "reviewing"}]
      BY <1>2, <2>1, BoundAssumption, EmptySeq
    <3> QED BY <2>1, <3>1 DEF GeneratorType, Phases, Drafted, Judged
  <2>3. TodoOK'
    BY <1>2, <1>5, <2>1 DEF TodoOK
  <2>4. SuiteOK'
    BY <1>2, <1>3, <2>1 DEF SuiteOK, Early, Drafted, Judged
  <2> QED BY <1>1, <2>2, <2>3, <2>4
<1> QED BY <1>4, <1>5

\* A request comes without questions.
LEMMA InitHolds == Init => GeneratorInv
<1> SUFFICES ASSUME Init
             PROVE  GeneratorInv
  OBVIOUS
<1>1. \/ quotas = [d \in Dims |-> 1] /\ Strict
      \/ quotas = [d \in Dims |-> 0] /\ ~Strict
  <2>1. CASE Strict
    BY <2>1 DEF Init
  <2>2. CASE ~Strict
    BY <2>2 DEF Init
  <2> QED BY <2>1, <2>2
<1>2. GeneratorType
  <2>1. Idle \in [round : 0..MAX_COVERAGE_REPAIR_ROUNDS, gaps : Seq(Slots),
                  additions : Seq(Question), then : {"idle", "cleaning", "reviewing"}]
    BY BoundAssumption, EmptySeq DEF Idle
  <2>2. request \in [policy : Policies, budget : Nat, available : SUBSET Slots]
    BY AbilityAssumption, BoundAssumption DEF Init
  <2> QED BY <1>1, <2>1, <2>2, BoundAssumption, EmptySeq DEF Init, GeneratorType, Phases, Early
<1>3. QuotasOK
  <2>1. IsFiniteSet(Pairs(quotas)) /\ Total(quotas) = IF Strict THEN Len(Abilities) ELSE 0
    BY <1>1, PairsAtFirst
  <2>2. Allocatable => Total(quotas) <= request.budget
    BY <1>2, <2>1 DEF Allocatable, GeneratorType
  <2>3. \A d, e \in Dims : quotas[d] <= quotas[e] + 1
    BY <1>1
  <2>4. phase = "allocating"
    BY DEF Init
  <2> QED BY <2>1, <2>2, <2>3, <2>4 DEF QuotasOK, Early
<1> QED BY <1>2, <1>3 DEF Init, GeneratorInv, TodoOK, PlanOK, SuiteOK, Early, Drafted, Judged

\* One more question for the least represented ability keeps the quotas even and
\* within the request.
LEMMA AllocateKeeps == GeneratorInv /\ Allocate => GeneratorInv'
<1> SUFFICES ASSUME GeneratorInv, Allocate
             PROVE  GeneratorInv'
  OBVIOUS
<1> USE DEF GeneratorInv
<1>1. /\ phase = "allocating" /\ Allocatable
      /\ UNCHANGED <<request, plan, suite, todo, mend, repairs>>
  BY DEF Allocate
<1>2. phase' \in Early
  BY <1>1 DEF Allocate, Early
<1>3. TodoOK' /\ PlanOK' /\ SuiteOK'
  BY <1>1, <1>2 DEF TodoOK, PlanOK, SuiteOK, Early, Drafted, Judged
<1>4. CASE Total(quotas) < request.budget /\ Eligible # {}
  <2> DEFINE least == LeastRepresented(Eligible)
  <2>1. quotas' = [quotas EXCEPT ![least] = @ + 1] /\ phase' = phase
    BY <1>4 DEF Allocate
  <2>2. least \in Eligible /\ \A e \in Eligible : quotas[least] <= quotas[e]
    BY <1>4, LeastRepresentedFacts DEF GeneratorType
  <2>3. quotas \in [Dims -> Nat] /\ least \in Dims
    BY <2>2 DEF GeneratorType, Eligible
  <2>4. IsFiniteSet(Pairs(quotas')) /\ Total(quotas') = Total(quotas) + 1
    <3> HIDE DEF least
    <3> QED BY <2>1, <2>3, PairsGrow DEF QuotasOK
  <2>5. Total(quotas) \in Nat /\ request.budget \in Nat
    BY <2>3, TotalType DEF QuotasOK, GeneratorType
  <2>6. GeneratorType'
    BY <1>1, <2>1, <2>3 DEF GeneratorType
  <2>7. ASSUME NEW d \in Dims, NEW e \in Dims,
               quotas'[e] < Cardinality(Of(e, request.available))
        PROVE  quotas'[d] <= quotas'[e] + 1
    <3> HIDE DEF least
    <3>1. quotas'[least] = quotas[least] + 1 /\ \A c \in Dims \ {least} : quotas'[c] = quotas[c]
      BY <2>1, <2>3
    <3>2. Cardinality(Of(e, request.available)) \in Nat
      <4>1. IsFiniteSet(Of(e, request.available))
        BY AbilityAssumption, FS_Subset DEF GeneratorType, Of
      <4> QED BY <4>1, FS_CardinalityType
    <3>3. quotas[e] < Cardinality(Of(e, request.available))
      BY <2>3, <2>7, <3>1, <3>2
    <3>4. quotas[d] <= quotas[e] + 1 /\ quotas[least] <= quotas[e]
      BY <2>2, <3>3 DEF QuotasOK, Eligible
    <3> QED BY <2>3, <3>1, <3>4
  <2>8. QuotasOK'
    <3> HIDE DEF least
    <3>1. Total(quotas)' = Total(quotas') /\ Pairs(quotas)' = Pairs(quotas')
      BY DEF Total, Pairs
    <3>2. Total(quotas') <= request.budget
      BY <1>4, <2>4, <2>5
    <3>3. \A d, e \in Dims : quotas'[e] < Cardinality(Of(e, request'.available))
                               => quotas'[d] <= quotas'[e] + 1
      BY <1>1, <2>7
    <3>4. phase' = "allocating" /\ request' = request
      BY <1>1, <2>1
    <3> QED BY <2>4, <3>1, <3>2, <3>3, <3>4 DEF QuotasOK, Early
  <2> QED BY <1>3, <2>6, <2>8
<1>5. CASE ~(Total(quotas) < request.budget /\ Eligible # {})
  <2>1. phase' = "planning" /\ UNCHANGED <<request, quotas>>
    BY <1>1, <1>5 DEF Allocate
  <2>2. Total(quotas) \in Nat /\ request.budget \in Nat
    BY TotalType DEF QuotasOK, GeneratorType
  <2>3. /\ Allocatable'
        /\ Total(quotas)' = Total(quotas) /\ Pairs(quotas)' = Pairs(quotas)
        /\ Eligible' = Eligible
    BY <1>1, <2>1, SameQuotas
  <2>4. QuotasOK'
    <3>1. Total(quotas)' >= request'.budget \/ Eligible' = {}
      BY <1>5, <2>1, <2>2, <2>3
    <3>2. \A d, e \in Dims : quotas'[e] < Cardinality(Of(e, request'.available))
                               => quotas'[d] <= quotas'[e] + 1
      BY <2>1 DEF QuotasOK
    <3>3. IsFiniteSet(Pairs(quotas)') /\ Total(quotas)' <= request'.budget
      BY <1>1, <2>1, <2>3 DEF QuotasOK
    <3> QED BY <2>1, <2>3, <3>1, <3>2, <3>3 DEF QuotasOK, Early
  <2>5. GeneratorType'
    BY <1>1, <2>1 DEF GeneratorType, Phases, Early
  <2> QED BY <1>3, <2>4, <2>5
<1> QED BY <1>4, <1>5

\* A plan that passes the checks has as many slots as the quotas, each once.
LEMMA PlanKeeps == GeneratorInv /\ Plan => GeneratorInv'
<1> SUFFICES ASSUME GeneratorInv, Plan
             PROVE  GeneratorInv'
  OBVIOUS
<1> USE DEF GeneratorInv
<1>1. /\ phase = "planning" /\ Plannable /\ plan' \in Plans
      /\ phase' = "drafting" /\ todo' = plan'
      /\ UNCHANGED <<request, quotas, suite, mend, repairs>>
  BY DEF Plan
<1>2. Total(quotas) \in Nat /\ Total(quotas) # 0
  BY <1>1, TotalType DEF QuotasOK, GeneratorType, Plannable
<1>3. /\ plan' \in [1..Total(quotas) -> Inventory]
      /\ \A i, j \in DOMAIN plan' : plan'[i] = plan'[j] => i = j
  BY <1>1 DEF Plans
<1>4. Inventory \subseteq Slots
  BY DEF Inventory, GeneratorType
<1>5. plan' \in Seq(Slots) /\ Len(plan') = Total(quotas) /\ plan' # <<>>
  <2>1. plan' \in [1..Total(quotas) -> Slots]
    BY <1>3, <1>4
  <2>2. plan' \in Seq(Slots) /\ Len(plan') = Total(quotas)
    BY <1>2, <2>1, FunctionIsSeq
  <2> QED BY <1>2, <2>2, EmptySeq
<1>6. suite = <<>>
  BY <1>1 DEF SuiteOK, Early
<1>7. GeneratorType'
  BY <1>1, <1>5 DEF GeneratorType, Phases
<1>8. TodoOK'
  BY <1>1, <1>5 DEF TodoOK
<1>9. /\ Allocatable' <=> Allocatable
      /\ Plannable' <=> Plannable
      /\ Total(quotas)' = Total(quotas) /\ Pairs(quotas)' = Pairs(quotas)
      /\ Eligible' = Eligible
  BY <1>1, SameQuotas
<1>10. QuotasOK'
  <2>1. \A d, e \in Dims : quotas'[e] < Cardinality(Of(e, request'.available))
                             => quotas'[d] <= quotas'[e] + 1
    BY <1>1 DEF QuotasOK
  <2>2. IsFiniteSet(Pairs(quotas)') /\ (Allocatable' => Total(quotas)' <= request'.budget)
    BY <1>1, <1>9 DEF QuotasOK
  <2>3. Allocatable' /\ (Total(quotas)' >= request'.budget \/ Eligible' = {}) /\ Plannable'
    BY <1>1, <1>9 DEF QuotasOK
  <2> QED BY <2>1, <2>2, <2>3 DEF QuotasOK
<1>11. PlanOK'
  BY <1>3, <1>5, <1>9 DEF PlanOK
<1>12. SuiteOK'
  <2>1. Len(suite') + Len(todo') = Len(plan')
    BY <1>1, <1>2, <1>5, <1>6
  <2> QED BY <1>1, <2>1 DEF SuiteOK, Early, Drafted, Judged
<1> QED BY <1>7, <1>8, <1>10, <1>11, <1>12

\* A question for every slot is no more than were asked for.
LEMMA DraftKeeps ==
  ASSUME NEW text \in Texts, GeneratorInv, Draft(text)
  PROVE  GeneratorInv'
<1> USE DEF GeneratorInv
<1> DEFINE test == [id |-> Len(suite) + 1, slot |-> Head(todo), text |-> text]
           tests == Append(suite, test)
<1>1. phase = "drafting" /\ UNCHANGED <<request, quotas, plan, repairs>>
  BY DEF Draft
<1>2. todo \in Seq(Slots) /\ todo # <<>> /\ suite \in Seq(Question)
  BY <1>1 DEF TodoOK, GeneratorType
<1>3. Head(todo) \in Slots /\ Tail(todo) \in Seq(Slots) /\ Len(Tail(todo)) = Len(todo) - 1
  BY <1>2, HeadTailProperties
<1>4. Len(todo) \in Nat /\ Len(suite) \in Nat /\ Len(plan) \in Nat
  BY <1>2, LenProperties DEF GeneratorType
<1>5. test \in Question
  BY <1>3, <1>4 DEF Question
<1> HIDE DEF test
<1>6. tests \in Seq(Question) /\ Len(tests) = Len(suite) + 1
  BY <1>2, <1>5
<1> HIDE DEF tests
<1>7. Len(suite) + Len(todo) = Len(plan) /\ Len(plan) <= request.budget
  <2>1. Len(plan) = Total(quotas) /\ Allocatable
    BY <1>1 DEF PlanOK, QuotasOK, Early
  <2> QED BY <1>1, <2>1 DEF SuiteOK, QuotasOK
<1>8. CASE Len(todo) = 1
  <2>1. suite' = Accepted(tests) /\ Continue("cleaning")
    BY <1>8 DEF Draft, tests, test
  <2>2. suite' \in Seq(Question) /\ Len(suite') <= Len(tests) /\ Kept(suite')
    BY <1>6, <2>1, AcceptedFacts
  <2>3. Len(suite') <= request.budget
    <3>1. Len(suite') \in Nat /\ request.budget \in Nat
      BY <2>2, LenProperties DEF GeneratorType
    <3> QED BY <1>4, <1>6, <1>7, <1>8, <2>2, <3>1
  <2>4. phase \notin Early \cup {"failed"}
    BY <1>1 DEF Early
  <2> HIDE DEF GeneratorInv
  <2> QED BY <1>1, <2>1, <2>2, <2>3, <2>4, ContinueKeeps
<1>9. CASE Len(todo) # 1
  <2>1. suite' = tests /\ todo' = Tail(todo) /\ UNCHANGED <<phase, mend>>
    BY <1>9 DEF Draft, tests, test
  <2>2. QuotasOK' /\ PlanOK'
    BY <1>1, PlanStays DEF Early
  <2>3. GeneratorType'
    BY <1>1, <1>6, <2>1 DEF GeneratorType
  <2>4. Tail(todo) # <<>>
    BY <1>2, <1>9, RestOfSeq
  <2>5. TodoOK'
    BY <1>1, <1>3, <2>1, <2>4 DEF TodoOK
  <2>6. SuiteOK'
    <3>1. Len(suite') + Len(todo') = Len(plan')
      BY <1>1, <1>3, <1>4, <1>6, <1>7, <2>1
    <3> QED BY <1>1, <2>1, <3>1 DEF SuiteOK, Early, Drafted, Judged
  <2> QED BY <2>2, <2>3, <2>5, <2>6
<1> QED BY <1>8, <1>9

\* Wording that came earlier is dropped, and what it asked is written again.
LEMMA CleanKeeps == GeneratorInv /\ Clean => GeneratorInv'
<1> SUFFICES ASSUME GeneratorInv, Clean
             PROVE  GeneratorInv'
  OBVIOUS
<1>1. /\ phase = "cleaning" /\ suite' = WithoutRepeats(suite) /\ Continue("reviewing")
      /\ UNCHANGED <<request, quotas, plan, repairs>>
  BY DEF Clean
<1>2. suite \in Seq(Question) /\ Kept(suite) /\ Len(suite) <= request.budget /\ request.budget \in Nat
  BY <1>1 DEF GeneratorInv, GeneratorType, SuiteOK, Drafted
<1>3. /\ suite' \in Seq(Question) /\ Len(suite') <= Len(suite)
      /\ Varied(suite') /\ Kept(suite')
  BY <1>1, <1>2, WithoutRepeatsFacts
<1>4. Len(suite') <= request.budget
  <2>1. Len(suite) \in Nat /\ Len(suite') \in Nat
    BY <1>2, <1>3, LenProperties
  <2> QED BY <1>2, <1>3, <2>1
<1>5. phase \notin Early \cup {"failed"}
  BY <1>1 DEF Early
<1> QED BY <1>1, <1>3, <1>4, <1>5, ContinueKeeps

\* The end of a round: what the checks leave of it is added, and either every
\* slot that was missing is asked, or another round asks for the rest.
LEMMA EndRoundKeeps ==
  ASSUME GeneratorInv, phase = "mending", NEW additions \in Seq(Question),
         EndRound(suite \o Fresh(suite, additions))
  PROVE  GeneratorInv'
<1> DEFINE completed == suite \o Fresh(suite, additions)
<1>1. suite \in Seq(Question) /\ mend.gaps \in Seq(Slots) /\ plan \in Seq(Slots)
  BY DEF GeneratorInv, GeneratorType
<1>2. /\ completed \in Seq(Question)
      /\ \A j \in DOMAIN suite : j \in DOMAIN completed /\ completed[j] = suite[j]
      /\ Kept(suite) => Kept(completed)
      /\ Varied(suite) => Varied(completed)
  BY <1>1, JoinedFacts
<1> HIDE DEF completed
<1> DEFINE remaining == Gaps(completed, mend.gaps)
<1>3. EndRound(completed)
  BY DEF completed
<1>4. CASE \/ Len(completed) > request.budget
           \/ remaining # <<>> /\ mend.round = MAX_COVERAGE_REPAIR_ROUNDS
  BY <1>3, <1>4, FailKeeps DEF EndRound
<1>5. CASE ~(\/ Len(completed) > request.budget
             \/ remaining # <<>> /\ mend.round = MAX_COVERAGE_REPAIR_ROUNDS)
  <2>1. /\ suite' = completed /\ todo' = remaining
        /\ IF todo' = <<>> THEN phase' = mend.then /\ mend' = Idle
           ELSE /\ mend' = [mend EXCEPT !.round = @ + 1, !.additions = <<>>]
                /\ UNCHANGED phase
        /\ UNCHANGED <<request, quotas, plan, repairs>>
    BY <1>3, <1>5 DEF EndRound
  <2>2. /\ remaining \in Seq(Slots)
        /\ remaining = <<>> =>
             \A i \in DOMAIN mend.gaps : \E j \in DOMAIN completed : completed[j].slot = mend.gaps[i]
    BY <1>1, <1>2, GapsFacts
  <2>3. Len(completed) <= request.budget
    <3>1. Len(completed) \in Nat /\ request.budget \in Nat
      BY <1>2, LenProperties DEF GeneratorInv, GeneratorType
    <3> QED BY <1>5, <3>1
  <2>4. /\ mend.then \in {"cleaning", "reviewing"} /\ Kept(suite)
        /\ mend.then = "reviewing" => Varied(suite)
        /\ \A i \in DOMAIN plan :
             \/ \E j \in DOMAIN mend.gaps : mend.gaps[j] = plan[i]
             \/ \E j \in DOMAIN suite : suite[j].slot = plan[i]
    BY DEF GeneratorInv, SuiteOK
  <2> HIDE DEF remaining
  <2>5. /\ QuotasOK' /\ PlanOK'
    BY <2>1, PlanStays DEF GeneratorInv, Early
  <2>6. /\ Kept(suite)' /\ (mend.then = "reviewing" => Varied(suite)')
    BY <1>2, <2>1, <2>4 DEF Kept, Varied
  <2>7. \A i \in DOMAIN plan :
          \/ \E j \in DOMAIN mend.gaps : mend.gaps[j] = plan[i]
          \/ \E j \in DOMAIN completed : completed[j].slot = plan[i]
    BY <1>2, <2>4
  <2>8. CASE remaining = <<>>
    <3>1. phase' = mend.then /\ mend' = Idle
      BY <2>1, <2>8
    <3>2. \A i \in DOMAIN plan : \E j \in DOMAIN completed : completed[j].slot = plan[i]
      BY <2>2, <2>7, <2>8
    <3>3. Covered(suite)'
      BY <2>1, <3>2 DEF Covered
    <3>4. GeneratorType'
      <4>1. Idle \in [round : 0..MAX_COVERAGE_REPAIR_ROUNDS, gaps : Seq(Slots),
                      additions : Seq(Question), then : {"idle", "cleaning", "reviewing"}]
        BY BoundAssumption, EmptySeq DEF Idle
      <4>2. phase' \in Phases
        BY <2>4, <3>1 DEF Phases, Drafted, Judged
      <4> QED BY <1>2, <2>1, <3>1, <4>1, <4>2 DEF GeneratorInv, GeneratorType
    <3>5. TodoOK'
      BY <2>4, <3>1 DEF TodoOK
    <3>6. SuiteOK'
      BY <2>1, <2>3, <2>4, <2>6, <3>1, <3>3 DEF SuiteOK, Early, Drafted, Judged
    <3> QED BY <2>5, <3>4, <3>5, <3>6 DEF GeneratorInv
  <2>9. CASE remaining # <<>>
    <3>1. /\ mend' = [mend EXCEPT !.round = @ + 1, !.additions = <<>>]
          /\ phase' = "mending" /\ mend.round # MAX_COVERAGE_REPAIR_ROUNDS
      BY <1>5, <2>1, <2>9 DEF remaining
    <3>2. mend \in [round : 0..MAX_COVERAGE_REPAIR_ROUNDS, gaps : Seq(Slots),
                    additions : Seq(Question), then : {"idle", "cleaning", "reviewing"}]
      BY DEF GeneratorInv, GeneratorType
    <3>3. /\ mend' \in [round : 0..MAX_COVERAGE_REPAIR_ROUNDS, gaps : Seq(Slots),
                        additions : Seq(Question), then : {"idle", "cleaning", "reviewing"}]
          /\ mend'.gaps = mend.gaps /\ mend'.then = mend.then
      <4>1. mend.round + 1 \in 0..MAX_COVERAGE_REPAIR_ROUNDS
        BY <3>1, <3>2, BoundAssumption
      <4> QED BY <3>1, <3>2, <4>1, EmptySeq
    <3>4. GeneratorType'
      BY <1>2, <2>1, <3>1, <3>3 DEF GeneratorInv, GeneratorType
    <3>5. TodoOK'
      BY <2>1, <2>2, <2>9, <3>1 DEF TodoOK
    <3>6. SuiteOK'
      BY <2>1, <2>3, <2>4, <2>6, <2>7, <3>1, <3>3 DEF SuiteOK, Early, Drafted, Judged
    <3> QED BY <2>5, <3>4, <3>5, <3>6 DEF GeneratorInv
  <2> QED BY <2>8, <2>9
<1> QED BY <1>4, <1>5

\* A slot of a round is written or left to the next round.
LEMMA MendKeeps ==
  ASSUME GeneratorInv, NEW written \in Seq(Question), Mend(written)
  PROVE  GeneratorInv'
<1>1. phase = "mending"
  BY DEF Mend
<1>2. /\ todo \in Seq(Slots) /\ todo # <<>>
      /\ mend \in [round : 0..MAX_COVERAGE_REPAIR_ROUNDS, gaps : Seq(Slots),
                   additions : Seq(Question), then : {"idle", "cleaning", "reviewing"}]
  BY <1>1 DEF GeneratorInv, TodoOK, GeneratorType
<1> DEFINE additions == mend.additions \o written
<1>3. additions \in Seq(Question)
  BY <1>2, ConcatProperties
<1> HIDE DEF additions
<1>4. CASE Len(todo) = 1
  <2>1. EndRound(suite \o Fresh(suite, additions))
    BY <1>4 DEF Mend, additions
  <2> QED BY <1>1, <1>3, <2>1, EndRoundKeeps
<1>5. CASE Len(todo) # 1
  <2>1. /\ todo' = Tail(todo) /\ mend' = [mend EXCEPT !.additions = additions]
        /\ UNCHANGED <<phase, request, quotas, plan, suite, repairs>>
    BY <1>5 DEF Mend, additions
  <2>2. QuotasOK' /\ PlanOK'
    BY <1>1, <2>1, PlanStays DEF GeneratorInv, Early
  <2>3. /\ mend' \in [round : 0..MAX_COVERAGE_REPAIR_ROUNDS, gaps : Seq(Slots),
                      additions : Seq(Question), then : {"idle", "cleaning", "reviewing"}]
        /\ mend'.gaps = mend.gaps /\ mend'.then = mend.then
    BY <1>2, <1>3, <2>1
  <2>4. GeneratorType'
    BY <2>1, <2>3 DEF GeneratorInv, GeneratorType
  <2>5. Tail(todo) \in Seq(Slots) /\ Tail(todo) # <<>>
    BY <1>2, <1>5, RestOfSeq, HeadTailProperties
  <2>6. TodoOK'
    BY <1>1, <2>1, <2>5 DEF TodoOK
  <2>7. SuiteOK'
    BY <1>1, <2>1, <2>3 DEF GeneratorInv, SuiteOK, Early, Drafted, Judged, Kept, Varied
  <2> QED BY <2>2, <2>4, <2>6, <2>7 DEF GeneratorInv
<1> QED BY <1>4, <1>5

\* What is written for a slot is a question of it.
LEMMA WrittenType ==
  ASSUME GeneratorInv, phase = "mending", NEW text \in Texts
  PROVE  Written(text) \in Seq(Question)
<1>1. todo \in Seq(Slots) /\ todo # <<>>
  BY DEF GeneratorInv, TodoOK
<1>2. Head(todo) \in Slots
  BY <1>1, HeadTailProperties
<1>3. Len(suite) + Len(mend.additions) + 1 \in Nat
  <2>1. suite \in Seq(Question) /\ mend.additions \in Seq(Question)
    BY DEF GeneratorInv, GeneratorType
  <2> QED BY <2>1, LenProperties
<1>4. [id |-> Len(suite) + Len(mend.additions) + 1, slot |-> Head(todo), text |-> text] \in Question
  BY <1>2, <1>3 DEF Question
<1> QED BY <1>4 DEF Written

\* A review asks for replacements of questions that are there.
LEMMA ReviewKeeps == GeneratorInv /\ Review => GeneratorInv'
<1> SUFFICES ASSUME GeneratorInv, Review
             PROVE  GeneratorInv'
  OBVIOUS
<1>1. phase = "reviewing"
  BY DEF Review
<1>2. CASE repairs >= MAX_SEMANTIC_REPAIR_ROUNDS
  BY <1>2, FailKeeps DEF Review
<1>3. CASE ~(repairs >= MAX_SEMANTIC_REPAIR_ROUNDS)
  <2>0. PICK duplicates \in SUBSET Later : \E issues \in SUBSET (Ids \ duplicates) :
          duplicates \cup issues # {} /\ ReviewFinds(duplicates, issues)
    BY <1>3 DEF Review
  <2>1. PICK issues \in SUBSET (Ids \ duplicates) :
          duplicates \cup issues # {} /\ ReviewFinds(duplicates, issues)
    BY <2>0
  <2>2. duplicates \in SUBSET Ids /\ issues \in SUBSET Ids
    BY <2>1 DEF Later
  <2>3. suite \in Seq(Question)
    BY DEF GeneratorInv, GeneratorType
  <2>4. /\ phase' = "rewording" /\ repairs' = repairs + 1
        /\ UNCHANGED <<request, quotas, plan, suite, mend>>
    BY <2>1 DEF ReviewFinds, Counted
  <2>5. todo' \in Seq([id : Ids, every : BOOLEAN]) /\ todo' # <<>>
    BY <2>1, <2>2, <2>3, FindsFacts DEF ReviewFinds
  <2>6. QuotasOK' /\ PlanOK'
    BY <1>1, <2>4, PlanStays DEF GeneratorInv, Early
  <2>7. GeneratorType'
    <3>1. repairs' \in 0..MAX_SEMANTIC_REPAIR_ROUNDS
      BY <1>3, <2>4, BoundAssumption DEF GeneratorInv, GeneratorType
    <3> QED BY <2>4, <3>1 DEF GeneratorInv, GeneratorType, Phases, Drafted
  <2>8. TodoOK'
    <3>1. Ids' = Ids /\ Ids \subseteq Nat
      <4>1. \A i \in DOMAIN suite : suite[i] \in Question
        BY <2>3, LenProperties
      <4> QED BY <2>4, <4>1 DEF Ids, Question
    <3>2. todo' \in Seq(Demand)
      BY <2>5, <3>1, SeqMonotonic DEF Demand
    <3>3. \A i \in DOMAIN todo' : todo'[i].id \in Ids
      <4> DEFINE D == [id : Ids, every : BOOLEAN]
      <4>1. todo' \in Seq(D)
        BY <2>5
      <4>2. \A d \in D : d.id \in Ids
        OBVIOUS
      <4> HIDE DEF D
      <4>3. DOMAIN todo' = 1..Len(todo') /\ \A i \in 1..Len(todo') : todo'[i] \in D
        BY <4>1, LenProperties, ElementOfSeq
      <4> QED BY <4>2, <4>3
    <3> QED BY <2>4, <2>5, <3>1, <3>2, <3>3 DEF TodoOK
  <2>9. SuiteOK'
    BY <1>1, <2>4 DEF GeneratorInv, SuiteOK, Early, Drafted, Judged
  <2> QED BY <2>6, <2>7, <2>8, <2>9 DEF GeneratorInv
<1> QED BY <1>2, <1>3

\* Rewording leaves as many questions under the same ids, and at its end fewer.
LEMMA RewordKeeps ==
  ASSUME NEW text \in Texts, GeneratorInv, Reword(text)
  PROVE  GeneratorInv'
<1>1. /\ phase = "rewording" /\ todo' = Tail(todo)
      /\ UNCHANGED <<request, quotas, plan, mend, repairs>>
  BY DEF Reword
<1>2. /\ todo \in Seq(Demand) /\ todo # <<>> /\ \A i \in DOMAIN todo : todo[i].id \in Ids
      /\ suite \in Seq(Question) /\ Len(suite) <= request.budget /\ request.budget \in Nat
  BY <1>1 DEF GeneratorInv, TodoOK, GeneratorType, SuiteOK, Drafted
<1>3. /\ Head(todo) \in Demand /\ Tail(todo) \in Seq(Demand)
      /\ Len(Tail(todo)) = Len(todo) - 1 /\ Len(todo) \in Nat
      /\ \A i \in 1..Len(Tail(todo)) : Tail(todo)[i] = todo[i + 1]
  BY <1>2, HeadTailProperties, LenProperties
<1> DEFINE tests(last) == Reworded(last, Head(todo).every, text)
<1>4. PICK last \in DOMAIN suite :
        IF todo' = <<>> THEN suite' = Accepted(tests(last)) /\ phase' = "cleaning"
        ELSE suite' = tests(last) /\ UNCHANGED phase
  BY DEF Reword
<1>5. /\ tests(last) \in Seq(Question) /\ Len(tests(last)) = Len(suite)
      /\ DOMAIN tests(last) = DOMAIN suite
      /\ \A i \in DOMAIN suite : tests(last)[i].id = suite[i].id
  <2>1. Head(todo).every \in BOOLEAN
    BY <1>3 DEF Demand
  <2> QED BY <1>2, <2>1, RewordedFacts
<1> HIDE DEF tests
<1>6. QuotasOK' /\ PlanOK'
  BY <1>1, PlanStays DEF GeneratorInv, Early
<1>7. CASE todo' = <<>>
  <2>1. /\ suite' \in Seq(Question) /\ Kept(suite') /\ Len(suite') <= Len(suite)
        /\ phase' = "cleaning"
    BY <1>4, <1>5, <1>7, AcceptedFacts
  <2>2. Len(suite') <= request.budget
    <3>1. Len(suite') \in Nat /\ Len(suite) \in Nat
      BY <1>2, <2>1, LenProperties
    <3> QED BY <1>2, <2>1, <3>1
  <2>3. GeneratorType'
    BY <1>1, <2>1 DEF GeneratorInv, GeneratorType, Phases, Drafted
  <2>4. TodoOK'
    BY <2>1 DEF TodoOK
  <2>5. SuiteOK'
    BY <1>1, <2>1, <2>2 DEF SuiteOK, Kept, Early, Drafted, Judged
  <2> QED BY <1>6, <2>3, <2>4, <2>5 DEF GeneratorInv
<1>8. CASE todo' # <<>>
  <2>1. suite' = tests(last) /\ phase' = "rewording"
    BY <1>1, <1>4, <1>8
  <2>2. GeneratorType'
    BY <1>1, <1>5, <2>1 DEF GeneratorInv, GeneratorType, Phases, Drafted
  <2>3. TodoOK'
    <3>1. Ids' = Ids
      BY <1>5, <2>1 DEF Ids
    <3>2. \A i \in DOMAIN todo' : todo'[i].id \in Ids
      <4>1. DOMAIN todo' = 1..Len(Tail(todo)) /\ DOMAIN todo = 1..Len(todo)
        BY <1>1, <1>2, <1>3, LenProperties
      <4> QED BY <1>1, <1>2, <1>3, <4>1
    <3> QED BY <1>1, <1>3, <1>8, <2>1, <3>1, <3>2 DEF TodoOK
  <2>4. SuiteOK'
    BY <1>1, <1>2, <1>5, <2>1 DEF SuiteOK, Early, Drafted, Judged
  <2> QED BY <1>6, <2>2, <2>3, <2>4 DEF GeneratorInv
<1> QED BY <1>7, <1>8

\* A suite that a review found nothing in asks every slot of the plan, so there
\* is nothing to fill, and the gate leaves all of it.
LEMMA ReviewIsClearKeeps == GeneratorInv /\ ReviewIsClear => GeneratorInv'
<1> SUFFICES ASSUME GeneratorInv, ReviewIsClear
             PROVE  GeneratorInv'
  OBVIOUS
<1>1. phase = "reviewing"
  BY DEF ReviewIsClear
<1>2. suite \in Seq(Question) /\ plan \in Seq(Slots) /\ Covered(suite) /\ Kept(suite)
  BY <1>1 DEF GeneratorInv, GeneratorType, SuiteOK, Judged
<1>3. \A i, j \in DOMAIN plan : plan[i] = plan[j] => i = j
  BY <1>1 DEF GeneratorInv, PlanOK, Early
<1>4. ~(Len(suite) < Len(plan))
  <2>1. Len(plan) <= Len(suite)
    BY <1>2, <1>3, AnsweredOnce
  <2>2. Len(plan) \in Nat /\ Len(suite) \in Nat
    BY <1>2, LenProperties
  <2> QED BY <2>1, <2>2
<1>5. Accepted(suite) = suite
  BY <1>2, AcceptedFacts
<1>6. CASE Suitable(Accepted(suite))
  <2>1. /\ phase' = "completed" /\ suite' = suite
        /\ UNCHANGED <<request, quotas, plan, todo, mend, repairs>>
    BY <1>4, <1>5, <1>6 DEF ReviewIsClear
  <2>2. QuotasOK' /\ PlanOK'
    BY <1>1, <2>1, PlanStays DEF GeneratorInv, Early
  <2>3. GeneratorType'
    BY <2>1 DEF GeneratorInv, GeneratorType, Phases, Drafted, Judged
  <2>4. TodoOK'
    BY <2>1 DEF TodoOK
  <2>5. Suitable(suite)'
    BY <1>5, <1>6, <2>1 DEF Suitable, Asking
  <2>6. SuiteOK'
    BY <1>1, <2>1, <2>5 DEF GeneratorInv, SuiteOK, Early, Drafted, Judged, Kept, Varied, Covered
  <2> QED BY <2>2, <2>3, <2>4, <2>6 DEF GeneratorInv
<1>7. CASE ~Suitable(Accepted(suite))
  BY <1>4, <1>7, FailKeeps DEF ReviewIsClear
<1> QED BY <1>6, <1>7

\* The gates before the plan, and a call to a model that fails.
LEMMA CallFailsKeeps == GeneratorInv /\ (CallFails \/ Gate) => GeneratorInv'
  BY FailKeeps DEF CallFails, Gate

\* And a step that changes nothing.
LEMMA StutterKeeps == GeneratorInv /\ UNCHANGED vars => GeneratorInv'
  BY DEF vars, GeneratorInv, GeneratorType, TodoOK, QuotasOK, PlanOK, SuiteOK, Ids, Kept, Varied,
         Covered, Suitable, Asking, Allocatable, Plannable, Strict, Total, Pairs, Eligible

\* The invariant: what the quotas promise, what a plan has, and for each phase
\* what the suite has and what is still to be written for it.
THEOREM GeneratorInvariant == Spec => []GeneratorInv
<1>1. GeneratorInv /\ [Next]_vars => GeneratorInv'
  <2> SUFFICES ASSUME GeneratorInv, [Next]_vars
               PROVE  GeneratorInv'
    OBVIOUS
  <2>1. CASE Gate \/ CallFails
    BY <2>1, CallFailsKeeps
  <2>2. CASE Allocate
    BY <2>2, AllocateKeeps
  <2>3. CASE Plan
    BY <2>3, PlanKeeps
  <2>4. ASSUME NEW text \in Texts, Draft(text)
        PROVE  GeneratorInv'
    BY <2>4, DraftKeeps
  <2>5. ASSUME NEW text \in Texts, Mend(Written(text))
        PROVE  GeneratorInv'
    <3>1. phase = "mending"
      BY <2>5 DEF Mend
    <3>2. Written(text) \in Seq(Question)
      BY <3>1, WrittenType
    <3> QED BY <2>5, <3>2, MendKeeps
  <2>6. ASSUME NEW text \in Texts, Reword(text)
        PROVE  GeneratorInv'
    BY <2>6, RewordKeeps
  <2>7. CASE Mend(<<>>)
    BY <2>7, EmptySeq, MendKeeps
  <2>8. CASE Clean
    BY <2>8, CleanKeeps
  <2>9. CASE Review
    BY <2>9, ReviewKeeps
  <2>10. CASE ReviewIsClear
    BY <2>10, ReviewIsClearKeeps
  <2>11. CASE UNCHANGED vars
    BY <2>11, StutterKeeps
  <2> QED BY <2>1, <2>2, <2>3, <2>4, <2>5, <2>6, <2>7, <2>8, <2>9, <2>10, <2>11 DEF Next
<1> QED BY <1>1, InitHolds, PTL DEF Spec

\* TypeOK: the type invariant of the agent.
THEOREM GeneratorTypeCorrect == Spec => []TypeOK
<1>1. GeneratorInv => TypeOK
  <2> SUFFICES ASSUME GeneratorInv
               PROVE  TypeOK
    OBVIOUS
  <2>1. \A i \in DOMAIN suite : suite[i] \in Question
    BY LenProperties, ElementOfSeq DEF GeneratorInv, GeneratorType
  <2>2. \A i \in DOMAIN suite :
          suite[i].slot \in Slots /\ suite[i].text \in Texts /\ suite[i].id \in Nat
    BY <2>1 DEF Question
  <2> QED BY <2>2 DEF GeneratorInv, GeneratorType, TypeOK, Phases, Early, Drafted, Judged
<1> QED BY <1>1, GeneratorInvariant, PTL

(******************************************************************************)
(* The properties.                                                            *)

\* NothingToFill: after the repairs a question stands for every slot of the
\* plan, no more than were requested; a plan as long as the request is asked
\* slot by slot.
THEOREM NothingIsLeftToFill == Spec => []NothingToFill
<1>1. GeneratorInv => NothingToFill
  <2> SUFFICES ASSUME GeneratorInv, phase \in {"reviewing", "filling", "completed"}
               PROVE  /\ phase # "filling"
                      /\ Gaps(suite, plan) = <<>> /\ Len(suite) <= request.budget
                      /\ \A i, j \in DOMAIN suite :
                           Len(plan) = request.budget /\ suite[i].slot = suite[j].slot => i = j
    BY DEF NothingToFill
  <2>1. phase \in Judged
    BY DEF GeneratorInv, GeneratorType, Phases, Early, Drafted, Judged
  <2>2. /\ suite \in Seq(Question) /\ plan \in Seq(Slots) /\ Covered(suite)
        /\ Len(suite) <= request.budget /\ request.budget \in Nat
    BY <2>1 DEF GeneratorInv, GeneratorType, SuiteOK, Drafted, Judged
  <2>3. \A i, j \in DOMAIN plan : plan[i] = plan[j] => i = j
    BY <2>1 DEF GeneratorInv, PlanOK, Early, Judged
  <2>4. Gaps(suite, plan) = <<>>
    BY <2>2, GapsFacts DEF Covered
  <2>5. /\ Len(plan) <= Len(suite)
        /\ Len(plan) = Len(suite) => \A i, j \in DOMAIN suite : suite[i].slot = suite[j].slot => i = j
    BY <2>2, <2>3, AnsweredOnce
  <2>6. Len(plan) = request.budget => Len(plan) = Len(suite)
    <3>1. Len(plan) \in Nat /\ Len(suite) \in Nat
      BY <2>2, LenProperties
    <3> QED BY <2>2, <2>5, <3>1
  <2> QED BY <2>1, <2>2, <2>4, <2>5, <2>6 DEF Judged
<1> QED BY <1>1, GeneratorInvariant, PTL

\* LastChecksAreIdle: where the plan meets the quotas, the checks after the last
\* review find nothing to refuse but a question without letters.
THEOREM LastChecksRefuseNothing == Spec => []LastChecksAreIdle
<1>1. GeneratorInv => LastChecksAreIdle
  <2> SUFFICES ASSUME GeneratorInv, phase = "reviewing", PlanMeetsQuotas,
                      ~\E i \in DOMAIN suite : suite[i].text = Blank
               PROVE  Accepted(suite) = suite /\ Suitable(suite)
    <3> SUFFICES ASSUME GeneratorInv, phase = "reviewing", PlanMeetsQuotas
                 PROVE  /\ Accepted(suite) = suite
                        /\ Suitable(suite) \/ \E i \in DOMAIN suite : suite[i].text = Blank
      BY DEF LastChecksAreIdle
    <3>1. Accepted(suite) = suite
      BY AcceptedFacts DEF GeneratorInv, GeneratorType, SuiteOK, Judged
    <3> QED BY <3>1
  <2>1. /\ suite \in Seq(Question) /\ plan \in Seq(Slots) /\ quotas \in [Dims -> Nat]
        /\ Covered(suite) /\ Kept(suite) /\ Varied(suite)
    BY DEF GeneratorInv, GeneratorType, SuiteOK, Judged
  <2>2. Accepted(suite) = suite
    BY <2>1, AcceptedFacts
  <2>3. plan # <<>> /\ \A i, j \in DOMAIN plan : plan[i] = plan[j] => i = j
    BY DEF GeneratorInv, PlanOK, Early
  <2>4. \A d \in Dims : Asking(d, suite) >= quotas[d]
    <3> SUFFICES ASSUME NEW d \in Dims
                 PROVE  Asking(d, suite) >= quotas[d]
      OBVIOUS
    <3>1. Cardinality({i \in DOMAIN plan : AbilityOf[plan[i]] = d}) = quotas[d]
      BY <2>3 DEF PlanMeetsQuotas
    <3>2. quotas[d] <= Asking(d, suite)
      BY <2>1, <2>3, <3>1, AnsweredByAbility
    <3> QED BY <2>1, <3>2
  <2>5. \A i, j \in DOMAIN suite : suite[i].text = suite[j].text => i = j
    BY <2>1 DEF Varied
  <2> QED BY <2>2, <2>4, <2>5 DEF Suitable
<1> QED BY <1>1, GeneratorInvariant, PTL

\* CompletedIsSound: a completed suite uses up the request or the evidence, is
\* even among the abilities with evidence left, and repeats no wording.  It has
\* at least the quota of every ability, and no more questions than the request;
\* so if the quotas exhaust the request it has exactly the quotas, which are even,
\* and if they do not, they exhaust the evidence.
THEOREM CompletedSuitesAreSound == Spec => []CompletedIsSound
<1>1. GeneratorInv => CompletedIsSound
  <2> SUFFICES ASSUME GeneratorInv, phase = "completed"
               PROVE  CompletedIsSound
    BY DEF CompletedIsSound
  <2> DEFINE count == [d \in Dims |-> Asking(d, suite)]
             Evident(d) == Cardinality(Of(d, request.available))
  <2>1. /\ suite \in Seq(Question) /\ quotas \in [Dims -> Nat]
        /\ request.budget \in Nat /\ request.available \in SUBSET Slots
        /\ Len(suite) <= request.budget /\ Kept(suite) /\ Suitable(suite)
    BY DEF GeneratorInv, GeneratorType, SuiteOK, Drafted, Judged
  <2>2. /\ \A d, e \in Dims : quotas[e] < Evident(e) => quotas[d] <= quotas[e] + 1
        /\ Total(quotas) >= request.budget \/ Eligible = {}
        /\ Strict => Total(quotas) >= request.budget
    BY DEF GeneratorInv, QuotasOK, Plannable, Early
  <2>3. Eligible = {} => \A d \in Dims : ~(quotas[d] < Evident(d))
    BY DEF Eligible
  <2>4. \A d \in Dims : Evident(d) \in Nat
    <3>1. \A d \in Dims : Of(d, request.available) \subseteq Slots
      BY <2>1 DEF Of
    <3>2. \A d \in Dims : IsFiniteSet(Of(d, request.available))
      BY <3>1, AbilityAssumption, FS_Subset
    <3> QED BY <3>2, FS_CardinalityType
  <2>5. \A d \in Dims : quotas[d] <= count[d]
    <3>1. \A d \in Dims : Asking(d, suite) >= quotas[d]
      BY <2>1 DEF Suitable
    <3>2. \A d \in Dims : count[d] = Asking(d, suite)
      OBVIOUS
    <3>3. count \in [Dims -> Nat]
      BY <2>1, AskingCounts
    <3> QED BY <2>1, <3>1, <3>2, <3>3
  <2>6. /\ count \in [Dims -> Nat] /\ IsFiniteSet(Pairs(count))
        /\ Total(count) \in Nat /\ Total(count) <= Len(suite)
    BY <2>1, AskingCounts
  <2> HIDE DEF count
  <2>7. /\ Total(quotas) \in Nat /\ Total(quotas) <= Total(count)
        /\ Total(quotas) = Total(count) => \A d \in Dims : quotas[d] = count[d]
    BY <2>1, <2>5, <2>6, PairsOrdered
  <2>8. Len(suite) \in Nat
    BY <2>1, LenProperties
  <2>9. Total(count) <= request.budget
    BY <2>1, <2>6, <2>8
  <2> HIDE DEF Evident
  <2>10. Total(count) < request.budget => ~Strict /\ \A d \in Dims : Evident(d) - count[d] <= 0
    <3> SUFFICES ASSUME Total(count) < request.budget
                 PROVE  ~Strict /\ \A d \in Dims : Evident(d) - count[d] <= 0
      OBVIOUS
    <3>1. ~(Total(quotas) >= request.budget)
      BY <2>1, <2>6, <2>7
    <3>2. ~Strict /\ \A d \in Dims : ~(quotas[d] < Evident(d))
      BY <2>2, <2>3, <3>1
    <3>3. ASSUME NEW d \in Dims
          PROVE  Evident(d) - count[d] <= 0
      <4>1. Evident(d) \in Nat /\ quotas[d] \in Nat /\ count[d] \in Nat
        BY <2>1, <2>4, <2>6
      <4> QED BY <2>5, <3>2, <4>1
    <3> QED BY <3>2, <3>3
  <2>11. ASSUME NEW d \in Dims, NEW e \in Dims, Evident(e) - count[e] > 0
         PROVE  count[d] <= count[e] + 1
    <3>1. Evident(e) \in Nat /\ quotas[e] \in Nat /\ count[e] \in Nat
      BY <2>1, <2>4, <2>6
    <3>2. quotas[e] < Evident(e)
      BY <2>5, <2>11, <3>1
    <3>3. Total(quotas) >= request.budget
      BY <2>2, <2>3, <3>2
    <3>4. Total(quotas) = Total(count)
      BY <2>1, <2>6, <2>7, <2>9, <3>3
    <3>5. quotas[d] = count[d] /\ quotas[e] = count[e]
      BY <2>7, <3>4
    <3> QED BY <2>2, <3>2, <3>5
  <2>12. Balanced(count)
    BY <2>9, <2>10, <2>11 DEF Balanced, Evident
  <2>13. \A i \in DOMAIN suite :
           /\ suite[i].text \notin Poor \cup {Blank}
           /\ \A j \in DOMAIN suite : suite[i].text = suite[j].text => i = j
    BY <2>1 DEF Kept, Suitable
  <2> QED BY <2>12, <2>13 DEF CompletedIsSound, count
<1> QED BY <1>1, GeneratorInvariant, PTL

=============================================================================
