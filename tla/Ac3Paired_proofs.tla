---------------------------- MODULE Ac3Paired_proofs ----------------------------
(* Proofs about Ac3Paired, for any finite set of questions, any answers, costs, *)
(* workers, cap and reservations: its promises, and that it implements PaidOnce.*)
(* The first part is about the sums the ledger's budget is made of.             *)
EXTENDS Ac3Paired, FiniteSetTheorems, TLAPS

(******************************************************************************)
(* Sums over a finite set.  Total is a fold: a function that is defined by    *)
(* recursion over the subsets of the set.  A set of subsets has a smallest    *)
(* member, so a fact that fails of some subset fails of a smallest one.       *)
(******************************************************************************)

Pick(s) == CHOOSE x \in s : TRUE

\* g[s] is the sum of f over s, for every subset s of S.
SumsOver(f, g, S) ==
  g = [s \in SUBSET S |-> IF s = {} THEN 0 ELSE f[Pick(s)] + g[s \ {Pick(s)}]]

SumsBelow(f, S) == CHOOSE g : SumsOver(f, g, S)

\* The element a fold takes out of a set is one of it.
LEMMA PickIn == ASSUME NEW s, s # {} PROVE Pick(s) \in s
  BY DEF Pick

\* Some set of a nonempty set of subsets of S contains no other of them.
LEMMA Smallest ==
  ASSUME NEW S, IsFiniteSet(S), NEW T, T \subseteq SUBSET S, T # {}
  PROVE  \E s \in T : \A r \in T : r \subseteq s => r = s
<1>1. IsWellFoundedOn(StrictSubsetOrdering(S), SUBSET S)
  BY FS_StrictSubsetOrderingWellFounded, FS_FiniteSubsetsOfFinite
<1>2. PICK s \in T : \A r \in T : ~(<<r, s>> \in StrictSubsetOrdering(S))
  BY <1>1, WFMin
<1> QED BY <1>2 DEF StrictSubsetOrdering

\* The sums over the subsets of a set do not depend on the set.
LEMMA SumsUnique ==
  ASSUME NEW f, NEW g, NEW h, NEW S, IsFiniteSet(S), NEW R,
         SumsOver(f, g, S), SumsOver(f, h, R)
  PROVE  \A s \in SUBSET (S \cap R) : g[s] = h[s]
<1> DEFINE T == {s \in SUBSET (S \cap R) : g[s] # h[s]}
<1> SUFFICES ASSUME T # {} PROVE FALSE
  OBVIOUS
<1>1. T \subseteq SUBSET S
  OBVIOUS
<1> HIDE DEF T
<1>2. PICK s \in T : \A r \in T : r \subseteq s => r = s
  BY <1>1, Smallest
<1> USE DEF T
<1>3. g[s] = (IF s = {} THEN 0 ELSE f[Pick(s)] + g[s \ {Pick(s)}])
  BY <1>2 DEF SumsOver
<1>4. h[s] = (IF s = {} THEN 0 ELSE f[Pick(s)] + h[s \ {Pick(s)}])
  BY <1>2 DEF SumsOver
<1>5. s # {} => g[s \ {Pick(s)}] = h[s \ {Pick(s)}]
  BY <1>2, PickIn
<1> QED BY <1>2, <1>3, <1>4, <1>5

\* The recursive definition of a sum has a solution.
LEMMA SumsExist ==
  ASSUME NEW f, NEW S, IsFiniteSet(S)
  PROVE  \E g : SumsOver(f, g, S)
<1> DEFINE T == {s \in SUBSET S : ~\E g : SumsOver(f, g, s)}
<1> SUFFICES ASSUME T # {} PROVE FALSE
  OBVIOUS
<1>1. T \subseteq SUBSET S
  OBVIOUS
<1> HIDE DEF T
<1>2. PICK U \in T : \A r \in T : r \subseteq U => r = U
  BY <1>1, Smallest
<1> USE DEF T
<1>3. \A w \in SUBSET U : IsFiniteSet(w) /\ (w # U => SumsOver(f, SumsBelow(f, w), w))
  BY <1>2, FS_Subset DEF SumsBelow
<1>4. \A w \in SUBSET U : \A v \in SUBSET w :
        w # U => SumsBelow(f, w)[v] = SumsBelow(f, v)[v]
  <2> TAKE w \in SUBSET U
  <2> TAKE v \in SUBSET w
  <2> HAVE w # U
  <2>1. /\ SumsOver(f, SumsBelow(f, w), w) /\ IsFiniteSet(w)
        /\ SumsOver(f, SumsBelow(f, v), v) /\ v \in SUBSET (w \cap v)
    BY <1>3
  <2> QED BY <2>1, SumsUnique
<1> DEFINE h == [s \in SUBSET U |-> IF s = {} THEN 0
                   ELSE f[Pick(s)] + SumsBelow(f, s \ {Pick(s)})[s \ {Pick(s)}]]
<1>5. \A w \in SUBSET U : w # U => h[w] = SumsBelow(f, w)[w]
  <2> TAKE w \in SUBSET U
  <2> HAVE w # U
  <2>1. SumsBelow(f, w)[w] =
          (IF w = {} THEN 0 ELSE f[Pick(w)] + SumsBelow(f, w)[w \ {Pick(w)}])
    BY <1>3 DEF SumsOver
  <2>2. w # {} => SumsBelow(f, w)[w \ {Pick(w)}]
                    = SumsBelow(f, w \ {Pick(w)})[w \ {Pick(w)}]
    BY <1>4, w \ {Pick(w)} \in SUBSET w
  <2> QED BY <2>1, <2>2
<1>6. \A s \in SUBSET U :
        s # {} => h[s \ {Pick(s)}] = SumsBelow(f, s \ {Pick(s)})[s \ {Pick(s)}]
  BY <1>5, PickIn
<1>7. SumsOver(f, h, U)
  BY <1>6 DEF SumsOver
<1> QED BY <1>2, <1>7

\* Total is the sum that the recursive definition describes.
LEMMA TotalIsSum ==
  ASSUME NEW f, NEW S, IsFiniteSet(S)
  PROVE  SumsOver(f, SumsBelow(f, S), S) /\ Total(f, S) = SumsBelow(f, S)[S]
<1>1. Total(f, S) = SumsBelow(f, S)[S]
  BY DEF Total, FoldFunctionOnSet, MapThenFoldSet, SumsBelow, SumsOver, Pick
<1>2. SumsOver(f, SumsBelow(f, S), S)
  BY SumsExist DEF SumsBelow
<1> QED BY <1>1, <1>2

\* The sum over a set is that over its subset, wherever it is taken.
LEMMA TotalOfSubset ==
  ASSUME NEW f, NEW S, IsFiniteSet(S), NEW R \in SUBSET S
  PROVE  SumsBelow(f, S)[R] = Total(f, R)
<1>1. IsFiniteSet(R)
  BY FS_Subset
<1>2. R \in SUBSET (S \cap R)
  OBVIOUS
<1> QED BY <1>1, <1>2, SumsUnique, TotalIsSum

\* The empty sum.
LEMMA TotalEmpty == \A f : Total(f, {}) = 0
<1> TAKE f
<1>1. IsFiniteSet({}) /\ {} \in SUBSET {}
  BY FS_EmptySet
<1> QED BY <1>1, TotalIsSum DEF SumsOver

\* A sum is its picked element and the sum over the rest.
LEMMA TotalPick ==
  ASSUME NEW f, NEW S, IsFiniteSet(S), S # {}
  PROVE  Total(f, S) = f[Pick(S)] + Total(f, S \ {Pick(S)})
<1>1. SumsBelow(f, S)[S] = f[Pick(S)] + SumsBelow(f, S)[S \ {Pick(S)}]
  BY TotalIsSum DEF SumsOver
<1>2. S \ {Pick(S)} \in SUBSET S
  OBVIOUS
<1> QED BY <1>1, <1>2, TotalIsSum, TotalOfSubset

\* A sum of naturals is one.
LEMMA TotalType ==
  ASSUME NEW f, NEW S, IsFiniteSet(S), \A x \in S : f[x] \in Nat
  PROVE  Total(f, S) \in Nat
<1> DEFINE T == {s \in SUBSET S : Total(f, s) \notin Nat}
<1> SUFFICES ASSUME T # {} PROVE FALSE
  OBVIOUS
<1>1. T \subseteq SUBSET S
  OBVIOUS
<1> HIDE DEF T
<1>2. PICK s \in T : \A r \in T : r \subseteq s => r = s
  BY <1>1, Smallest
<1> USE DEF T
<1>3. s # {} /\ IsFiniteSet(s)
  <2>1. s \in SUBSET S /\ Total(f, s) \notin Nat
    BY <1>2
  <2>2. s # {}
    BY <2>1, TotalEmpty
  <2> QED BY <2>1, <2>2, FS_Subset
<1>4. Total(f, s \ {Pick(s)}) \in Nat
  BY <1>2, <1>3, PickIn
<1> QED BY <1>2, <1>3, <1>4, TotalPick, PickIn

\* Any element may be taken out of a sum first.
LEMMA TotalRemove ==
  ASSUME NEW f, NEW S, IsFiniteSet(S), \A x \in S : f[x] \in Nat, NEW x \in S
  PROVE  Total(f, S) = f[x] + Total(f, S \ {x})
<1> DEFINE T == {s \in SUBSET S : \E y \in s : Total(f, s) # f[y] + Total(f, s \ {y})}
<1> SUFFICES ASSUME T # {} PROVE FALSE
  OBVIOUS
<1>1. T \subseteq SUBSET S
  OBVIOUS
<1> HIDE DEF T
<1>2. PICK s \in T : \A r \in T : r \subseteq s => r = s
  BY <1>1, Smallest
<1> USE DEF T
<1>3. /\ s \in SUBSET S
      /\ \E y \in s : Total(f, s) # f[y] + Total(f, s \ {y})
      /\ \A r \in SUBSET S : r \subseteq s /\ r # s =>
           \A y \in r : Total(f, r) = f[y] + Total(f, r \ {y})
  BY <1>2
<1> HIDE DEF T
<1>4. PICK y \in s : Total(f, s) # f[y] + Total(f, s \ {y})
  BY <1>3
<1>5. /\ Pick(s) \in s /\ IsFiniteSet(s) /\ Pick(s) # y
      /\ Total(f, s) = f[Pick(s)] + Total(f, s \ {Pick(s)})
  BY <1>3, <1>4, PickIn, TotalPick, FS_Subset
<1>6. PICK p \in s : p # y /\ Total(f, s) = f[p] + Total(f, s \ {p})
  BY <1>5
<1> DEFINE rest == (s \ {p}) \ {y}
<1>7. Total(f, s \ {p}) = f[y] + Total(f, rest)
  <2>1. s \ {p} \in SUBSET S /\ s \ {p} # s /\ s \ {p} \subseteq s /\ y \in s \ {p}
    BY <1>3, <1>6
  <2> QED BY <2>1, <1>3
<1>8. Total(f, s \ {y}) = f[p] + Total(f, (s \ {y}) \ {p})
  <2>1. s \ {y} \in SUBSET S /\ s \ {y} # s /\ s \ {y} \subseteq s /\ p \in s \ {y}
    BY <1>3, <1>6
  <2> QED BY <2>1, <1>3
<1>9. /\ (s \ {y}) \ {p} = rest /\ f[p] \in Nat /\ f[y] \in Nat
      /\ rest \in SUBSET S /\ \A z \in rest : f[z] \in Nat
  <2>1. p \in S /\ y \in S
    BY <1>3
  <2>2. (s \ {y}) \ {p} = rest
    OBVIOUS
  <2>3. rest \in SUBSET S
    BY <1>3
  <2> HIDE DEF rest
  <2> QED BY <2>1, <2>2, <2>3
<1>10. Total(f, rest) \in Nat
  <2>1. IsFiniteSet(rest)
    BY <1>9, FS_Subset
  <2> HIDE DEF rest
  <2> QED BY <2>1, <1>9, TotalType
<1>11. Total(f, (s \ {y}) \ {p}) = Total(f, rest)
  BY <1>9
<1>12. f[p] \in Nat /\ f[y] \in Nat
  BY <1>9
<1> HIDE DEF rest
<1>13. Total(f, s) = f[p] + (f[y] + Total(f, rest))
  BY <1>6, <1>7
<1>14. f[y] + Total(f, s \ {y}) = f[y] + (f[p] + Total(f, rest))
  BY <1>8, <1>11
<1> QED BY <1>4, <1>10, <1>12, <1>13, <1>14

\* A sum depends on the summands only.
LEMMA TotalSame ==
  ASSUME NEW f, NEW g, NEW S, IsFiniteSet(S), \A x \in S : f[x] = g[x]
  PROVE  Total(f, S) = Total(g, S)
<1> DEFINE T == {s \in SUBSET S : Total(f, s) # Total(g, s)}
<1> SUFFICES ASSUME T # {} PROVE FALSE
  OBVIOUS
<1>1. T \subseteq SUBSET S
  OBVIOUS
<1> HIDE DEF T
<1>2. PICK s \in T : \A r \in T : r \subseteq s => r = s
  BY <1>1, Smallest
<1> USE DEF T
<1>3. s # {} /\ IsFiniteSet(s)
  BY <1>2, TotalEmpty, FS_Subset
<1>4. Total(f, s \ {Pick(s)}) = Total(g, s \ {Pick(s)})
  BY <1>2, <1>3, PickIn
<1> QED BY <1>2, <1>3, <1>4, TotalPick, PickIn

\* A new element adds its value to a sum.
LEMMA TotalAdd ==
  ASSUME NEW f, NEW g, NEW S, IsFiniteSet(S), NEW x, x \notin S,
         \A y \in S : f[y] = g[y] /\ f[y] \in Nat, g[x] \in Nat
  PROVE  Total(g, S \cup {x}) = Total(f, S) + g[x]
<1>1. /\ IsFiniteSet(S \cup {x}) /\ x \in S \cup {x} /\ (S \cup {x}) \ {x} = S
      /\ \A y \in S \cup {x} : g[y] \in Nat
  BY FS_AddElement
<1>2. Total(g, S \cup {x}) = g[x] + Total(g, S)
  BY <1>1, TotalRemove
<1>3. Total(g, S) = Total(f, S) /\ Total(f, S) \in Nat
  BY TotalSame, TotalType
<1> QED BY <1>2, <1>3

(******************************************************************************)
(* The inductive invariant.                                                   *)
(******************************************************************************)

Unresolved(q) == receipt[q].status \in {"dispatched", "pending"}

\* The scope is blocked exactly while a request is unresolved, one at a time.
OneUnresolved ==
  /\ \A p, q \in Requests : Unresolved(p) /\ Unresolved(q) => p = q
  /\ scope = "unknown" <=> \E q \in Requests : Unresolved(q)

\* The columns of a receipt agree: a kept answer is what the provider answered
\* to a request that was sent, and only a settled one has a cost.
ReceiptShape ==
  \A q \in Requests :
    /\ receipt[q].status = "absent" => receipt[q] = NoReceipt /\ calls[q] = 0
    /\ receipt[q].status = "dispatched" => receipt[q].answer = NoAnswer
    /\ receipt[q].cost # NoCost <=> receipt[q].status \in {"settled", "overrun"}
    /\ receipt[q].status \in {"pending", "settled", "overrun"} =>
         /\ receipt[q].answer \in Answers
         /\ receipt[q].answer = reply[q]
         /\ calls[q] # 0

InFlight == {"send", "sent", "keep", "settle"}

\* What a worker knows of its request, from its dispatch to its settlement.
WorkerShape ==
  \A w \in Workers :
    /\ pc[w] # "idle" => job[w].request \in Requests
    /\ pc[w] \in {"send", "sent", "keep"} => receipt[job[w].request].status = "dispatched"
    /\ pc[w] = "settle" => receipt[job[w].request].status # "absent" /\ job[w].cost \in Costs
    /\ pc[w] = "send" => calls[job[w].request] = 0
    /\ pc[w] \in {"sent", "keep", "settle"} => calls[job[w].request] # 0
    /\ pc[w] \in {"keep", "settle"} =>
         job[w].answer \in Answers /\ job[w].answer = reply[job[w].request]

\* Only one worker ever sends a request, with the stage locks or without.
SoleSender ==
  \A v, w \in Workers :
    pc[v] \in InFlight /\ pc[w] \in InFlight /\ job[v].request = job[w].request => v = w

PairedInv ==
  /\ TypeOK
  /\ ReceiptShape
  /\ OneUnresolved
  /\ WorkerShape
  /\ SoleSender
  /\ AnswersAgree
  /\ CostsAreCounted
  /\ ReservesCoverTheRest

(******************************************************************************)
(* The ledger's operations, on the receipts.                                  *)
(******************************************************************************)

ReceiptType == [status: {"absent", "dispatched", "pending", "settled", "overrun"},
                answer: Answers \cup {NoAnswer}, cost: Costs \cup {NoCost},
                bound: Answers \cup {NoAnswer}]

JobType == [request: Requests \cup {NoRequest}, bound: Answers \cup {NoAnswer},
            answer: Answers \cup {NoAnswer}, cost: Costs \cup {NoCost}]

\* A question has two requests and a request has one question.
LEMMA RequestParts ==
  /\ \A t \in Tests : <<t, "target">> \in Requests /\ <<t, "scorer">> \in Requests
  /\ \A q \in Requests :
       q[1] \in Tests /\ (q = <<q[1], "target">> \/ q = <<q[1], "scorer">>)
  BY DEF Requests, Roles

\* There are finitely many requests.
LEMMA RequestsFinite == IsFiniteSet(Requests)
<1>1. IsFiniteSet(Roles)
  <2>1. IsFiniteSet({"target"})
    BY FS_Singleton
  <2>2. IsFiniteSet({"target"} \cup {"scorer"})
    BY <2>1, FS_AddElement
  <2>3. Roles = {"target"} \cup {"scorer"}
    BY DEF Roles
  <2> QED BY <2>2, <2>3
<1> QED BY <1>1, FS_Product, BudgetAssumption DEF Requests

\* begin adds a dispatched receipt for a request that had none.
LEMMA BeginEffect ==
  ASSUME TypeOK, NEW q \in Requests, NEW bound \in Answers \cup {NoAnswer}, Begin(q, bound)
  PROVE  /\ receipt' \in [Requests -> ReceiptType]
         /\ receipt'[q] = [status |-> "dispatched", answer |-> NoAnswer,
                           cost |-> NoCost, bound |-> bound]
         /\ \A p \in Requests : p # q => receipt'[p] = receipt[p]
  BY DEF Begin, TypeOK, ReceiptType, NoReceipt

\* A kept answer changes its own receipt only.
LEMMA KeepEffect ==
  ASSUME TypeOK, NEW q \in Requests, NEW a \in Answers, Keep(q, a)
  PROVE  /\ receipt' \in [Requests -> ReceiptType]
         /\ receipt'[q].status = "pending" /\ receipt'[q].answer = a
         /\ receipt'[q].cost = receipt[q].cost /\ receipt'[q].bound = receipt[q].bound
         /\ \A p \in Requests : p # q => receipt'[p] = receipt[p]
<1> DEFINE r == [receipt[q] EXCEPT !.status = "pending", !.answer = a]
<1>1. receipt \in [Requests -> ReceiptType]
  BY DEF TypeOK, ReceiptType
<1>2. receipt' = [receipt EXCEPT ![q] = r]
  BY <1>1 DEF Keep
<1>3. /\ r \in ReceiptType /\ r.status = "pending" /\ r.answer = a
      /\ r.cost = receipt[q].cost /\ r.bound = receipt[q].bound
  BY <1>1 DEF ReceiptType
<1> HIDE DEF r
<1> QED BY <1>1, <1>2, <1>3

\* So does a settlement, which also writes the cost.
LEMMA SettleEffect ==
  ASSUME TypeOK, NEW q \in Requests, NEW a \in Answers, NEW c \in Costs, Settle(q, a, c)
  PROVE  /\ receipt' \in [Requests -> ReceiptType]
         /\ receipt'[q].status = (IF Overruns(q, c) THEN "overrun" ELSE "settled")
         /\ receipt'[q].answer = a /\ receipt'[q].cost = c
         /\ receipt'[q].bound = receipt[q].bound
         /\ \A p \in Requests : p # q => receipt'[p] = receipt[p]
<1> DEFINE status == IF Overruns(q, c) THEN "overrun" ELSE "settled"
           r == [receipt[q] EXCEPT !.answer = a, !.cost = c, !.status = status]
<1>1. receipt \in [Requests -> ReceiptType]
  BY DEF TypeOK, ReceiptType
<1>2. receipt' = [receipt EXCEPT ![q] = r]
  BY <1>1 DEF Settle
<1>3. status \in {"overrun", "settled"}
  OBVIOUS
<1> HIDE DEF status
<1>4. /\ r \in ReceiptType /\ r.status = status /\ r.answer = a /\ r.cost = c
      /\ r.bound = receipt[q].bound
  BY <1>1, <1>3 DEF ReceiptType
<1> HIDE DEF r
<1>5. receipt' \in [Requests -> ReceiptType] /\ receipt'[q] = r
      /\ \A p \in Requests : p # q => receipt'[p] = receipt[p]
  BY <1>1, <1>2, <1>4
<1> QED BY <1>4, <1>5 DEF status

\* The reservations of all requests add up to what the preflight computes.
LEMMA ReserveTotal ==
  Total(ReserveOf, Requests) = Cardinality(Tests) * (TargetReserve + ScorerReserve)
<1> DEFINE both == TargetReserve + ScorerReserve
           Sum(U) == Total(ReserveOf, U \X Roles)
           T == {U \in SUBSET Tests : Sum(U) # Cardinality(U) * both}
<1> SUFFICES ASSUME T # {} PROVE FALSE
  BY DEF Requests
<1>0. IsFiniteSet(Tests) /\ T \subseteq SUBSET Tests
  BY BudgetAssumption
<1> HIDE DEF T
<1>1. PICK U \in T : \A V \in T : V \subseteq U => V = U
  BY <1>0, Smallest
<1> USE DEF T
<1>2. U \in SUBSET Tests /\ IsFiniteSet(U) /\ Sum(U) # Cardinality(U) * both
  BY <1>0, <1>1, FS_Subset
<1>3. both \in Nat
  BY BudgetAssumption
<1>4. U # {}
  <2> SUFFICES ASSUME U = {} PROVE FALSE
    OBVIOUS
  <2>1. Sum({}) = 0
    BY TotalEmpty, {} \X Roles = {}
  <2>2. Cardinality({}) * both = 0
    BY <1>3, FS_EmptySet
  <2> QED BY <1>2, <2>1, <2>2
<1>5. PICK t \in U : TRUE
  BY <1>4
<1> DEFINE V == U \ {t}
<1>6. /\ Sum(V) = Cardinality(V) * both
      /\ Cardinality(U) = Cardinality(V) + 1 /\ Cardinality(V) \in Nat
      /\ IsFiniteSet(V)
  <2>1. V \in SUBSET Tests /\ V \subseteq U /\ V # U
    BY <1>2, <1>5
  <2>2. Sum(V) = Cardinality(V) * both
    BY <2>1, <1>1
  <2>3. Cardinality(V) = Cardinality(U) - 1 /\ IsFiniteSet(V)
    BY <1>2, <1>5, FS_RemoveElement
  <2>4. Cardinality(V) \in Nat /\ Cardinality(U) \in Nat
    BY <1>2, <2>3, FS_CardinalityType
  <2> QED BY <2>2, <2>3, <2>4
<1> HIDE DEF T
<1> DEFINE one == (V \X Roles) \cup {<<t, "target">>}
<1>7. /\ U \X Roles = one \cup {<<t, "scorer">>}
      /\ <<t, "target">> \notin V \X Roles /\ <<t, "scorer">> \notin one
      /\ V \X Roles \subseteq Requests /\ one \subseteq Requests
  BY <1>2, <1>5 DEF Requests, Roles
<1>8. \A q \in Requests : ReserveOf[q] = Reserve(q) /\ ReserveOf[q] \in Nat
  BY BudgetAssumption DEF ReserveOf, Reserve
<1>9. IsFiniteSet(V \X Roles) /\ IsFiniteSet(one)
  BY <1>7, RequestsFinite, FS_Subset
<1>10. /\ ReserveOf[<<t, "target">>] = TargetReserve
       /\ ReserveOf[<<t, "scorer">>] = ScorerReserve
  BY <1>2, <1>5, <1>8, RequestParts DEF Reserve
<1> DEFINE x == <<t, "target">>
           base == V \X Roles
<1>a. /\ IsFiniteSet(base) /\ x \notin base /\ one = base \cup {x}
      /\ \A q \in base : ReserveOf[q] \in Nat
      /\ ReserveOf[x] \in Nat /\ ReserveOf[x] = TargetReserve
  BY <1>7, <1>8, <1>9, <1>10, BudgetAssumption
<1> HIDE DEF one, x, base
<1>11. Total(ReserveOf, one) = Sum(V) + TargetReserve
  <2>1. Total(ReserveOf, base \cup {x}) = Total(ReserveOf, base) + ReserveOf[x]
    BY <1>a, TotalAdd
  <2> QED BY <1>a, <2>1 DEF base
<1>12. Total(ReserveOf, one \cup {<<t, "scorer">>}) = Total(ReserveOf, one) + ScorerReserve
  <2>1. /\ \A q \in one : ReserveOf[q] \in Nat
        /\ ReserveOf[<<t, "scorer">>] \in Nat
    BY <1>7, <1>8, <1>10, BudgetAssumption
  <2>2. Total(ReserveOf, one \cup {<<t, "scorer">>})
          = Total(ReserveOf, one) + ReserveOf[<<t, "scorer">>]
    BY <1>7, <1>9, <2>1, TotalAdd
  <2> QED BY <1>10, <2>2
<1>13. Sum(U) = Cardinality(V) * both + both
  <2>1. Sum(U) = Total(ReserveOf, one) + ScorerReserve
    BY <1>7, <1>12
  <2>2. Cardinality(V) * both \in Nat
    BY <1>3, <1>6
  <2> HIDE DEF one, Sum, V
  <2> QED BY <2>1, <2>2, <1>6, <1>11, BudgetAssumption
<1>14. (Cardinality(V) + 1) * both = Cardinality(V) * both + both
  BY <1>3, <1>6
<1> QED BY <1>2, <1>6, <1>13, <1>14

(******************************************************************************)
(* The invariant holds at first and after every step.                         *)
(******************************************************************************)

\* At first nothing is asked, and all reservations fit by the preflight.
LEMMA InitInv == Init => PairedInv
<1> SUFFICES ASSUME Init PROVE PairedInv
  OBVIOUS
<1>1. TypeOK
  BY DEF Init, TypeOK, NoReceipt, NoJob
<1>2. ReceiptShape /\ OneUnresolved /\ WorkerShape /\ SoleSender
  BY DEF Init, ReceiptShape, OneUnresolved, Unresolved, WorkerShape, SoleSender,
         InFlight, NoReceipt
<1>3. AnswersAgree
  BY RequestParts DEF Init, AnswersAgree, Status, NoReceipt
<1>4. CostsAreCounted
  <2>1. Costed = {}
    BY DEF Init, Costed, NoReceipt
  <2> QED BY <2>1, TotalEmpty DEF Init, CostsAreCounted
<1>5. ReservesCoverTheRest
  <2>1. Unsettled = Requests
    BY DEF Init, Unsettled, NoReceipt
  <2>2. Total(ReserveOf, Unsettled) = Cardinality(Tests) * (TargetReserve + ScorerReserve)
    BY <2>1, ReserveTotal
  <2>3. Cardinality(Tests) * (TargetReserve + ScorerReserve) \in Nat
    BY BudgetAssumption, FS_CardinalityType
  <2> QED BY <2>2, <2>3, BudgetAssumption DEF Init, ReservesCoverTheRest
<1> QED BY <1>1, <1>2, <1>3, <1>4, <1>5 DEF PairedInv

\* A step that leaves the receipts, the answers and the calls alone keeps what
\* the invariant says of them, if it opens the scope at most when it is free.
LEMMA QuietStep ==
  ASSUME PairedInv, mode' = mode, spent' = spent, receipt' = receipt, saved' = saved,
         calls' = calls, reply' = reply,
         scope' = scope \/ (scope \in {"absent", "active"} /\ scope' = "active")
  PROVE  /\ ReceiptShape' /\ OneUnresolved' /\ AnswersAgree'
         /\ CostsAreCounted' /\ ReservesCoverTheRest'
<1> USE DEF PairedInv
<1>1. ReceiptShape'
  BY DEF ReceiptShape
<1>2. OneUnresolved'
  BY DEF OneUnresolved, Unresolved
<1>3. AnswersAgree'
  BY DEF AnswersAgree, Status
<1>4. CostsAreCounted'
  BY DEF CostsAreCounted, CostOf, Costed
<1>5. ReservesCoverTheRest'
  BY DEF ReservesCoverTheRest, Unsettled
<1> QED BY <1>1, <1>2, <1>3, <1>4, <1>5

\* A worker that takes a request, goes to the next place or gives up.
LEMMA WorkerStepInv ==
  ASSUME PairedInv, NEW w \in Workers,
         \/ \E q \in Requests : Start(w, q)
         \/ Register(w) \/ Lock(w) \/ Preflight(w) \/ Stop(w)
  PROVE  PairedInv'
<1> USE DEF PairedInv
<1>1. /\ ReceiptShape' /\ OneUnresolved' /\ AnswersAgree'
      /\ CostsAreCounted' /\ ReservesCoverTheRest'
  <2>1. /\ mode' = mode /\ spent' = spent /\ receipt' = receipt /\ saved' = saved
        /\ calls' = calls /\ reply' = reply
        /\ scope' = scope \/ (scope \in {"absent", "active"} /\ scope' = "active")
    <3>1. ASSUME NEW q \in Requests, Start(w, q) PROVE <2>1!:
      BY <3>1 DEF Start, ledgerVars
    <3>2. CASE Register(w)
      BY <3>2 DEF Register
    <3>3. CASE Lock(w) \/ Preflight(w) \/ Stop(w)
      BY <3>3 DEF Lock, Preflight, Stop, ledgerVars
    <3> QED BY <3>1, <3>2, <3>3
  <2> QED BY <2>1, QuietStep
<1>2. TypeOK'
  <2>1. ASSUME NEW q \in Requests, Start(w, q) PROVE TypeOK'
    BY <2>1 DEF TypeOK, Start, Goto, ledgerVars
  <2>2. CASE Register(w)
    BY <2>2 DEF TypeOK, Register, Goto
  <2>3. CASE Lock(w)
    BY <2>3 DEF TypeOK, Lock, Goto, ledgerVars
  <2>4. CASE Preflight(w)
    <3>1. job[w].request \in Requests
      BY <2>4 DEF WorkerShape, Preflight
    <3>2. job[w].request[1] \in Tests
      BY <3>1, RequestParts
    <3> DEFINE read == IF job[w].request[2] = "scorer" THEN saved[job[w].request[1]] ELSE NoAnswer
    <3>3. read \in Answers \cup {NoAnswer}
      BY <3>2 DEF TypeOK
    <3>4. job' = [job EXCEPT ![w].bound = read]
      BY <2>4 DEF Preflight
    <3> HIDE DEF read
    <3>5. job' \in [Workers -> JobType]
      BY <3>3, <3>4 DEF TypeOK, JobType
    <3> QED BY <2>4, <3>5 DEF TypeOK, Preflight, Goto, ledgerVars, JobType
  <2>5. CASE Stop(w)
    BY <2>5 DEF TypeOK, Stop, Leave, Goto, NoJob, ledgerVars
  <2> QED BY <2>1, <2>2, <2>3, <2>4, <2>5
<1>3. /\ receipt' = receipt /\ calls' = calls /\ reply' = reply
      /\ pc'[w] \notin InFlight
      /\ \A v \in Workers : v # w => pc'[v] = pc[v] /\ job'[v] = job[v]
      /\ pc'[w] # "idle" => job'[w].request \in Requests
  <2>1. ASSUME NEW q \in Requests, Start(w, q) PROVE <1>3!:
    BY <2>1 DEF TypeOK, Start, Goto, InFlight, ledgerVars
  <2>2. CASE Register(w) \/ Lock(w) \/ Preflight(w)
    BY <2>2 DEF TypeOK, WorkerShape, Register, Lock, Preflight, Goto, InFlight, ledgerVars
  <2>3. CASE Stop(w)
    BY <2>3 DEF TypeOK, Stop, Leave, Goto, InFlight, ledgerVars
  <2> QED BY <2>1, <2>2, <2>3
<1>4. WorkerShape'
  BY <1>3 DEF WorkerShape, InFlight
<1>5. SoleSender'
  BY <1>3 DEF SoleSender
<1> QED BY <1>1, <1>2, <1>4, <1>5

\* The stage locks are lost, or nothing happens.
LEMMA LoseLockInv == ASSUME PairedInv, LoseLock \/ UNCHANGED vars PROVE PairedInv'
<1>1. /\ mode' = mode /\ spent' = spent /\ receipt' = receipt /\ saved' = saved
      /\ calls' = calls /\ reply' = reply
      /\ scope' = scope
      /\ pc' = pc /\ job' = job
      /\ lock' \in {lock, NoWorker}
  BY DEF LoseLock, vars, ledgerVars
<1>2. /\ ReceiptShape' /\ OneUnresolved' /\ AnswersAgree'
      /\ CostsAreCounted' /\ ReservesCoverTheRest'
  BY <1>1, QuietStep
<1>3. TypeOK' /\ WorkerShape' /\ SoleSender'
  BY <1>1 DEF PairedInv, TypeOK, WorkerShape, SoleSender
<1> QED BY <1>2, <1>3 DEF PairedInv

\* A dispatch: the request had no receipt, so no worker is on its way with it.
LEMMA DispatchInv == ASSUME PairedInv, NEW w \in Workers, Dispatch(w) PROVE PairedInv'
<1> DEFINE q == job[w].request
           bound == job[w].bound
<1> USE DEF PairedInv
<1>1. q \in Requests /\ bound \in Answers \cup {NoAnswer} /\ Begin(q, bound)
  BY DEF Dispatch, WorkerShape, TypeOK
<1>2. /\ pc' = [pc EXCEPT ![w] = "send"] /\ job' = job /\ lock' = lock
      /\ calls' = calls /\ reply' = reply
  BY DEF Dispatch, Goto
<1> HIDE DEF q, bound
<1>3. /\ mode' = mode /\ spent' = spent /\ saved' = saved
      /\ scope = "active" /\ scope' = "unknown" /\ receipt[q].status = "absent"
      /\ q[2] = "scorer" => Answered(q[1], bound)
  BY <1>1 DEF Begin, Blocked
<1>4. /\ receipt' \in [Requests -> ReceiptType]
      /\ receipt'[q] = [status |-> "dispatched", answer |-> NoAnswer,
                        cost |-> NoCost, bound |-> bound]
      /\ \A p \in Requests : p # q => receipt'[p] = receipt[p]
  BY <1>1, BeginEffect
<1>5. receipt[q] = NoReceipt /\ calls[q] = 0
  BY <1>1, <1>3 DEF ReceiptShape
<1>6. TypeOK'
  BY <1>2, <1>3, <1>4 DEF TypeOK, ReceiptType
<1>7. ReceiptShape'
  BY <1>1, <1>2, <1>4 DEF ReceiptShape
<1>8. OneUnresolved'
  BY <1>1, <1>3, <1>4 DEF OneUnresolved, Unresolved
<1>9. \A v \in Workers : pc[v] \in InFlight => job[v].request # q
  BY <1>3 DEF WorkerShape, InFlight
<1>10. WorkerShape'
  <2> SUFFICES ASSUME NEW v \in Workers PROVE WorkerShape!(v)'
    BY DEF WorkerShape
  <2>1. CASE v = w
    BY <1>1, <1>2, <1>4, <1>5, <2>1 DEF WorkerShape, TypeOK, q
  <2>2. CASE v # w
    <3>1. pc'[v] = pc[v] /\ job'[v] = job[v]
      BY <1>2, <2>2 DEF TypeOK
    <3> QED BY <1>2, <1>4, <1>9, <3>1 DEF WorkerShape, InFlight
  <2> QED BY <2>1, <2>2
<1>11. SoleSender'
  BY <1>2, <1>9 DEF SoleSender, InFlight, TypeOK, q
<1>12. AnswersAgree'
  <2> SUFFICES ASSUME NEW t \in Tests PROVE AnswersAgree!(t)'
    BY DEF AnswersAgree
  <2>1. /\ <<t, "target">> \in Requests /\ <<t, "scorer">> \in Requests
        /\ q[1] \in Tests /\ (q = <<q[1], "target">> \/ q = <<q[1], "scorer">>)
    BY <1>1, RequestParts
  <2>2. AnswersAgree!(t)
    BY DEF AnswersAgree
  <2>3. CASE q = <<t, "target">>
    BY <1>2, <1>3, <1>4, <2>1, <2>2, <2>3 DEF Status
  <2>4. CASE q = <<t, "scorer">>
    BY <1>2, <1>3, <1>4, <2>1, <2>2, <2>4 DEF Status, Answered
  <2>5. CASE q # <<t, "target">> /\ q # <<t, "scorer">>
    BY <1>2, <1>3, <1>4, <2>1, <2>2, <2>5 DEF Status
  <2> QED BY <2>3, <2>4, <2>5
<1>13. CostsAreCounted'
  <2>1. \A p \in Requests : receipt'[p].cost = receipt[p].cost
    BY <1>4, <1>5 DEF NoReceipt
  <2>2. CostOf' = CostOf /\ Costed' = Costed
    BY <2>1 DEF CostOf, Costed
  <2> QED BY <1>3, <2>2 DEF CostsAreCounted
<1>14. ReservesCoverTheRest'
  <2>1. Unsettled' = Unsettled
    BY <1>1, <1>3, <1>4 DEF Unsettled
  <2> QED BY <1>3, <2>1 DEF ReservesCoverTheRest
<1> QED BY <1>6, <1>7, <1>8, <1>10, <1>11, <1>12, <1>13, <1>14

\* The request is sent: by this worker only, and for the first time.
LEMMA SendInv == ASSUME PairedInv, NEW w \in Workers, Send(w) PROVE PairedInv'
<1> DEFINE q == job[w].request
<1> USE DEF PairedInv
<1>1. /\ q \in Requests /\ receipt[q].status = "dispatched" /\ pc[w] = "send"
      /\ calls \in [Requests -> Nat] /\ calls' = [calls EXCEPT ![q] = @ + 1]
      /\ pc' = [pc EXCEPT ![w] = "sent"]
      /\ receipt' = receipt /\ scope' = scope /\ saved' = saved /\ spent' = spent
      /\ mode' = mode /\ job' = job /\ lock' = lock /\ reply' = reply
  BY DEF Send, WorkerShape, TypeOK, Goto, ledgerVars
<1>2. \A v \in Workers : v # w /\ pc[v] \in InFlight => job[v].request # q
  BY <1>1 DEF SoleSender, InFlight
<1> HIDE DEF q
<1>3. calls'[q] # 0 /\ \A p \in Requests : p # q => calls'[p] = calls[p]
  BY <1>1
<1>4. TypeOK'
  BY <1>1 DEF TypeOK
<1>5. ReceiptShape'
  BY <1>1, <1>3 DEF ReceiptShape
<1>6. OneUnresolved' /\ AnswersAgree' /\ CostsAreCounted' /\ ReservesCoverTheRest'
  BY <1>1 DEF OneUnresolved, Unresolved, AnswersAgree, Status, CostsAreCounted, CostOf,
              Costed, ReservesCoverTheRest, Unsettled
<1>7. WorkerShape'
  <2> SUFFICES ASSUME NEW v \in Workers PROVE WorkerShape!(v)'
    BY DEF WorkerShape
  <2>1. CASE v = w
    BY <1>1, <1>3, <2>1 DEF WorkerShape, TypeOK, q
  <2>2. CASE v # w
    <3>1. pc'[v] = pc[v]
      BY <1>1, <2>2 DEF TypeOK
    <3> QED BY <1>1, <1>2, <1>3, <2>2, <3>1 DEF WorkerShape, InFlight
  <2> QED BY <2>1, <2>2
<1>8. SoleSender'
  BY <1>1 DEF SoleSender, InFlight, TypeOK
<1> QED BY <1>4, <1>5, <1>6, <1>7, <1>8

\* The provider answers: no receipt of the request holds an answer yet.
LEMMA ReceiveInv ==
  ASSUME PairedInv, NEW w \in Workers, NEW a \in Answers, NEW c \in Costs \cup {NoCost},
         Receive(w, a, c)
  PROVE  PairedInv'
<1> DEFINE q == job[w].request
           next == IF q[2] = "target" \/ c = NoCost THEN "keep" ELSE "settle"
<1> USE DEF PairedInv
<1>1. /\ q \in Requests /\ receipt[q].status = "dispatched" /\ pc[w] = "sent"
      /\ calls[q] # 0
      /\ reply' = [reply EXCEPT ![q] = a]
      /\ job' = [job EXCEPT ![w].answer = a, ![w].cost = c]
      /\ pc' = [pc EXCEPT ![w] = next]
      /\ receipt' = receipt /\ scope' = scope /\ saved' = saved /\ spent' = spent
      /\ mode' = mode /\ lock' = lock /\ calls' = calls
  BY DEF Receive, WorkerShape, Goto, ledgerVars
<1>2. \A v \in Workers : v # w /\ pc[v] \in InFlight => job[v].request # q
  BY <1>1 DEF SoleSender, InFlight
<1>3. next \in {"keep", "settle"} /\ (next = "settle" => c \in Costs)
  OBVIOUS
<1> DEFINE j == [job[w] EXCEPT !.answer = a, !.cost = c]
<1>4. j \in JobType /\ j.request = q /\ j.answer = a /\ j.cost = c
  BY DEF TypeOK, JobType
<1>5. job' = [job EXCEPT ![w] = j]
  BY <1>1 DEF TypeOK
<1> HIDE DEF q, next, j
<1>6. /\ job' \in [Workers -> JobType] /\ job'[w] = j /\ pc'[w] = next
      /\ \A v \in Workers : v # w => job'[v] = job[v] /\ pc'[v] = pc[v]
      /\ reply' \in [Requests -> Answers \cup {NoAnswer}] /\ reply'[q] = a
      /\ \A p \in Requests : p # q => reply'[p] = reply[p]
  <2>1. /\ job' \in [Workers -> JobType] /\ job'[w] = j
        /\ \A v \in Workers : v # w => job'[v] = job[v]
    BY <1>4, <1>5 DEF TypeOK, JobType
  <2>2. pc'[w] = next /\ \A v \in Workers : v # w => pc'[v] = pc[v]
    BY <1>1 DEF TypeOK
  <2>3. /\ reply' \in [Requests -> Answers \cup {NoAnswer}] /\ reply'[q] = a
        /\ \A p \in Requests : p # q => reply'[p] = reply[p]
    BY <1>1 DEF TypeOK
  <2> QED BY <2>1, <2>2, <2>3
<1>7. TypeOK'
  BY <1>1, <1>3, <1>6 DEF TypeOK, JobType
<1>8. ReceiptShape'
  BY <1>1, <1>6 DEF ReceiptShape
<1>9. OneUnresolved' /\ CostsAreCounted' /\ ReservesCoverTheRest'
  BY <1>1 DEF OneUnresolved, Unresolved, CostsAreCounted, CostOf, Costed,
              ReservesCoverTheRest, Unsettled
<1>10. AnswersAgree'
  <2> SUFFICES ASSUME NEW t \in Tests PROVE AnswersAgree!(t)'
    BY DEF AnswersAgree
  <2>1. AnswersAgree!(t) /\ <<t, "target">> \in Requests
    BY RequestParts DEF AnswersAgree
  <2> QED BY <1>1, <1>6, <2>1 DEF Status
<1>11. WorkerShape'
  <2> SUFFICES ASSUME NEW v \in Workers PROVE WorkerShape!(v)'
    BY DEF WorkerShape
  <2>1. CASE v = w
    BY <1>1, <1>3, <1>4, <1>6, <2>1 DEF WorkerShape
  <2>2. CASE v # w
    BY <1>1, <1>2, <1>6, <2>2 DEF WorkerShape, InFlight
  <2> QED BY <2>1, <2>2
<1>12. SoleSender'
  BY <1>1, <1>2, <1>3, <1>4, <1>6 DEF SoleSender, InFlight
<1> QED BY <1>7, <1>8, <1>9, <1>10, <1>11, <1>12

\* A target's answer, or a body whose cost is not known, is kept.
LEMMA KeepAnswerInv == ASSUME PairedInv, NEW w \in Workers, KeepAnswer(w) PROVE PairedInv'
<1> DEFINE q == job[w].request
           a == job[w].answer
<1> USE DEF PairedInv
<1>1. /\ q \in Requests /\ receipt[q].status = "dispatched" /\ pc[w] = "keep"
      /\ calls[q] # 0 /\ a \in Answers /\ a = reply[q]
      /\ Keep(q, a) /\ calls' = calls /\ reply' = reply
  BY DEF KeepAnswer, WorkerShape
<1>2. /\ receipt' \in [Requests -> ReceiptType]
      /\ receipt'[q].status = "pending" /\ receipt'[q].answer = a
      /\ receipt'[q].cost = receipt[q].cost /\ receipt'[q].bound = receipt[q].bound
      /\ \A p \in Requests : p # q => receipt'[p] = receipt[p]
  BY <1>1, KeepEffect
<1>3. /\ mode' = mode /\ scope' = scope /\ spent' = spent /\ saved' = saved
  BY <1>1 DEF Keep
<1>4. /\ pc' \in [Workers -> {"idle", "register", "lock", "preflight", "begin", "send",
                              "sent", "keep", "settle"}]
      /\ job' \in [Workers -> JobType] /\ lock' \in Workers \cup {NoWorker}
      /\ \A v \in Workers : v # w => pc'[v] = pc[v] /\ job'[v] = job[v]
      /\ \/ pc'[w] = "idle"
         \/ pc'[w] = "settle" /\ job'[w] = job[w] /\ job[w].cost \in Costs
  <2>1. CASE job[w].cost = NoCost
    <3>1. /\ pc' = [pc EXCEPT ![w] = "idle"] /\ job' = [job EXCEPT ![w] = NoJob]
          /\ lock' \in {lock, NoWorker}
      BY <2>1 DEF KeepAnswer, Leave, Goto
    <3>2. NoJob \in JobType
      BY DEF NoJob, JobType
    <3> QED BY <3>1, <3>2 DEF TypeOK, JobType
  <2>2. CASE job[w].cost # NoCost
    <3>1. pc' = [pc EXCEPT ![w] = "settle"] /\ job' = job /\ lock' = lock
      BY <2>2 DEF KeepAnswer, Goto
    <3> QED BY <2>2, <3>1 DEF TypeOK, JobType
  <2> QED BY <2>1, <2>2
<1>5. \A v \in Workers : v # w /\ pc[v] \in InFlight => job[v].request # q
  BY <1>1 DEF SoleSender, InFlight
<1> HIDE DEF q, a
<1>6. TypeOK'
  BY <1>1, <1>2, <1>3, <1>4 DEF TypeOK, ReceiptType, JobType
<1>7. ReceiptShape'
  BY <1>1, <1>2 DEF ReceiptShape
<1>8. OneUnresolved'
  BY <1>1, <1>2, <1>3 DEF OneUnresolved, Unresolved
<1>9. WorkerShape'
  <2> SUFFICES ASSUME NEW v \in Workers PROVE WorkerShape!(v)'
    BY DEF WorkerShape
  <2>1. CASE v = w
    BY <1>1, <1>2, <1>4, <2>1 DEF WorkerShape, q, a
  <2>2. CASE v # w
    BY <1>1, <1>2, <1>4, <1>5, <2>2 DEF WorkerShape, InFlight
  <2> QED BY <2>1, <2>2
<1>10. SoleSender'
  BY <1>1, <1>4, <1>5 DEF SoleSender, InFlight, q
<1>11. AnswersAgree'
  <2> SUFFICES ASSUME NEW t \in Tests PROVE AnswersAgree!(t)'
    BY DEF AnswersAgree
  <2>1. /\ AnswersAgree!(t) /\ <<t, "target">> \in Requests /\ <<t, "scorer">> \in Requests
    BY RequestParts DEF AnswersAgree
  <2>2. \A p \in Requests : receipt'[p].bound = receipt[p].bound
    BY <1>2
  <2>3. CASE q = <<t, "target">>
    BY <1>1, <1>2, <1>3, <2>1, <2>2, <2>3 DEF Status
  <2>4. CASE q = <<t, "scorer">>
    BY <1>1, <1>2, <1>3, <2>1, <2>2, <2>4 DEF Status
  <2>5. CASE q # <<t, "target">> /\ q # <<t, "scorer">>
    BY <1>1, <1>2, <1>3, <2>1, <2>5 DEF Status
  <2> QED BY <2>3, <2>4, <2>5
<1>12. CostsAreCounted'
  <2>1. CostOf' = CostOf /\ Costed' = Costed
    BY <1>2 DEF CostOf, Costed
  <2> QED BY <1>3, <2>1 DEF CostsAreCounted
<1>13. ReservesCoverTheRest'
  <2>1. Unsettled' = Unsettled
    BY <1>1, <1>2 DEF Unsettled
  <2> QED BY <1>3, <2>1 DEF ReservesCoverTheRest
<1> QED BY <1>6, <1>7, <1>8, <1>9, <1>10, <1>11, <1>12, <1>13

\* A settlement with the answer of the provider, on whatever occasion: the cost
\* joins the amount spent, within the reservation of the request or as an overrun.
LEMMA SettleStep ==
  ASSUME PairedInv, NEW q \in Requests, NEW c \in Costs,
         reply[q] \in Answers, calls[q] # 0, Settle(q, reply[q], c),
         calls' = calls, reply' = reply
  PROVE  /\ ReceiptShape' /\ OneUnresolved' /\ AnswersAgree'
         /\ CostsAreCounted' /\ ReservesCoverTheRest'
         /\ receipt' \in [Requests -> ReceiptType] /\ receipt'[q].status # "absent"
         /\ \A p \in Requests : p # q => receipt'[p] = receipt[p]
         /\ mode' = mode /\ spent' \in Nat /\ saved' \in [Tests -> Answers \cup {NoAnswer}]
         /\ scope' \in {"active", "overrun"}
<1> DEFINE a == reply[q]
           status == IF Overruns(q, c) THEN "overrun" ELSE "settled"
<1> USE DEF PairedInv
<1>1. /\ receipt' \in [Requests -> ReceiptType]
      /\ receipt'[q].status = status
      /\ receipt'[q].answer = a /\ receipt'[q].cost = c
      /\ receipt'[q].bound = receipt[q].bound
      /\ \A p \in Requests : p # q => receipt'[p] = receipt[p]
  BY SettleEffect
<1>2. /\ scope = "unknown" /\ receipt[q].status \in {"dispatched", "pending"}
      /\ q[2] = "target" => saved[q[1]] = NoAnswer
      /\ spent' = spent + c /\ mode' = mode /\ saved' = Saved(q, a)
      /\ scope' = (IF Overruns(q, c) THEN "overrun" ELSE "active")
  BY DEF Settle, Awaits
<1>3. status \in {"overrun", "settled"} /\ c \in Nat /\ c # NoCost /\ spent \in Nat
      /\ a \in Answers /\ a # NoAnswer
  BY BudgetAssumption, NullAssumption DEF TypeOK
<1> HIDE DEF a, status
<1>4. ReceiptShape'
  BY <1>1, <1>2, <1>3 DEF ReceiptShape, a
<1>5. OneUnresolved'
  BY <1>1, <1>2, <1>3 DEF OneUnresolved, Unresolved
<1>6. q[1] \in Tests /\ (q = <<q[1], "target">> \/ q = <<q[1], "scorer">>)
  BY RequestParts
<1>7. /\ saved' \in [Tests -> Answers \cup {NoAnswer}]
      /\ \A t \in Tests : saved'[t] = IF q = <<t, "target">> THEN a ELSE saved[t]
  <2>1. CASE q[2] = "target"
    BY <1>2, <1>3, <1>6, <2>1 DEF Saved, TypeOK
  <2>2. CASE q[2] # "target"
    BY <1>2, <1>6, <2>2 DEF Saved, TypeOK
  <2> QED BY <2>1, <2>2
<1>8. AnswersAgree'
  <2> SUFFICES ASSUME NEW t \in Tests PROVE AnswersAgree!(t)'
    BY DEF AnswersAgree
  <2>1. AnswersAgree!(t) /\ <<t, "target">> \in Requests /\ <<t, "scorer">> \in Requests
    BY RequestParts DEF AnswersAgree
  <2>2. CASE q = <<t, "target">>
    BY <1>1, <1>2, <1>3, <1>7, <2>1, <2>2 DEF Status, a
  <2>3. CASE q = <<t, "scorer">>
    BY <1>1, <1>2, <1>3, <1>7, <2>1, <2>3 DEF Status
  <2>4. CASE q # <<t, "target">> /\ q # <<t, "scorer">>
    BY <1>1, <1>7, <2>1, <2>4 DEF Status
  <2> QED BY <2>2, <2>3, <2>4
<1>9. CostsAreCounted'
  <2>1. Costed' = Costed \cup {q} /\ q \notin Costed
    BY <1>1, <1>2, <1>3 DEF Costed, ReceiptShape
  <2>2. IsFiniteSet(Costed)
    BY RequestsFinite, FS_Subset DEF Costed
  <2>3. /\ \A p \in Costed : CostOf[p] = CostOf'[p] /\ CostOf[p] \in Nat
        /\ CostOf'[q] = c
    BY <1>1, <2>1, BudgetAssumption DEF Costed, CostOf, TypeOK
  <2>4. Total(CostOf', Costed \cup {q}) = Total(CostOf, Costed) + CostOf'[q]
    BY <1>3, <2>1, <2>2, <2>3, TotalAdd
  <2> QED BY <1>2, <2>1, <2>3, <2>4 DEF CostsAreCounted
<1>10. ReservesCoverTheRest'
  <2> SUFFICES ASSUME mode = "capped", ~Overruns(q, c)
               PROVE  Prior + spent' + Total(ReserveOf, Unsettled') <= MaxUsd
    BY <1>2 DEF ReservesCoverTheRest
  <2>1. c <= Reserve(q) /\ spent' = spent + c
    BY <1>2, <1>3, BudgetAssumption DEF Overruns, Reserve
  <2>2. Unsettled' = Unsettled \ {q} /\ q \in Unsettled
    BY <1>1, <1>2 DEF Unsettled, status
  <2>3. IsFiniteSet(Unsettled) /\ IsFiniteSet(Unsettled')
    BY <2>2, RequestsFinite, FS_Subset DEF Unsettled
  <2>4. \A p \in Unsettled : ReserveOf[p] \in Nat
    BY BudgetAssumption DEF ReserveOf, Reserve, Unsettled
  <2>5. Total(ReserveOf, Unsettled) = ReserveOf[q] + Total(ReserveOf, Unsettled \ {q})
    BY <2>2, <2>3, <2>4, TotalRemove
  <2>6. Total(ReserveOf, Unsettled \ {q}) \in Nat
    BY <2>2, <2>3, <2>4, TotalType
  <2>7. Prior + spent + Total(ReserveOf, Unsettled) <= MaxUsd
    BY <1>2 DEF ReservesCoverTheRest
  <2>8. ReserveOf[q] = Reserve(q) /\ Reserve(q) \in Nat
    BY BudgetAssumption DEF ReserveOf, Reserve
  <2> QED BY <1>3, <2>1, <2>2, <2>5, <2>6, <2>7, <2>8, BudgetAssumption
<1>11. /\ receipt'[q].status # "absent" /\ spent' \in Nat
       /\ scope' \in {"active", "overrun"}
  BY <1>1, <1>2, <1>3
<1> QED BY <1>1, <1>2, <1>4, <1>5, <1>7, <1>8, <1>9, <1>10, <1>11

\* The worker that received the answer settles it.
LEMMA SettleAnswerInv == ASSUME PairedInv, NEW w \in Workers, SettleAnswer(w) PROVE PairedInv'
<1> DEFINE q == job[w].request
<1> USE DEF PairedInv
<1>1. /\ q \in Requests /\ pc[w] = "settle" /\ calls[q] # 0 /\ job[w].cost \in Costs
      /\ reply[q] \in Answers /\ Settle(q, reply[q], job[w].cost)
      /\ calls' = calls /\ reply' = reply
  BY DEF SettleAnswer, WorkerShape
<1>2. /\ pc' = [pc EXCEPT ![w] = "idle"] /\ job' = [job EXCEPT ![w] = NoJob]
      /\ lock' \in {lock, NoWorker}
  BY DEF SettleAnswer, Leave, Goto
<1>3. \A v \in Workers : v # w /\ pc[v] \in InFlight => job[v].request # q
  BY <1>1 DEF SoleSender, InFlight
<1> HIDE DEF q
<1>4. /\ ReceiptShape' /\ OneUnresolved' /\ AnswersAgree'
      /\ CostsAreCounted' /\ ReservesCoverTheRest'
      /\ receipt' \in [Requests -> ReceiptType] /\ receipt'[q].status # "absent"
      /\ \A p \in Requests : p # q => receipt'[p] = receipt[p]
      /\ mode' = mode /\ spent' \in Nat /\ saved' \in [Tests -> Answers \cup {NoAnswer}]
      /\ scope' \in {"active", "overrun"}
  BY <1>1, SettleStep
<1>5. /\ pc'[w] = "idle"
      /\ \A v \in Workers : v # w => pc'[v] = pc[v] /\ job'[v] = job[v]
  BY <1>2 DEF TypeOK
<1>6. TypeOK'
  BY <1>1, <1>2, <1>4 DEF TypeOK, ReceiptType, NoJob
<1>7. WorkerShape'
  <2> SUFFICES ASSUME NEW v \in Workers PROVE WorkerShape!(v)'
    BY DEF WorkerShape
  <2>1. CASE v = w
    BY <1>5, <2>1
  <2>2. CASE v # w
    BY <1>1, <1>3, <1>4, <1>5, <2>2 DEF WorkerShape, InFlight
  <2> QED BY <2>1, <2>2
<1>8. SoleSender'
  BY <1>5 DEF SoleSender, InFlight
<1> QED BY <1>4, <1>6, <1>7, <1>8

\* The cost of a kept answer arrives later.  No worker can still keep the
\* answer then; one that is about to settle it will be refused.
LEMMA ReconcileInv ==
  ASSUME PairedInv, NEW q \in Requests, NEW c \in Costs, Reconcile(q, c)
  PROVE  PairedInv'
<1> USE DEF PairedInv
<1>1. /\ calls[q] # 0 /\ reply[q] \in Answers /\ Settle(q, reply[q], c)
      /\ receipt[q].status = "pending"
      /\ calls' = calls /\ reply' = reply /\ pc' = pc /\ job' = job /\ lock' = lock
  BY DEF Reconcile, ReceiptShape
<1>2. /\ ReceiptShape' /\ OneUnresolved' /\ AnswersAgree'
      /\ CostsAreCounted' /\ ReservesCoverTheRest'
      /\ receipt' \in [Requests -> ReceiptType] /\ receipt'[q].status # "absent"
      /\ \A p \in Requests : p # q => receipt'[p] = receipt[p]
      /\ mode' = mode /\ spent' \in Nat /\ saved' \in [Tests -> Answers \cup {NoAnswer}]
      /\ scope' \in {"active", "overrun"}
  BY <1>1, SettleStep
<1>3. TypeOK'
  BY <1>1, <1>2 DEF TypeOK, ReceiptType
<1>4. WorkerShape'
  BY <1>1, <1>2 DEF WorkerShape
<1>5. SoleSender'
  BY <1>1 DEF SoleSender
<1> QED BY <1>2, <1>3, <1>4, <1>5

\* Every step preserves the invariant.
LEMMA NextInv == PairedInv /\ [Next]_vars => PairedInv'
<1> SUFFICES ASSUME PairedInv, [Next]_vars PROVE PairedInv'
  OBVIOUS
<1>1. ASSUME NEW w \in Workers, Dispatch(w) PROVE PairedInv'
  BY <1>1, DispatchInv
<1>2. ASSUME NEW w \in Workers, Send(w) PROVE PairedInv'
  BY <1>2, SendInv
<1>3. ASSUME NEW w \in Workers, NEW a \in Answers, NEW c \in Costs \cup {NoCost},
             Receive(w, a, c)
      PROVE  PairedInv'
  BY <1>3, ReceiveInv
<1>4. ASSUME NEW w \in Workers, KeepAnswer(w) PROVE PairedInv'
  BY <1>4, KeepAnswerInv
<1>5. ASSUME NEW w \in Workers, SettleAnswer(w) PROVE PairedInv'
  BY <1>5, SettleAnswerInv
<1>6. ASSUME NEW w \in Workers,
             \/ \E q \in Requests : Start(w, q)
             \/ Register(w) \/ Lock(w) \/ Preflight(w) \/ Stop(w)
      PROVE  PairedInv'
  BY <1>6, WorkerStepInv
<1>7. ASSUME NEW q \in Requests, NEW c \in Costs, Reconcile(q, c) PROVE PairedInv'
  BY <1>7, ReconcileInv
<1>8. CASE LoseLock \/ UNCHANGED vars
  BY <1>8, LoseLockInv
<1> QED BY <1>1, <1>2, <1>3, <1>4, <1>5, <1>6, <1>7, <1>8 DEF Next

\* The invariant holds in every reachable state.
THEOREM PairedInvariant == Spec => []PairedInv
<1> QED BY InitInv, NextInv, PTL DEF Spec

\* The ledger, the workers and the providers always have their types.
THEOREM TypeCorrect == Spec => []TypeOK
<1>1. PairedInv => TypeOK
  BY DEF PairedInv
<1> QED BY <1>1, PairedInvariant, PTL

\* The receipts, the saved answers and the amount spent always agree, whatever
\* stops, loses its locks or is reconciled later.
THEOREM RecordsAlwaysAgree == Spec => []RecordsAgree
<1>1. PairedInv => RecordsAgree
  BY DEF PairedInv, RecordsAgree
<1> QED BY <1>1, PairedInvariant, PTL

\* Every reservation of a capped study that was not settled still fits under the
\* cap, until an overrun is on record.
THEOREM BudgetSuffices == Spec => []ReservesCoverTheRest
<1>1. PairedInv => ReservesCoverTheRest
  BY DEF PairedInv
<1> QED BY <1>1, PairedInvariant, PTL

(******************************************************************************)
(* The paired study implements PaidOnce.                                      *)
(******************************************************************************)

CallsOf == [s \in {"study"} \X Requests |-> calls[s[2]]]
Halted == [s \in {"study"} |-> scope = "overrun"]

\* A step that changes the phase of one request changes Phase there only.
LEMMA PhaseChanges ==
  ASSUME NEW q \in Requests, \A p \in Requests : p # q => PhaseOf(p)' = PhaseOf(p)
  PROVE  Phase' = [Phase EXCEPT ![<<"study", q>>] = PhaseOf(q)']
<1>1. \A s \in {"study"} \X Requests : s = <<"study", s[2]>> /\ s[2] \in Requests
  OBVIOUS
<1>2. \A s \in {"study"} \X Requests :
        PhaseOf(s[2])' = IF s = <<"study", q>> THEN PhaseOf(q)' ELSE PhaseOf(s[2])
  BY <1>1
<1> QED BY <1>1, <1>2 DEF Phase

\* A step that changes no phase, no call and no overrun is a stutter.
LEMMA Stutters ==
  ASSUME \A q \in Requests : PhaseOf(q)' = PhaseOf(q),
         calls' = calls, scope' = "overrun" <=> scope = "overrun"
  PROVE  UNCHANGED <<Phase, CallsOf, Halted>>
<1>1. Phase' = Phase
  BY DEF Phase
<1>2. CallsOf' = CallsOf
  BY DEF CallsOf
<1>3. Halted' = Halted
  BY DEF Halted
<1> QED BY <1>1, <1>2, <1>3

\* The initial states of the study are initial states of PaidOnce.
LEMMA InitMaps == Init => Abstract!Init
<1> SUFFICES ASSUME Init PROVE Abstract!Init
  OBVIOUS
<1>1. \A q \in Requests : PhaseOf(q) = "open"
  BY DEF Init, PhaseOf, NoReceipt
<1>2. Phase = [s \in {"study"} \X Requests |-> "open"]
  BY <1>1 DEF Phase
<1>3. CallsOf = [s \in {"study"} \X Requests |-> 0]
  BY DEF Init, CallsOf
<1>4. Halted = [s \in {"study"} |-> FALSE]
  BY DEF Init, Halted
<1> QED BY <1>2, <1>3, <1>4 DEF Abstract!Init, CallsOf, Halted

\* A dispatch claims its request: nothing else of the study is unresolved.
LEMMA DispatchClaims ==
  ASSUME PairedInv, NEW w \in Workers, Dispatch(w)
  PROVE  \E q \in Requests : Abstract!Claim("study", q)
<1>0. TypeOK
  BY DEF PairedInv
<1>1. PICK q \in Requests, bound \in Answers \cup {NoAnswer} :
        q = job[w].request /\ Begin(q, bound) /\ calls' = calls
  BY <1>0 DEF Dispatch, PairedInv, WorkerShape, TypeOK
<1>2. scope = "active" /\ scope' = "unknown" /\ receipt[q].status = "absent"
  BY <1>1 DEF Begin, Blocked
<1>3. receipt'[q].status = "dispatched" /\ \A p \in Requests : p # q => receipt'[p] = receipt[p]
  <2>1. Begin(q, bound)
    BY <1>1
  <2>2. /\ receipt'[q] = [status |-> "dispatched", answer |-> NoAnswer,
                          cost |-> NoCost, bound |-> bound]
        /\ \A p \in Requests : p # q => receipt'[p] = receipt[p]
    BY <1>0, <2>1, BeginEffect
  <2> QED BY <2>2
<1>4. \A p \in Requests : PhaseOf(p) \in {"open", "answered"}
  BY <1>2 DEF PairedInv, OneUnresolved, Unresolved, TypeOK, PhaseOf
<1>5. PhaseOf(q) = "open" /\ PhaseOf(q)' = "claimed"
  BY <1>1, <1>2, <1>3 DEF PhaseOf, PairedInv, ReceiptShape
<1>6. \A p \in Requests : p # q => PhaseOf(p)' = PhaseOf(p)
  BY <1>1, <1>3 DEF PhaseOf
<1>7. Phase' = [Phase EXCEPT ![<<"study", q>>] = "claimed"]
  BY <1>1, <1>5, <1>6, PhaseChanges
<1>8. CallsOf' = CallsOf /\ Halted' = Halted /\ ~Halted["study"]
  BY <1>1, <1>2 DEF CallsOf, Halted
<1>9. /\ Phase[<<"study", q>>] = "open"
      /\ \A p \in Requests : Phase[<<"study", p>>] \in {"open", "answered"}
  BY <1>1, <1>4, <1>5 DEF Phase
<1> QED BY <1>1, <1>7, <1>8, <1>9 DEF Abstract!Claim, CallsOf, Halted

\* Sending the request is the one call made for it.
LEMMA SendCalls ==
  ASSUME PairedInv, NEW w \in Workers, Send(w)
  PROVE  \E q \in Requests : Abstract!Call("study", q)
<1>1. PICK q \in Requests : q = job[w].request
  BY DEF Send, PairedInv, WorkerShape
<1>2. /\ receipt[q].status = "dispatched" /\ calls[q] = 0
      /\ calls \in [Requests -> Nat] /\ calls' = [calls EXCEPT ![q] = @ + 1]
      /\ receipt' = receipt /\ scope' = scope
  BY <1>1 DEF Send, PairedInv, WorkerShape, TypeOK, ledgerVars
<1>3. PhaseOf(q) = "claimed" /\ PhaseOf(q)' = "called"
  BY <1>2 DEF PhaseOf
<1>4. \A p \in Requests : p # q => PhaseOf(p)' = PhaseOf(p)
  BY <1>2 DEF PhaseOf
<1>5. Phase' = [Phase EXCEPT ![<<"study", q>>] = "called"]
  BY <1>3, <1>4, PhaseChanges
<1>6. CallsOf' = [CallsOf EXCEPT ![<<"study", q>>] = @ + 1] /\ Halted' = Halted
  BY <1>2 DEF CallsOf, Halted
<1>7. Phase[<<"study", q>>] = "claimed"
  BY <1>3 DEF Phase
<1> QED BY <1>1, <1>5, <1>6, <1>7 DEF Abstract!Call, CallsOf, Halted

\* A settlement answers a request that was called, and an overrun halts the study.
LEMMA SettleAnswers ==
  ASSUME PairedInv, NEW q \in Requests, NEW c \in Costs,
         reply[q] \in Answers, calls[q] # 0, Settle(q, reply[q], c), calls' = calls
  PROVE  Abstract!Answer("study", q)
<1>1. /\ receipt'[q].status \in {"settled", "overrun"}
      /\ \A p \in Requests : p # q => receipt'[p] = receipt[p]
  BY SettleEffect DEF PairedInv
<1>2. receipt[q].status \in {"dispatched", "pending"}
  BY DEF Settle, Awaits
<1>3. PhaseOf(q) = "called" /\ PhaseOf(q)' = "answered"
  BY <1>1, <1>2 DEF PhaseOf
<1>4. \A p \in Requests : p # q => PhaseOf(p)' = PhaseOf(p)
  BY <1>1 DEF PhaseOf
<1>5. Phase' = [Phase EXCEPT ![<<"study", q>>] = "answered"]
  BY <1>3, <1>4, PhaseChanges
<1>6. Phase[<<"study", q>>] = "called" /\ CallsOf' = CallsOf
  BY <1>3 DEF Phase, CallsOf
<1>7. \E over \in BOOLEAN : Halted' = [Halted EXCEPT !["study"] = over]
  <2>1. Halted' = [Halted EXCEPT !["study"] = (scope' = "overrun")]
    BY DEF Halted
  <2> QED BY <2>1
<1> QED BY <1>5, <1>6, <1>7 DEF Abstract!Answer, CallsOf, Halted

\* Every other step of a worker, and the loss of the locks, is a stutter.
LEMMA OthersStutter ==
  ASSUME PairedInv, NEW w \in Workers,
         \/ \E q \in Requests : Start(w, q)
         \/ Register(w) \/ Lock(w) \/ Preflight(w)
         \/ \E a \in Answers, c \in Costs \cup {NoCost} : Receive(w, a, c)
         \/ KeepAnswer(w) \/ Stop(w)
  PROVE  UNCHANGED <<Phase, CallsOf, Halted>>
<1>1. CASE KeepAnswer(w)
  <2> DEFINE q == job[w].request
             a == job[w].answer
  <2>1. /\ q \in Requests /\ a \in Answers /\ Keep(q, a) /\ calls' = calls
        /\ receipt[q].status = "dispatched" /\ calls[q] # 0
    BY <1>1 DEF KeepAnswer, PairedInv, WorkerShape
  <2> HIDE DEF q, a
  <2>2. receipt'[q].status = "pending" /\ \A p \in Requests : p # q => receipt'[p] = receipt[p]
    BY <2>1, KeepEffect DEF PairedInv
  <2>3. \A p \in Requests : PhaseOf(p)' = PhaseOf(p)
    BY <2>1, <2>2 DEF PhaseOf
  <2> QED BY <2>1, <2>3, Stutters DEF Keep
<1>2. CASE ~KeepAnswer(w)
  <2>1. /\ receipt' = receipt /\ calls' = calls
        /\ scope' = "overrun" <=> scope = "overrun"
    <3>1. ASSUME NEW q \in Requests, Start(w, q) PROVE <2>1!:
      BY <3>1 DEF Start, ledgerVars
    <3>2. CASE Register(w)
      BY <3>2 DEF Register
    <3>3. CASE Lock(w) \/ Preflight(w) \/ Stop(w)
      BY <3>3 DEF Lock, Preflight, Stop, ledgerVars
    <3>4. ASSUME NEW a \in Answers, NEW c \in Costs \cup {NoCost}, Receive(w, a, c)
          PROVE  <2>1!:
      BY <3>4 DEF Receive, ledgerVars
    <3> QED BY <1>2, <3>1, <3>2, <3>3, <3>4
  <2>2. \A q \in Requests : PhaseOf(q)' = PhaseOf(q)
    BY <2>1 DEF PhaseOf
  <2> QED BY <2>1, <2>2, Stutters
<1> QED BY <1>1, <1>2

\* Every step of the study is a step of PaidOnce or a stutter.
LEMMA NextMaps ==
  PairedInv /\ [Next]_vars => [Abstract!Next]_<<Phase, CallsOf, Halted>>
<1> SUFFICES ASSUME PairedInv, [Next]_vars
             PROVE  [Abstract!Next]_<<Phase, CallsOf, Halted>>
  OBVIOUS
<1>0. ASSUME NEW q \in Requests,
             Abstract!Claim("study", q) \/ Abstract!Call("study", q) \/ Abstract!Answer("study", q)
      PROVE  Abstract!Next
  BY <1>0, Zenon DEF Abstract!Next
<1> USE DEF CallsOf, Halted
<1>1. ASSUME NEW w \in Workers, Dispatch(w) PROVE Abstract!Next
  BY <1>0, <1>1, DispatchClaims
<1>2. ASSUME NEW w \in Workers, Send(w) PROVE Abstract!Next
  BY <1>0, <1>2, SendCalls
<1>3. ASSUME NEW w \in Workers, SettleAnswer(w) PROVE Abstract!Next
  BY <1>0, <1>3, SettleAnswers DEF SettleAnswer, PairedInv, WorkerShape
<1>4. ASSUME NEW q \in Requests, NEW c \in Costs, Reconcile(q, c) PROVE Abstract!Next
  BY <1>0, <1>4, SettleAnswers DEF Reconcile, PairedInv, ReceiptShape
<1>5. ASSUME NEW w \in Workers,
             \/ \E q \in Requests : Start(w, q)
             \/ Register(w) \/ Lock(w) \/ Preflight(w)
             \/ \E a \in Answers, c \in Costs \cup {NoCost} : Receive(w, a, c)
             \/ KeepAnswer(w) \/ Stop(w)
      PROVE  UNCHANGED <<Phase, CallsOf, Halted>>
  BY <1>5, OthersStutter
<1>6. CASE LoseLock \/ UNCHANGED vars
  BY <1>6, Stutters DEF LoseLock, vars, ledgerVars, PhaseOf
<1> QED BY <1>1, <1>2, <1>3, <1>4, <1>5, <1>6 DEF Next

\* The paired study implements PaidOnce: whatever workers stop or run without the
\* stage locks, a request is claimed before it is sent, sent once at most, and no
\* other is claimed until its cost is known or ever after an overrun.
THEOREM PairedImplementsPaidOnce == Spec => ImplementsPaidOnce
<1>1. Init => Abstract!Init
  BY InitMaps
<1>2. PairedInv /\ [Next]_vars => [Abstract!Next]_<<Phase, CallsOf, Halted>>
  BY NextMaps
<1> QED BY <1>1, <1>2, PairedInvariant, PTL
        DEF Spec, ImplementsPaidOnce, Abstract!Spec, CallsOf, Halted

===============================================================================
