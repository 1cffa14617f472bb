---------------------------- MODULE TargetMemory ----------------------------
(***************************************************************************)
(* The private memory of the controlled target during the execution of one *)
(* audit: SqlTargetMemoryStore writes what the target's writer extracts    *)
(* from the conversation, reconciles it, keeps it within a capacity, and   *)
(* serves each question of the audit from it.  One session works on it; it *)
(* commits when the execution ends or fails, and loses what it has not     *)
(* committed when the process dies.                                        *)
(*                                                                         *)
(* A record is named by its place in the writer's output (write_order).    *)
(* Texts are facts: equal facts have one fingerprint, facts of one gist    *)
(* have the same content words.  Message context, project isolation and    *)
(* prefer_current_state keep their defaults (off).                         *)
(***************************************************************************)
EXTENDS Naturals, Sequences, FiniteSets, SequencesExt

CONSTANTS
  Batches,       \* what the writer may return: [facts |-> ..., links |-> ...]
  Settings,      \* frozen settings an audit may have
  Tests,         \* its questions
  NoTest,        \* no question is being served
  Gist,          \* fact -> its near-duplicate signature, or NoGist
  NoGist,
  Weight,        \* fact -> retention weight of its scope
  Time,          \* fact -> when it was observed
  Size,          \* fact -> characters it takes in a context
  Relevance,     \* question -> fact -> lexical relevance
  Category,      \* relevance from which on the topic category matches
  Chars,         \* context_character_budget
  Wrap,          \* characters of JSON around each record of a packet
  Request,       \* records that fit one request of the retrieval agent
  MaxExecutions  \* bound: executions begun, retries included

VARIABLES
  setting,   \* [capacity, aware, coverage, agent, strategy, room]: room is max_retrieved_records
  pc,        \* what the session does next
  asked,     \* the question being served, or NoTest while the execution prepares
  batch,     \* the writer's last output: the contents of the records
  home,      \* home[i]: the record that holds candidate i (extracted_ids)
  state,     \* record -> lifecycle state
  edges,     \* relationship rows
  cursor,    \* next link to apply
  calls,     \* how often the writer was called
  begun,     \* executions begun
  pool,      \* the agent's current candidates
  sent,      \* the candidates an agent request has carried
  answers,   \* question -> what its answer was given
  saved      \* what is committed

store == <<batch, home, state, edges>>
vars == <<setting, pc, asked, batch, home, state, edges, cursor, calls, begun,
          pool, sent, answers, saved>>

ASSUME BoundAssumption == MaxExecutions \in Nat
ASSUME WeightAssumption == \A f \in DOMAIN Weight : Weight[f] \in Nat
ASSUME TimeAssumption == \A f \in DOMAIN Weight : Time[f] \in Nat
ASSUME CapacityIsPositive == \A s \in Settings : s.capacity \in Nat \ {0}

-----------------------------------------------------------------------------
Records == DOMAIN state

(* The writer's outputs are checked before they are stored: a link joins two   *)
(* different candidates, and links come in the order of their candidates.      *)
WellFormed(b) ==
  /\ \A k \in DOMAIN b.links :
       /\ b.links[k].from \in DOMAIN b.facts
       /\ b.links[k].to \in DOMAIN b.facts \ {b.links[k].from}
       /\ b.links[k].type \in {"UPDATE", "CONFLICT", "CONTEXTUAL_OVERRIDE"}
  /\ \A k, l \in DOMAIN b.links : k < l => b.links[k].from <= b.links[l].from

ASSUME BatchesAreWellFormed == \A b \in Batches :
  /\ b.facts \in Seq(DOMAIN Weight)
  /\ b.links \in Seq([from : Nat, type : STRING, to : Nat])
  /\ WellFormed(b)

HasLinks(i) == \E k \in DOMAIN batch.links : batch.links[k].from = i

Available == {r \in Records : state[r] \notin {"SUPERSEDED", "EVICTED"}}
Protected == {r \in Available : state[r] = "CONFLICTED"}

(* Records a new candidate i is merged into: the one with its fingerprint, or  *)
(* the one with its content words when neither carries a link.  Merging leaves *)
(* at most one of each.                                                        *)
Duplicates(i) == {r \in Records : batch.facts[r] = batch.facts[i]}
NearDuplicates(i) ==
  {r \in Records : /\ Gist[batch.facts[r]] = Gist[batch.facts[i]]
                   /\ Gist[batch.facts[i]] # NoGist
                   /\ ~HasLinks(i) /\ ~HasLinks(r)}
HomeOf(i) ==
  IF setting.aware /\ Duplicates(i) # {} THEN CHOOSE r \in Duplicates(i) : TRUE
  ELSE IF setting.aware /\ NearDuplicates(i) # {}
    THEN CHOOSE r \in NearDuplicates(i) : TRUE
  ELSE i

Overrides(r) == \E e \in edges : e.from = r /\ e.type = "CONTEXTUAL_OVERRIDE"
Retention(r) == Weight[batch.facts[r]] + (IF Overrides(r) THEN 40 ELSE 0)

\* Mutant: the older record goes first whatever it weighs.
EvictedBefore_ByTime(r, q) ==
  \/ Time[batch.facts[r]] < Time[batch.facts[q]]
  \/ Time[batch.facts[r]] = Time[batch.facts[q]] /\ r < q

(* r goes before q when the capacity is exceeded.                              *)
EvictedBefore(r, q) ==
  \/ Retention(r) < Retention(q)
  \/ Retention(r) = Retention(q) /\ Time[batch.facts[r]] < Time[batch.facts[q]]
  \/ Retention(r) = Retention(q) /\ Time[batch.facts[r]] = Time[batch.facts[q]] /\ r < q

-----------------------------------------------------------------------------
Empty == [batch |-> [facts |-> <<>>, links |-> <<>>], home |-> <<>>, state |-> <<>>,
          edges |-> {}, answers |-> <<>>]

Init ==
  /\ setting \in Settings
  /\ pc = "idle" /\ asked = NoTest
  /\ batch = Empty.batch /\ home = <<>> /\ state = <<>> /\ edges = {}
  /\ cursor = 1 /\ calls = 0 /\ begun = 0
  /\ pool = {} /\ sent = {} /\ answers = <<>> /\ saved = Empty

Answered == DOMAIN answers

(* The transaction ends: the receipt of a failure is saved with what was done. *)
Commit ==
  /\ saved' = [batch |-> batch', home |-> home', state |-> state', edges |-> edges',
               answers |-> answers']
  /\ pc' = "idle" /\ asked' = NoTest /\ pool' = {} /\ sent' = {}

Fails ==
  /\ UNCHANGED <<setting, store, cursor, calls, begun, answers>>
  /\ Commit

\* Mutant: every call of ingest writes the memory again.
NextStage_Rewrites(ready) == "extract"

(* ingest returns what is written already; only an empty store is written.     *)
NextStage(ready) == IF Records # {} THEN ready ELSE "extract"

(* _execute: the target ingests, and only questions without an answer are asked *)
Begin ==
  /\ pc = "idle" /\ begun < MaxExecutions /\ Answered # Tests
  /\ begun' = begun + 1 /\ pc' = NextStage("ready")
  /\ UNCHANGED <<setting, asked, store, cursor, calls, pool, sent, answers, saved>>

Ask(t) ==
  /\ pc = "ready" /\ t \notin Answered
  /\ asked' = t /\ pc' = NextStage("retrieve")
  /\ UNCHANGED <<setting, store, cursor, calls, begun, pool, sent, answers, saved>>

Finish ==
  /\ pc = "ready" /\ Answered = Tests
  /\ Fails

-----------------------------------------------------------------------------
(* ingest                                                                      *)

Extract ==
  /\ pc = "extract"
  /\ batch' \in Batches
  /\ home' = <<>> /\ state' = <<>> /\ edges' = {}
  /\ cursor' = 1 /\ calls' = calls + 1 /\ pc' = "write"
  /\ UNCHANGED <<setting, asked, begun, pool, sent, answers, saved>>

ExtractFails == pc = "extract" /\ Fails

Write ==
  /\ pc = "write" /\ Len(home) < Len(batch.facts)
  /\ LET i == Len(home) + 1 IN
     /\ home' = Append(home, HomeOf(i))
     /\ state' = [r \in Records \cup {HomeOf(i)} |-> IF r \in Records THEN state[r] ELSE "ACTIVE"]
  /\ UNCHANGED <<setting, pc, asked, batch, edges, cursor, calls, begun, pool, sent, answers, saved>>

Written ==
  /\ pc = "write" /\ Len(home) = Len(batch.facts)
  /\ pc' = "link"
  /\ UNCHANGED <<setting, asked, store, cursor, calls, begun, pool, sent, answers, saved>>

\* Mutant: the direction of an UPDATE is swapped.
Reconciled_Swapped(type, r, q) ==
  CASE type = "UPDATE" /\ setting.aware -> [state EXCEPT ![r] = "SUPERSEDED"]
    [] type = "CONFLICT" -> [state EXCEPT ![r] = "CONFLICTED", ![q] = "CONFLICTED"]
    [] OTHER -> state

\* Mutant: a conflict marks only the newer record.
Reconciled_OneSide(type, r, q) ==
  CASE type = "UPDATE" /\ setting.aware -> [state EXCEPT ![q] = "SUPERSEDED"]
    [] type = "CONFLICT" -> [state EXCEPT ![r] = "CONFLICTED"]
    [] OTHER -> state

(* Record r is linked to the related record q.                                 *)
Reconciled(type, r, q) ==
  CASE type = "UPDATE" /\ setting.aware -> [state EXCEPT ![q] = "SUPERSEDED"]
    [] type = "CONFLICT" -> [state EXCEPT ![r] = "CONFLICTED", ![q] = "CONFLICTED"]
    [] OTHER -> state

Link ==
  /\ pc = "link" /\ cursor <= Len(batch.links)
  /\ LET l == batch.links[cursor]
         r == home[l.from]
         q == home[l.to] IN
     IF r = q
       THEN UNCHANGED <<state, edges>>
       ELSE /\ edges' = edges \cup {[from |-> r, type |-> l.type, to |-> q]}
            /\ state' = Reconciled(l.type, r, q)
  /\ cursor' = cursor + 1
  /\ UNCHANGED <<setting, pc, asked, batch, home, calls, begun, pool, sent, answers, saved>>

Linked ==
  /\ pc = "link" /\ cursor > Len(batch.links)
  /\ pc' = "limit"
  /\ UNCHANGED <<setting, asked, store, cursor, calls, begun, pool, sent, answers, saved>>

(* The limit is soft when the unresolved conflicts alone exceed it.            *)
OverCapacity ==
  /\ Cardinality(Protected) <= setting.capacity
  /\ Cardinality(Available) > setting.capacity

Evict ==
  /\ pc = "limit" /\ OverCapacity /\ ~setting.coverage
  /\ \E r \in Available \ Protected :
       /\ \A q \in Available \ Protected : q = r \/ EvictedBefore(r, q)
       /\ state' = [state EXCEPT ![r] = "EVICTED"]
  /\ UNCHANGED <<setting, pc, asked, batch, home, edges, cursor, calls, begun, pool, sent,
                 answers, saved>>

(* source_coverage: whole tiers of priority are kept while they fit; which     *)
(* records of the tier that is cut are kept depends on their sources and texts. *)
EvictForCoverage ==
  /\ pc = "limit" /\ OverCapacity /\ setting.coverage
  /\ \E keep \in SUBSET Available :
       /\ Protected \subseteq keep /\ Cardinality(keep) = setting.capacity
       /\ \A r \in Available \ keep, q \in keep \ Protected : Retention(r) <= Retention(q)
       /\ state' = [r \in Records |-> IF r \in Available \ keep THEN "EVICTED" ELSE state[r]]
  /\ UNCHANGED <<setting, pc, asked, batch, home, edges, cursor, calls, begun, pool, sent,
                 answers, saved>>

Ingested ==
  /\ pc = "limit" /\ ~OverCapacity
  /\ pc' = IF asked = NoTest THEN "ready" ELSE "retrieve"
  /\ UNCHANGED <<setting, asked, store, cursor, calls, begun, pool, sent, answers, saved>>

-----------------------------------------------------------------------------
(* retrieve, fixed strategies                                                  *)

Lexical(r) == Relevance[asked][batch.facts[r]]

Linking(r, type) == \E e \in edges : e.from = r /\ e.type = type

Highest(S) == CHOOSE x \in S : \A y \in S : y <= x

(* policy_score of _candidate                                                  *)
Policy(r) == Highest(
  {IF state[r] = "SUPERSEDED" THEN 0 ELSE 20}
  \cup {s \in {40} : Linking(r, "UPDATE") /\ setting.aware}
  \cup {s \in {60} : Linking(r, "CONTEXTUAL_OVERRIDE")}
  \cup {s \in {30} : Linking(r, "CONFLICT") \/ state[r] = "CONFLICTED"})

(* _mark_retrieval_eligibility: only the weak baseline sees superseded records *)
Eligible ==
  {r \in Records : /\ state[r] # "EVICTED"
                   /\ state[r] = "SUPERSEDED" => setting.strategy = "WEAK_FIRST_HIT"}

Relevant == {r \in Eligible : Lexical(r) > 0}

(* A packet also takes the records one link away from a relevant one.          *)
Neighbours == {r \in Eligible : \E e \in edges, q \in Relevant : {e.from, e.to} = {r, q}}

Candidates ==
  CASE setting.strategy = "NO_MEMORY" -> {}
    [] setting.strategy = "FULL_CONTEXT" -> Eligible
    [] setting.strategy = "RELATIONSHIP_PACKET" -> Relevant \cup Neighbours
    [] setting.strategy = "WEAK_FIRST_HIT" ->
         {r \in Relevant : \A q \in Relevant : r <= q}
    [] OTHER -> Relevant

Grouping == setting.strategy \in {"STRONG_RULE_BASED", "RELATIONSHIP_PACKET"}

(* Sort keys of _select, most significant first; ties fall to the write order. *)
Keys(r) ==
  IF Grouping
    THEN <<IF Lexical(r) >= Category THEN 1 ELSE 0, Policy(r), Time[batch.facts[r]], r>>
    ELSE <<0, 0, Time[batch.facts[r]], r>>

Lower(r, q) ==
  \E k \in 1..4 : Keys(r)[k] < Keys(q)[k] /\ \A l \in 1..k-1 : Keys(r)[l] = Keys(q)[l]

Lowest(S) == CHOOSE r \in S : \A q \in S : q = r \/ Lower(r, q)

(* The budget is spent on the highest rank first, except by the two baselines: *)
(* which record of S waits for all others.                                     *)
LastInTurn(S) ==
  IF Grouping THEN Lowest(S) ELSE CHOOSE r \in S : \A q \in S : q = r \/ Lower(q, r)

Opposed(r, q) == \E e \in edges : e.type = "CONFLICT" /\ {e.from, e.to} = {r, q}

\* Mutant: only the direct opponents of a record are considered with it.
GroupOf_Direct(r) == {r} \cup {q \in Candidates : Grouping /\ Opposed(r, q)}

(* All candidates that conflicts connect with r.                               *)
GroupOf(r) ==
  {q \in Candidates :
     \A G \in SUBSET Candidates :
       (r \in G /\ \A a \in G, b \in Candidates : Grouping /\ Opposed(a, b) => b \in G) => q \in G}

Cost(R) == LET SizeOf(r) == Size[batch.facts[r]] IN MapThenSumSet(SizeOf, R)

Fits(chosen, group) ==
  Cardinality(chosen) + Cardinality(group) <= setting.room /\ Cost(chosen) + Cost(group) <= Chars

(* _apply_profile: a conflict group is taken whole or left out whole.          *)
Consider(r, chosen) ==
  IF r \notin chosen /\ Fits(chosen, GroupOf(r)) THEN chosen \cup GroupOf(r) ELSE chosen

Profiled == MapThenFoldSet(Consider, {}, LAMBDA r : r, LastInTurn, Candidates)

PacketFits(given) == Cost(given) + Wrap * Cardinality(given) <= Chars

(* The lowest record leaves an oversized packet, with the opponents one pass   *)
(* over the rows finds; the rows come in no particular order.                  *)
Dropped(r, rows) ==
  LET Widen(gone, e) == IF gone \cap {e.from, e.to} # {} THEN gone \cup {e.from, e.to} ELSE gone
  IN FoldLeft(Widen, {r}, rows)

Trimmed(given, rows) ==
  LET Trim(turn, left) ==
        IF PacketFits(left) THEN left ELSE left \ Dropped(Lowest(left), rows)
  IN MapThenFoldSet(Trim, given, LAMBDA r : r, LAMBDA S : CHOOSE r \in S : TRUE, given)

Delivered(rows) ==
  IF setting.strategy = "RELATIONSHIP_PACKET" THEN Trimmed(Profiled, rows) ELSE Profiled

(* What an answer was drawn from: which writing of the memory (0: an empty     *)
(* one), the records given to the model, those that competed, those an agent   *)
(* was shown.                                                                  *)
Evidence(given, competed, shown) ==
  [writing |-> IF Records = {} THEN 0 ELSE calls, given |-> given, competed |-> competed,
   shown |-> shown]

Answer(evidence) ==
  /\ answers' = [t \in Answered \cup {asked} |-> IF t = asked THEN evidence ELSE answers[t]]
  /\ pc' = "ready" /\ asked' = NoTest /\ pool' = {} /\ sent' = {}
  /\ UNCHANGED <<setting, store, cursor, calls, begun, saved>>

Retrieve ==
  /\ pc = "retrieve" /\ ~setting.agent
  /\ \E rows \in SetToSeqs({e \in edges : e.type = "CONFLICT"}) :
       Answer(Evidence(Delivered(rows), Candidates, {}))

(* A budget is exhausted or the audit was cancelled; the retrieval agent or the *)
(* answering model fails.                                                      *)
ExecutionFails == pc \in {"ready", "retrieve", "narrow"} /\ Fails

-----------------------------------------------------------------------------
(* retrieve, with an agent that selects                                        *)

ShowAll ==
  /\ pc = "retrieve" /\ setting.agent
  /\ pool' = {r \in Records : state[r] # "EVICTED"} /\ sent' = {} /\ pc' = "narrow"
  /\ UNCHANGED <<setting, asked, store, cursor, calls, begun, answers, saved>>

Narrows(keep) == Cardinality(keep) < Cardinality(pool)

(* A store too large for one request is narrowed batch by batch; what the      *)
(* agent keeps of each is not limited by its count, so a round may fail.       *)
Narrow ==
  /\ pc = "narrow" /\ Cardinality(pool) > Request
  /\ \E keep \in SUBSET pool :
       /\ Narrows(keep)
       /\ pool' = keep /\ sent' = sent \cup pool
  /\ UNCHANGED <<setting, pc, asked, store, cursor, calls, begun, answers, saved>>

Shown == sent \cup pool

(* The last request: the agent orders what it selects, within the two limits.  *)
Choose ==
  /\ pc = "narrow" /\ Cardinality(pool) <= Request
  /\ \E chosen \in SUBSET pool : \E order \in SetToSeqs(chosen) :
       LET Take(given, r) == IF Fits(given, {r}) THEN given \cup {r} ELSE given
       IN Answer(Evidence(FoldLeft(Take, {}, order), {}, Shown))

-----------------------------------------------------------------------------
(* The process dies: the session's transaction is rolled back.                 *)
Crash ==
  /\ pc # "idle"
  /\ batch' = saved.batch /\ home' = saved.home /\ state' = saved.state
  /\ edges' = saved.edges /\ answers' = saved.answers
  /\ pc' = "idle" /\ asked' = NoTest /\ pool' = {} /\ sent' = {}
  /\ UNCHANGED <<setting, cursor, calls, begun, saved>>

(* Every question is answered, or the bound is reached.                        *)
Idle == pc = "idle" /\ (begun = MaxExecutions \/ Answered = Tests) /\ UNCHANGED vars

Next ==
  \/ Begin \/ Extract \/ Write \/ Written \/ Link \/ Linked \/ Evict \/ EvictForCoverage
  \/ Ingested \/ \E t \in Tests : Ask(t)
  \/ Retrieve \/ ShowAll \/ Narrow \/ Choose \/ Finish
  \/ ExtractFails \/ ExecutionFails \/ Crash \/ Idle

Spec == Init /\ [][Next]_vars

-----------------------------------------------------------------------------
(* Properties                                                                  *)

States == {"ACTIVE", "SUPERSEDED", "CONFLICTED", "EVICTED"}

(* Records are candidates of the last writing, each with a lifecycle state,    *)
(* and every candidate written so far has a home among them.                   *)
TypeOK ==
  /\ setting \in Settings
  /\ pc \in {"idle", "extract", "write", "link", "limit", "ready", "retrieve", "narrow"}
  /\ asked \in Tests \cup {NoTest}
  /\ batch \in Batches \cup {Empty.batch}
  /\ Len(home) <= Len(batch.facts)
  /\ home \in Seq(Records)
  /\ Records \subseteq 1..Len(home)
  /\ state \in [Records -> States]
  /\ cursor \in Nat /\ calls \in Nat /\ begun \in 0..MaxExecutions
  /\ pool \subseteq Records /\ sent \subseteq Records
  /\ Answered \subseteq Tests

Ready == pc \in {"ready", "retrieve", "narrow"}

(* _apply_capacity_limit: once the memory is ready it holds no more than its   *)
(* capacity, unless unresolved conflicts alone exceed it, and then nothing was *)
(* evicted; an eviction was needed, and never took a record that weighs more   *)
(* than one that was kept without being in a conflict.                         *)
CapacityHeld ==
  LET evicted == {r \in Records : state[r] = "EVICTED"} IN
  Ready =>
    \/ /\ evicted = {}
       /\ Cardinality(Available) <= setting.capacity \/ Cardinality(Protected) > setting.capacity
    \/ /\ Cardinality(Available) = setting.capacity
       /\ \A r \in evicted, q \in Available \ Protected : Retention(r) <= Retention(q)

(* "Preserve both facts": a fact in a conflict disappears only when an UPDATE  *)
(* replaced it, never to make room.                                            *)
ConflictsAreKept ==
  Ready => \A e \in edges : e.type = "CONFLICT" => 
    \A r \in {e.from, e.to} : \/ state[r] = "CONFLICTED"
                              \/ state[r] = "SUPERSEDED" /\ \E u \in edges : u.type = "UPDATE" /\ u.to = r

(* An UPDATE points from the newer to the older fact.  If the writer says so   *)
(* and merged no two candidates, the newest version of a fact is not withdrawn: *)
(* each superseded record has a later record that replaced it and was not itself *)
(* superseded, or replaced in its turn.                                        *)
PointsBack == \A k \in DOMAIN batch.links : batch.links[k].to < batch.links[k].from
NewestIsKept ==
  (PointsBack /\ \A i \in DOMAIN home : home[i] = i) =>
    \A r \in Records : state[r] = "SUPERSEDED" =>
      \E q \in Records : r < q /\ [from |-> q, type |-> "UPDATE", to |-> r] \in edges

(* ingest is idempotent: over failures, retries and lost transactions, all     *)
(* answers of an audit are drawn from one writing of the memory, except those  *)
(* given while the writer had found nothing to write.                          *)
OneHistory ==
  \A t, u \in Answered : answers[t].writing # 0 /\ answers[u].writing # 0 =>
    answers[t].writing = answers[u].writing

(* _apply_profile: of two facts in a conflict that compete for a context, both *)
(* are given or neither; a packet keeps this when no record has two opponents. *)
Pairwise == \A r \in Records : Cardinality({q \in Records : Opposed(r, q)}) <= 1
ConflictsAreWhole ==
  \A t \in Answered :
    (/\ ~setting.agent
     /\ \/ setting.strategy = "STRONG_RULE_BASED"
        \/ setting.strategy = "RELATIONSHIP_PACKET" /\ Pairwise) =>
      \A r, q \in answers[t].competed :
        Opposed(r, q) => (r \in answers[t].given <=> q \in answers[t].given)

(* "Every available target record must reach an Agent decision": however often *)
(* the store was narrowed, each record that was not evicted was shown.         *)
AgentSeesAll ==
  setting.agent => \A t \in Answered : answers[t].writing # 0 =>
    answers[t].shown = {r \in Records : state[r] # "EVICTED"}

(* "never_splits_conflicts", of packets: refuted, see the README.              *)
PacketKeepsConflicts ==
  \A t \in Answered : (setting.strategy = "RELATIONSHIP_PACKET" /\ ~setting.agent) =>
    \A r, q \in answers[t].competed :
      Opposed(r, q) => (r \in answers[t].given <=> q \in answers[t].given)

=============================================================================
