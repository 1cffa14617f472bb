------------------------- MODULE TargetMemory_proofs -------------------------
(* Proofs about TargetMemory, for every output of the writer, every frozen    *)
(* setting and every interleaving of failures, retries and lost transactions. *)
EXTENDS TargetMemory, FiniteSetTheorems, TLAPS

\* The parts of the store fit each other, in the session and in the database.
StoreOK(b, h, s) ==
  /\ b \in Batches \cup {Empty.batch}
  /\ h \in Seq(DOMAIN s) /\ Len(h) <= Len(b.facts)
  /\ DOMAIN s \subseteq 1..Len(h)
  /\ s \in [DOMAIN s -> States]

\* What holds between the session's position and its state.
PositionOK ==
  /\ pc # "narrow" => pool = {} /\ sent = {}
  /\ pc \in {"retrieve", "narrow"} => asked \in Tests
  /\ pc = "link" => Len(home) = Len(batch.facts)
  /\ pc = "write" => edges = {} /\ \A r \in Records : state[r] = "ACTIVE"
  /\ cursor # 0

SavedOK == StoreOK(saved.batch, saved.home, saved.state) /\ DOMAIN saved.answers \subseteq Tests

MemoryType == TypeOK /\ PositionOK /\ SavedOK

\* Steps that only move the session between its questions and its stages.
Turn ==
  \/ Begin \/ (\E t \in Tests : Ask(t)) \/ Written \/ Linked \/ Ingested \/ ShowAll \/ Idle

\* Steps that end an execution and save what it did.
Save == Finish \/ ExtractFails \/ ExecutionFails

-----------------------------------------------------------------------------
\* The outputs of the writer have facts and links.
LEMMA OutputType ==
  ASSUME NEW b \in Batches \cup {Empty.batch}
  PROVE  Len(b.facts) \in Nat /\ WellFormed(b) /\ Len(b.links) \in Nat
         /\ DOMAIN b.links = 1..Len(b.links) /\ DOMAIN b.facts = 1..Len(b.facts)
<1>1. CASE b \in Batches
  BY <1>1, BatchesAreWellFormed
<1>2. CASE b = Empty.batch
  <2>1. b.facts = <<>> /\ b.links = <<>>
    BY <1>2 DEF Empty
  <2> QED
    BY <2>1 DEF WellFormed
<1> QED
  BY <1>1, <1>2

\* A candidate goes to a record there is, or to a record of its own.
LEMMA HomeType == ASSUME NEW i PROVE HomeOf(i) \in Records \cup {i}
BY DEF HomeOf, Duplicates, NearDuplicates

\* The memory starts typed.
LEMMA InitType == Init => MemoryType
<1> SUFFICES ASSUME Init PROVE MemoryType
  OBVIOUS
<1>1. StoreOK(batch, home, state) /\ SavedOK
  BY DEF Init, StoreOK, SavedOK, Empty
<1> QED
  BY <1>1, BoundAssumption DEF Init, MemoryType, TypeOK, PositionOK, StoreOK, Records, Answered

\* A step of a turn keeps the types.
LEMMA TurnType == MemoryType /\ Turn => MemoryType'
<1> SUFFICES ASSUME MemoryType, Turn PROVE MemoryType'
  OBVIOUS
<1> USE DEF MemoryType, TypeOK, PositionOK, SavedOK, StoreOK, Records, Answered, store
<1>1. CASE Begin
  BY <1>1, BoundAssumption DEF Begin, NextStage
<1>2. ASSUME NEW t \in Tests, Ask(t) PROVE MemoryType'
  BY <1>2 DEF Ask, NextStage
<1>3. CASE Written
  BY <1>3 DEF Written
<1>4. CASE Linked
  BY <1>4 DEF Linked
<1>5. CASE Ingested
  BY <1>5 DEF Ingested
<1>6. CASE ShowAll
  BY <1>6 DEF ShowAll
<1>7. CASE Idle
  BY <1>7 DEF Idle, vars
<1> QED
  BY <1>1, <1>2, <1>3, <1>4, <1>5, <1>6, <1>7 DEF Turn

\* Saving a turn keeps the types.
LEMMA SaveType == MemoryType /\ Save => MemoryType'
<1> SUFFICES ASSUME MemoryType, Save PROVE MemoryType'
  OBVIOUS
<1>1. /\ UNCHANGED <<setting, store, cursor, calls, begun, answers>>
      /\ saved' = [batch |-> batch', home |-> home', state |-> state', edges |-> edges',
                   answers |-> answers']
      /\ pc' = "idle" /\ asked' = NoTest /\ pool' = {} /\ sent' = {}
  BY DEF Save, Finish, ExtractFails, ExecutionFails, Fails, Commit
<1>2. TypeOK' /\ PositionOK'
  BY <1>1 DEF MemoryType, TypeOK, PositionOK, Records, Answered, store
<1>3. SavedOK'
  BY <1>1 DEF MemoryType, TypeOK, SavedOK, StoreOK, Records, Answered, store
<1> QED
  BY <1>2, <1>3 DEF MemoryType

\* An answer is added for the question being served.
LEMMA AnswerType ==
  ASSUME NEW evidence, MemoryType, pc \in {"retrieve", "narrow"}, Answer(evidence)
  PROVE  MemoryType'
BY DEF MemoryType, TypeOK, PositionOK, SavedOK, StoreOK, Records, Answered, store, Answer

\* Every step keeps the types.
LEMMA NextType == MemoryType /\ [Next]_vars => MemoryType'
<1> SUFFICES ASSUME MemoryType, [Next]_vars PROVE MemoryType'
  OBVIOUS
<1> USE DEF MemoryType
<1>1. CASE Turn
  BY <1>1, TurnType
<1>2. CASE Save
  BY <1>2, SaveType
<1>3. CASE Extract
  <2>1. batch' \in Batches /\ home' = <<>> /\ state' = <<>> /\ edges' = {}
    BY <1>3 DEF Extract
  <2>2. StoreOK(batch', home', state')
    BY <2>1, OutputType DEF StoreOK
  <2> QED
    BY <1>3, <2>1, <2>2 DEF Extract, TypeOK, PositionOK, SavedOK, StoreOK, Records, Answered
<1>4. CASE Write
  <2> DEFINE i == Len(home) + 1
  <2>1. HomeOf(i) \in Records \cup {i}
    BY HomeType
  <2>2. /\ home' = Append(home, HomeOf(i))
        /\ state' = [r \in Records \cup {HomeOf(i)} |-> IF r \in Records THEN state[r] ELSE "ACTIVE"]
        /\ UNCHANGED <<setting, pc, asked, batch, edges, cursor, calls, begun, pool, sent, answers, saved>>
        /\ pc = "write" /\ Len(home) < Len(batch.facts)
    BY <1>4 DEF Write
  <2>3. Len(home) \in Nat /\ Len(batch.facts) \in Nat /\ Records \subseteq 1..Len(home) /\ home \in Seq(Records)
        /\ batch \in Batches \cup {Empty.batch}
    BY OutputType DEF TypeOK
  <2> HIDE DEF i
  <2>4. Records' = Records \cup {HomeOf(i)} /\ home' \in Seq(Records') /\ Len(home') = i
    BY <2>2, <2>3 DEF Records, i
  <2>5. Records' \subseteq 1..Len(home') /\ Len(home') <= Len(batch'.facts)
    <3>1. i \in Nat /\ Len(home') <= Len(batch'.facts)
      BY <2>2, <2>3, <2>4 DEF i
    <3>2. Records \subseteq 1..i /\ i \in 1..i
      BY <2>3 DEF i
    <3> QED
      BY <2>1, <2>4, <3>1, <3>2
  <2>6. state' \in [Records' -> States] /\ \A r \in Records' : state'[r] = "ACTIVE"
    BY <2>2, <2>4 DEF TypeOK, PositionOK, States
  <2>7. TypeOK'
    BY <2>2, <2>4, <2>5, <2>6 DEF TypeOK, PositionOK, Answered
  <2> QED
    BY <2>2, <2>6, <2>7 DEF PositionOK, SavedOK, Answered
<1>5. CASE Link
  <2> DEFINE l == batch.links[cursor]  r == home[l.from]  q == home[l.to]
  <2>1. /\ pc = "link" /\ cursor' = cursor + 1
        /\ UNCHANGED <<setting, pc, asked, batch, home, calls, begun, pool, sent, answers, saved>>
        /\ state' = state \/ state' = Reconciled(l.type, r, q)
    BY <1>5 DEF Link
  <2> HIDE DEF l, r, q
  <2>2. Records' = Records /\ state' \in [Records -> States]
    BY <2>1 DEF TypeOK, Records, Reconciled, States
  <2> QED
    BY <2>1, <2>2 DEF TypeOK, PositionOK, SavedOK, Answered
<1>6. CASE Evict \/ EvictForCoverage
  <2>1. /\ pc = "limit"
        /\ UNCHANGED <<setting, pc, asked, batch, home, edges, cursor, calls, begun, pool, sent, answers, saved>>
        /\ Records' = Records /\ state' \in [Records -> States]
    BY <1>6 DEF Evict, EvictForCoverage, TypeOK, Records, States
  <2> QED
    BY <2>1 DEF TypeOK, PositionOK, SavedOK, Answered
<1>7. CASE Retrieve
  <2>1. PICK rows : Answer(Evidence(Delivered(rows), Candidates, {}))
    BY <1>7 DEF Retrieve
  <2> QED
    BY <1>7, <2>1, AnswerType DEF Retrieve
<1>8. CASE Narrow
  <2>1. PICK keep \in SUBSET pool : pool' = keep /\ sent' = sent \cup pool
    BY <1>8 DEF Narrow
  <2> QED
    BY <1>8, <2>1 DEF Narrow, TypeOK, PositionOK, SavedOK, Records, Answered, store
<1>9. CASE Choose
  <2>1. \E evidence : Answer(evidence)
    BY <1>9 DEF Choose
  <2> QED
    BY <1>9, <2>1, AnswerType DEF Choose
<1>10. CASE Crash
  BY <1>10 DEF Crash, TypeOK, PositionOK, SavedOK, StoreOK, Records, Answered
<1>11. CASE UNCHANGED vars
  BY <1>11 DEF vars, store, TypeOK, PositionOK, SavedOK, StoreOK, Records, Answered
<1> QED
  BY <1>1, <1>2, <1>3, <1>4, <1>5, <1>6, <1>7, <1>8, <1>9, <1>10, <1>11 DEF Next, Turn, Save

\* The store is always the store of one output of the writer: records are its
\* candidates, each candidate written has a record, each record a state.
THEOREM TypeCorrect == Spec => []TypeOK
<1>1. Spec => []MemoryType
  BY InitType, NextType, PTL DEF Spec
<1>2. MemoryType => TypeOK
  BY DEF MemoryType
<1> QED
  BY <1>1, <1>2, PTL

-----------------------------------------------------------------------------
\* Answers given from a written memory stand for the writing of now, which is
\* there; with one of them nothing is written any more, nor after a rollback.
HistoryInv ==
  /\ \A t \in Answered : answers[t].writing # 0 =>
       /\ answers[t].writing = calls
       /\ Records # {} /\ pc \notin {"extract", "write", "link", "limit"}
  /\ \A t \in DOMAIN saved.answers : saved.answers[t].writing # 0 =>
       /\ saved.answers[t].writing = calls
       /\ DOMAIN saved.state # {}
       /\ Records # {} /\ pc \notin {"extract", "write", "link", "limit"}

\* No answer is given in the initial states.
LEMMA InitHistory == Init => HistoryInv
BY DEF Init, HistoryInv, Empty, Answered

\* An answer is drawn from the writing that is there.
LEMMA AnswerHistory ==
  ASSUME NEW given, NEW competed, NEW shown, HistoryInv, pc \in {"retrieve", "narrow"},
         Answer(Evidence(given, competed, shown))
  PROVE  HistoryInv'
<1>1. Evidence(given, competed, shown).writing = IF Records = {} THEN 0 ELSE calls
  BY DEF Evidence
<1> QED
  BY <1>1 DEF HistoryInv, Answer, Answered, Records, store

\* Every step keeps what HistoryInv says of the answers.
LEMMA NextHistory == MemoryType /\ HistoryInv /\ [Next]_vars => HistoryInv'
<1> SUFFICES ASSUME MemoryType, HistoryInv, [Next]_vars PROVE HistoryInv'
  OBVIOUS
<1> USE DEF HistoryInv, Records, Answered, store
<1>1. CASE Begin
  BY <1>1 DEF Begin, NextStage
<1>2. ASSUME NEW t \in Tests, Ask(t) PROVE HistoryInv'
  BY <1>2 DEF Ask, NextStage
<1>3. CASE Written \/ Linked \/ Ingested \/ ShowAll \/ Narrow
  BY <1>3 DEF Written, Linked, Ingested, ShowAll, Narrow
<1>4. CASE Save
  BY <1>4 DEF Save, Finish, ExtractFails, ExecutionFails, Fails, Commit
<1>5. CASE Extract
  BY <1>5 DEF Extract
<1>6. CASE Write
  BY <1>6 DEF Write
<1>7. CASE Link \/ Evict \/ EvictForCoverage
  BY <1>7 DEF Link, Evict, EvictForCoverage
<1>8. CASE Retrieve
  BY <1>8, AnswerHistory DEF Retrieve
<1>9. CASE Choose
  BY <1>9, AnswerHistory DEF Choose
<1>10. CASE Crash
  BY <1>10 DEF Crash
<1>11. CASE UNCHANGED vars
  BY <1>11 DEF vars
<1> QED
  BY <1>1, <1>2, <1>3, <1>4, <1>5, <1>6, <1>7, <1>8, <1>9, <1>10, <1>11 DEF Next, Save, Idle

\* However often executions fail, are retried or lose their transaction, the
\* answers of an audit drawn from a written memory are drawn from one writing.
THEOREM HistoryIsOne == Spec => []OneHistory
<1>1. Spec => [](MemoryType /\ HistoryInv)
  BY InitType, NextType, InitHistory, NextHistory, PTL DEF Spec
<1>2. HistoryInv => OneHistory
  BY DEF HistoryInv, OneHistory
<1> QED
  BY <1>1, <1>2, PTL

-----------------------------------------------------------------------------
Kept == {r \in Records : state[r] # "EVICTED"}

\* While an agent narrows, what was sent and what is left are all records that
\* were kept; an answer drawn from a written memory names them all.
AgentInv ==
  setting.agent =>
    /\ pc = "narrow" => sent \cup pool = Kept
    /\ \A t \in Answered : answers[t].writing # 0 => answers[t].shown = Kept
    /\ \A t \in DOMAIN saved.answers : saved.answers[t].writing # 0 =>
         saved.answers[t].shown = {r \in DOMAIN saved.state : saved.state[r] # "EVICTED"}

\* No agent narrows in the initial states.
LEMMA InitAgent == Init => AgentInv
BY DEF Init, AgentInv, Empty, Answered

\* No step changes the setting of the target.
LEMMA SettingIsFrozen == [Next]_vars => setting' = setting
<1>1. Begin \/ (\E t \in Tests : Ask(t)) \/ Written \/ Linked \/ Ingested \/ ShowAll \/ Narrow => setting' = setting
  BY DEF Begin, Ask, Written, Linked, Ingested, ShowAll, Narrow
<1>2. Extract \/ Write \/ Link \/ Evict \/ EvictForCoverage \/ Crash => setting' = setting
  BY DEF Extract, Write, Link, Evict, EvictForCoverage, Crash
<1>3. Save => setting' = setting
  BY DEF Save, Finish, ExtractFails, ExecutionFails, Fails
<1>4. ASSUME NEW evidence, Answer(evidence) PROVE setting' = setting
  BY <1>4 DEF Answer
<1>5. Retrieve \/ Choose => setting' = setting
  BY <1>4 DEF Retrieve, Choose
<1>6. Idle \/ UNCHANGED vars => setting' = setting
  BY DEF Idle, vars
<1> QED
  BY <1>1, <1>2, <1>3, <1>5, <1>6 DEF Next, Save

\* Every step keeps what AgentInv says of a narrowing agent.
LEMMA NextAgent == MemoryType /\ HistoryInv /\ AgentInv /\ [Next]_vars => AgentInv'
<1> SUFFICES ASSUME MemoryType, HistoryInv, AgentInv, [Next]_vars, setting.agent PROVE AgentInv'
  BY SettingIsFrozen DEF AgentInv
<1> USE DEF AgentInv, Kept, Records, Answered, store
<1>1. CASE Begin \/ Written \/ Linked \/ Ingested
  BY <1>1 DEF Begin, NextStage, Written, Linked, Ingested
<1>2. ASSUME NEW t \in Tests, Ask(t) PROVE AgentInv'
  BY <1>2 DEF Ask, NextStage
<1>3. CASE ShowAll
  BY <1>3 DEF ShowAll
<1>4. CASE Narrow
  <2>1. PICK keep \in SUBSET pool : pool' = keep /\ sent' = sent \cup pool
    BY <1>4 DEF Narrow
  <2> QED
    BY <1>4, <2>1 DEF Narrow
<1>5. CASE Save
  BY <1>5 DEF Save, Finish, ExtractFails, ExecutionFails, Fails, Commit
<1>6. CASE Extract \/ Write \/ Link \/ Evict \/ EvictForCoverage
  <2>1. /\ UNCHANGED <<setting, answers, saved>> /\ pc' # "narrow"
        /\ \A t \in Answered : answers[t].writing = 0
        /\ \A t \in DOMAIN saved.answers : saved.answers[t].writing = 0
    BY <1>6 DEF Extract, Write, Link, Evict, EvictForCoverage, HistoryInv
  <2> QED
    BY <2>1
<1>7. CASE Retrieve
  BY <1>7 DEF Retrieve
<1>8. CASE Choose
  <2>1. PICK given : Answer(Evidence(given, {}, Shown))
    BY <1>8 DEF Choose
  <2>2. Evidence(given, {}, Shown).shown = Kept
    BY <1>8 DEF Choose, Evidence, Shown
  <2> QED
    BY <2>1, <2>2 DEF Answer
<1>9. CASE Crash
  BY <1>9 DEF Crash
<1>10. CASE UNCHANGED vars
  BY <1>10 DEF vars
<1> QED
  BY <1>1, <1>2, <1>3, <1>4, <1>5, <1>6, <1>7, <1>8, <1>9, <1>10 DEF Next, Save, Idle

\* Every record that was not evicted reached a decision of the retrieval agent
\* before the question was answered, in however many rounds the store was narrowed.
THEOREM AgentDecidesAll == Spec => []AgentSeesAll
<1>1. Spec => [](MemoryType /\ HistoryInv /\ AgentInv)
  BY InitType, NextType, InitHistory, NextHistory, InitAgent, NextAgent, PTL DEF Spec
<1>2. AgentInv => AgentSeesAll
  BY DEF AgentInv, AgentSeesAll, Kept
<1> QED
  BY <1>1, <1>2, PTL

-----------------------------------------------------------------------------
\* Relationships join records, and a record in a conflict is marked or replaced.
ConflictsKeptIn(s, es) ==
  \A e \in es :
    /\ e.from \in DOMAIN s /\ e.to \in DOMAIN s
    /\ e.type = "CONFLICT" => \A r \in {e.from, e.to} :
         \/ s[r] = "CONFLICTED"
         \/ s[r] = "SUPERSEDED" /\ \E u \in es : u.type = "UPDATE" /\ u.to = r

\* If updates point back and nothing was merged, a superseded record has a later
\* one that replaced it.
NewestIn(b, h, s, es) ==
  ((\A k \in DOMAIN b.links : b.links[k].to < b.links[k].from) /\ (\A i \in DOMAIN h : h[i] = i)) =>
    \A r \in DOMAIN s : s[r] = "SUPERSEDED" =>
      \E q \in DOMAIN s : r < q /\ [from |-> q, type |-> "UPDATE", to |-> r] \in es

LinksInv ==
  /\ ConflictsKeptIn(state, edges) /\ NewestIn(batch, home, state, edges)
  /\ ConflictsKeptIn(saved.state, saved.edges)
  /\ NewestIn(saved.batch, saved.home, saved.state, saved.edges)

\* There are no links in the initial states.
LEMMA InitLinks == Init => LinksInv
BY DEF Init, LinksInv, ConflictsKeptIn, NewestIn, Empty

\* One link is applied: an UPDATE withdraws the older record and leaves a trace of
\* it, a CONFLICT marks both.
LEMMA LinkLinks == MemoryType /\ LinksInv /\ Link => LinksInv'
<1> SUFFICES ASSUME MemoryType, LinksInv, Link PROVE LinksInv'
  OBVIOUS
<1> DEFINE l == batch.links[cursor]  r == home[l.from]  q == home[l.to]
           edge == [from |-> r, type |-> l.type, to |-> q]
<1>1. /\ Len(home) = Len(batch.facts) /\ home \in Seq(Records) /\ cursor \in DOMAIN batch.links
      /\ l.from \in DOMAIN home /\ l.to \in DOMAIN home
  <2>1. pc = "link" /\ cursor <= Len(batch.links)
    BY DEF Link
  <2>2. batch \in Batches \cup {Empty.batch} /\ home \in Seq(Records) /\ cursor \in Nat \ {0}
    BY DEF MemoryType, TypeOK, PositionOK
  <2>3. cursor \in DOMAIN batch.links
    BY <2>1, <2>2, OutputType
  <2>4. l.from \in DOMAIN batch.facts /\ l.to \in DOMAIN batch.facts
    BY <2>2, <2>3, OutputType DEF WellFormed
  <2>5. Len(home) = Len(batch.facts) /\ DOMAIN batch.facts = 1..Len(batch.facts)
    BY <2>1, <2>2, OutputType DEF MemoryType, PositionOK
  <2> QED
    BY <2>2, <2>3, <2>4, <2>5
<1>2. r \in Records /\ q \in Records
  BY <1>1
<1>3. /\ UNCHANGED <<batch, home, saved, setting>>
      /\ \/ UNCHANGED <<state, edges>>
         \/ edges' = edges \cup {edge} /\ state' = Reconciled(l.type, r, q)
  BY DEF Link
<1>4. (\A k \in DOMAIN batch.links : batch.links[k].to < batch.links[k].from) => l.to < l.from
  BY <1>1
<1> HIDE DEF l, r, q, edge
<1>5. CASE UNCHANGED <<state, edges>>
  BY <1>3, <1>5 DEF LinksInv
<1>6. CASE edges' = edges \cup {edge} /\ state' = Reconciled(l.type, r, q)
  <2>1. /\ state \in [Records -> States] /\ DOMAIN state = Records
        /\ edge.from = r /\ edge.to = q /\ edge.type = l.type
    BY DEF MemoryType, TypeOK, edge
  <2>2. \/ l.type = "UPDATE" /\ state' = [state EXCEPT ![q] = "SUPERSEDED"]
        \/ l.type = "CONFLICT" /\ state' = [state EXCEPT ![r] = "CONFLICTED", ![q] = "CONFLICTED"]
        \/ l.type # "CONFLICT" /\ state' = state
    BY <1>6 DEF Reconciled
  <2>3. ConflictsKeptIn(state', edges')
    <3>1. DOMAIN state' = Records /\ edges' = edges \cup {edge}
      BY <1>6, <2>1, <2>2
    <3>2. \A x \in Records : \/ state'[x] = state[x]
                             \/ state'[x] = "CONFLICTED"
                             \/ state'[x] = "SUPERSEDED" /\ edge.type = "UPDATE" /\ edge.to = x
      <4>1. CASE l.type = "UPDATE" /\ state' = [state EXCEPT ![q] = "SUPERSEDED"]
        BY <2>1, <4>1
      <4>2. CASE l.type = "CONFLICT" /\ state' = [state EXCEPT ![r] = "CONFLICTED", ![q] = "CONFLICTED"]
        BY <2>1, <4>2
      <4> QED
        BY <2>2, <4>1, <4>2
    <3>3. edge.type = "CONFLICT" => state'[edge.from] = "CONFLICTED" /\ state'[edge.to] = "CONFLICTED"
      BY <1>2, <2>1, <2>2
    <3>4. ASSUME NEW e \in edges' PROVE e.from \in Records /\ e.to \in Records
      BY <1>2, <2>1, <3>1 DEF LinksInv, ConflictsKeptIn
    <3>5. ASSUME NEW e \in edges, e.type = "CONFLICT", NEW x \in {e.from, e.to}
          PROVE  \/ state'[x] = "CONFLICTED"
                 \/ state'[x] = "SUPERSEDED" /\ \E u \in edges' : u.type = "UPDATE" /\ u.to = x
      <4>1. x \in Records
        BY <3>1, <3>4, <3>5
      <4>2. \/ state[x] = "CONFLICTED"
            \/ state[x] = "SUPERSEDED" /\ \E u \in edges : u.type = "UPDATE" /\ u.to = x
        BY <3>5 DEF LinksInv, ConflictsKeptIn
      <4> QED
        BY <3>1, <3>2, <4>1, <4>2
    <3> QED
      BY <3>1, <3>3, <3>4, <3>5 DEF ConflictsKeptIn
  <2>4. NewestIn(batch', home', state', edges')
    <3> SUFFICES ASSUME \A k \in DOMAIN batch.links : batch.links[k].to < batch.links[k].from,
                        \A i \in DOMAIN home : home[i] = i,
                        NEW x \in DOMAIN state', state'[x] = "SUPERSEDED"
                 PROVE  \E y \in DOMAIN state' : x < y /\ [from |-> y, type |-> "UPDATE", to |-> x] \in edges'
      BY <1>3 DEF NewestIn
    <3>1. q < r
      BY <1>1, <1>4 DEF q, r
    <3>2. CASE state'[x] = state[x]
      BY <1>6, <2>1, <2>2, <3>2 DEF LinksInv, NewestIn
    <3>3. CASE state'[x] # state[x]
      <4>1. l.type = "UPDATE" /\ x = q
        BY <2>1, <2>2, <3>3
      <4>2. [from |-> r, type |-> "UPDATE", to |-> q] \in edges'
        BY <1>6, <4>1 DEF edge
      <4> QED
        BY <1>2, <2>1, <2>2, <3>1, <4>1, <4>2
    <3> QED
      BY <3>2, <3>3
  <2> QED
    BY <1>3, <2>3, <2>4 DEF LinksInv
<1> QED
  BY <1>3, <1>5, <1>6

\* Making room takes neither a record in a conflict nor one that was replaced.
LEMMA EvictLinks == MemoryType /\ LinksInv /\ (Evict \/ EvictForCoverage) => LinksInv'
<1> SUFFICES ASSUME MemoryType, LinksInv, Evict \/ EvictForCoverage PROVE LinksInv'
  OBVIOUS
<1>1. /\ UNCHANGED <<batch, home, edges, saved>> /\ state \in [Records -> States]
      /\ DOMAIN state' = Records /\ DOMAIN state = Records
  BY DEF Evict, EvictForCoverage, MemoryType, TypeOK, Records
<1>2. \A r \in Records : state'[r] # state[r] => state'[r] = "EVICTED" /\ r \in Available \ Protected
  <2>1. CASE Evict
    BY <1>1, <2>1 DEF Evict, Available, Protected
  <2>2. CASE EvictForCoverage
    BY <1>1, <2>2 DEF EvictForCoverage
  <2> QED
    BY <2>1, <2>2
<1>3. \A r \in Records : state[r] \in {"CONFLICTED", "SUPERSEDED"} => state'[r] = state[r]
  BY <1>2 DEF Available, Protected
<1>4. ConflictsKeptIn(state', edges')
  BY <1>1, <1>3 DEF LinksInv, ConflictsKeptIn
<1>5. NewestIn(batch', home', state', edges')
  BY <1>1, <1>2 DEF LinksInv, NewestIn
<1> QED
  BY <1>1, <1>4, <1>5 DEF LinksInv

\* Every step keeps what LinksInv says of the links.
LEMMA NextLinks == MemoryType /\ LinksInv /\ [Next]_vars => LinksInv'
<1> SUFFICES ASSUME MemoryType, LinksInv, [Next]_vars PROVE LinksInv'
  OBVIOUS
<1>1. CASE UNCHANGED <<store, saved>>
  BY <1>1 DEF LinksInv, store
<1>2. CASE Save
  BY <1>2 DEF Save, Finish, ExtractFails, ExecutionFails, Fails, Commit, LinksInv, store
<1>3. CASE Extract
  BY <1>3 DEF Extract, LinksInv, ConflictsKeptIn, NewestIn
<1>4. CASE Write
  <2>1. /\ UNCHANGED <<batch, edges, saved>> /\ edges = {}
        /\ \A r \in DOMAIN state' : state'[r] = "ACTIVE"
    BY <1>4 DEF Write, MemoryType, PositionOK, Records
  <2> QED
    BY <2>1 DEF LinksInv, ConflictsKeptIn, NewestIn
<1>5. CASE Link
  BY <1>5, LinkLinks
<1>6. CASE Evict \/ EvictForCoverage
  BY <1>6, EvictLinks
<1>7. CASE Crash
  BY <1>7 DEF Crash, LinksInv
<1>8. Turn \/ Narrow \/ UNCHANGED vars => UNCHANGED <<store, saved>>
  BY DEF Turn, Begin, Ask, Written, Linked, Ingested, ShowAll, Idle, Narrow, vars, store
<1>9. ASSUME NEW evidence, Answer(evidence) PROVE UNCHANGED <<store, saved>>
  BY <1>9 DEF Answer, store
<1>10. Retrieve \/ Choose => UNCHANGED <<store, saved>>
  BY <1>9 DEF Retrieve, Choose
<1> QED
  BY <1>1, <1>2, <1>3, <1>4, <1>5, <1>6, <1>7, <1>8, <1>10 DEF Next, Save, Turn

\* A fact in a conflict disappears only when an UPDATE replaced it.
THEOREM ConflictsSurvive == Spec => []ConflictsAreKept
<1>1. Spec => [](MemoryType /\ LinksInv)
  BY InitType, NextType, InitLinks, NextLinks, PTL DEF Spec
<1>2. LinksInv => ConflictsAreKept
  BY DEF LinksInv, ConflictsKeptIn, ConflictsAreKept
<1> QED
  BY <1>1, <1>2, PTL

\* When the writer's links point from newer to older candidates and none were
\* merged, what is superseded has a later record that replaced it.
THEOREM NewestSurvives == Spec => []NewestIsKept
<1>1. Spec => [](MemoryType /\ LinksInv)
  BY InitType, NextType, InitLinks, NextLinks, PTL DEF Spec
<1>2. LinksInv => NewestIsKept
  BY DEF LinksInv, NewestIn, NewestIsKept, PointsBack, Records
<1> QED
  BY <1>1, <1>2, PTL

-----------------------------------------------------------------------------
GoneIn(s) == {r \in DOMAIN s : s[r] = "EVICTED"}
AvailableIn(s) == {r \in DOMAIN s : s[r] \notin {"SUPERSEDED", "EVICTED"}}
ProtectedIn(s) == {r \in AvailableIn(s) : s[r] = "CONFLICTED"}
RetentionIn(b, es, r) ==
  Weight[b.facts[r]]
    + (IF \E e \in es : e.from = r /\ e.type = "CONTEXTUAL_OVERRIDE" THEN 40 ELSE 0)

\* No record that was evicted weighs more than a free one that was kept.
FairIn(b, s, es) ==
  \A r \in GoneIn(s), q \in AvailableIn(s) \ ProtectedIn(s) :
    RetentionIn(b, es, r) <= RetentionIn(b, es, q)

SettledIn(b, s, es) ==
  \/ /\ GoneIn(s) = {}
     /\ \/ Cardinality(AvailableIn(s)) <= setting.capacity
        \/ Cardinality(ProtectedIn(s)) > setting.capacity
  \/ Cardinality(AvailableIn(s)) = setting.capacity /\ FairIn(b, s, es)

\* Nothing is evicted before the memory is limited; while it is, what was evicted
\* had to be, in the right order; afterwards, and in the database, it is settled.
RetentionInv ==
  /\ pc = "extract" => Records = {}
  /\ pc \in {"write", "link"} => GoneIn(state) = {}
  /\ pc = "limit" =>
       \/ GoneIn(state) = {}
       \/ /\ Cardinality(ProtectedIn(state)) <= setting.capacity
          /\ Cardinality(AvailableIn(state)) >= setting.capacity
          /\ FairIn(batch, state, edges)
  /\ pc \notin {"write", "link", "limit"} => SettledIn(batch, state, edges)
  /\ SettledIn(saved.batch, saved.state, saved.edges)

\* An empty memory is settled.
LEMMA EmptySettled ==
  ASSUME NEW b, NEW s, NEW es, DOMAIN s = {}, setting \in Settings
  PROVE  SettledIn(b, s, es)
<1>1. GoneIn(s) = {} /\ AvailableIn(s) = {}
  BY DEF GoneIn, AvailableIn
<1>2. Cardinality(AvailableIn(s)) <= setting.capacity
  BY <1>1, FS_EmptySet, CapacityIsPositive
<1> QED
  BY <1>1, <1>2 DEF SettledIn

\* Nothing is evicted in the initial states.
LEMMA InitRetention == Init => RetentionInv
<1> SUFFICES ASSUME Init PROVE RetentionInv
  OBVIOUS
<1>1. DOMAIN state = {} /\ DOMAIN saved.state = {} /\ setting \in Settings
  BY DEF Init, Empty
<1> QED
  BY <1>1, EmptySettled DEF Init, RetentionInv

\* The sets of the model, their sizes and the weights of the records.
LEMMA Sizes ==
  ASSUME MemoryType
  PROVE  /\ Available = AvailableIn(state) /\ Protected = ProtectedIn(state)
         /\ IsFiniteSet(Available) /\ Cardinality(Available) \in Nat
         /\ Cardinality(Protected) \in Nat /\ setting.capacity \in Nat
         /\ \A r \in Records : Retention(r) = RetentionIn(batch, edges, r) /\ Retention(r) \in Nat
<1>1. Available = AvailableIn(state) /\ Protected = ProtectedIn(state)
  BY DEF Available, AvailableIn, Protected, ProtectedIn, Records
<1>2. /\ Len(home) \in Nat /\ Records \subseteq 1..Len(home) /\ Len(home) <= Len(batch.facts)
      /\ batch \in Batches \cup {Empty.batch} /\ setting \in Settings
  BY DEF MemoryType, TypeOK
<1>3. IsFiniteSet(Available) /\ IsFiniteSet(Protected)
  <2>1. IsFiniteSet(1..Len(home))
    BY <1>2, FS_Interval
  <2>2. Available \in SUBSET (1..Len(home)) /\ Protected \in SUBSET (1..Len(home))
    BY <1>2 DEF Available, Protected
  <2> QED
    BY <2>1, <2>2, FS_Subset
<1>4. ASSUME NEW r \in Records PROVE Retention(r) = RetentionIn(batch, edges, r) /\ Retention(r) \in Nat
  <2>1. r \in DOMAIN batch.facts
    BY <1>2, OutputType
  <2>2. batch \in Batches
    BY <1>2, <2>1 DEF Empty
  <2>3. Weight[batch.facts[r]] \in Nat
    BY <2>1, <2>2, BatchesAreWellFormed, WeightAssumption
  <2> QED
    BY <2>3 DEF Retention, RetentionIn, Overrides
<1> QED
  BY <1>1, <1>2, <1>3, <1>4, FS_CardinalityType, CapacityIsPositive

\* One record is evicted: it was of least weight, and the limit is not undercut.
LEMMA EvictRetention == MemoryType /\ RetentionInv /\ Evict => RetentionInv'
<1> SUFFICES ASSUME MemoryType, RetentionInv, Evict PROVE RetentionInv'
  OBVIOUS
<1>1. PICK r \in Available \ Protected :
        /\ \A q \in Available \ Protected : q = r \/ EvictedBefore(r, q)
        /\ state' = [state EXCEPT ![r] = "EVICTED"]
  BY DEF Evict
<1>2. /\ UNCHANGED <<setting, pc, batch, edges, saved>> /\ pc = "limit"
      /\ Cardinality(Protected) <= setting.capacity /\ Cardinality(Available) > setting.capacity
  BY DEF Evict, OverCapacity
<1>3. /\ AvailableIn(state') = Available \ {r} /\ ProtectedIn(state') = Protected
      /\ GoneIn(state') = GoneIn(state) \cup {r}
  BY <1>1 DEF MemoryType, TypeOK, AvailableIn, ProtectedIn, GoneIn, Available, Protected, Records
<1>4. Cardinality(AvailableIn(state')) >= setting.capacity
  <2>1. Cardinality(Available \ {r}) = Cardinality(Available) - 1
    BY <1>1, Sizes, FS_RemoveElement
  <2> QED
    BY <1>2, <1>3, <2>1, Sizes
<1>5. ASSUME NEW q \in Available \ Protected, q # r
      PROVE  RetentionIn(batch, edges, r) <= RetentionIn(batch, edges, q)
  <2>1. EvictedBefore(r, q) /\ q \in Records /\ r \in Records
    BY <1>1, <1>5 DEF Available
  <2> QED
    BY <2>1, Sizes DEF EvictedBefore
<1>6. FairIn(batch, state', edges)
  <2>1. GoneIn(state) = {} \/ FairIn(batch, state, edges)
    BY <1>2 DEF RetentionInv
  <2> QED
    BY <1>3, <1>5, <2>1, Sizes DEF FairIn
<1>7. Cardinality(ProtectedIn(state')) <= setting.capacity
  BY <1>2, <1>3
<1> QED
  BY <1>2, <1>4, <1>6, <1>7 DEF RetentionInv, SettledIn, FairIn

\* Whole tiers are evicted at once, down to the limit.
LEMMA CoverageRetention == MemoryType /\ RetentionInv /\ EvictForCoverage => RetentionInv'
<1> SUFFICES ASSUME MemoryType, RetentionInv, EvictForCoverage PROVE RetentionInv'
  OBVIOUS
<1>1. PICK keep \in SUBSET Available :
        /\ Protected \subseteq keep /\ Cardinality(keep) = setting.capacity
        /\ \A r \in Available \ keep, q \in keep \ Protected : Retention(r) <= Retention(q)
        /\ state' = [r \in Records |-> IF r \in Available \ keep THEN "EVICTED" ELSE state[r]]
  BY DEF EvictForCoverage
<1>2. /\ UNCHANGED <<setting, pc, batch, edges, saved>> /\ pc = "limit"
      /\ Cardinality(Protected) <= setting.capacity
  BY DEF EvictForCoverage, OverCapacity
<1>3. /\ AvailableIn(state') = keep /\ ProtectedIn(state') = Protected
      /\ GoneIn(state') = GoneIn(state) \cup (Available \ keep)
  BY <1>1 DEF AvailableIn, ProtectedIn, GoneIn, Available, Protected, Records
<1>4. FairIn(batch, state', edges)
  <2>1. GoneIn(state) = {} \/ FairIn(batch, state, edges)
    BY <1>2 DEF RetentionInv
  <2>2. \A r \in Available \ keep, q \in keep \ Protected :
          RetentionIn(batch, edges, r) <= RetentionIn(batch, edges, q)
    BY <1>1, Sizes DEF Available
  <2> QED
    BY <1>1, <1>3, <2>1, <2>2, Sizes DEF FairIn
<1>5. Cardinality(AvailableIn(state')) >= setting.capacity
  BY <1>1, <1>3, Sizes
<1> QED
  BY <1>2, <1>3, <1>4, <1>5 DEF RetentionInv, SettledIn, FairIn

\* Every step keeps what RetentionInv says of the evictions.
LEMMA NextRetention == MemoryType /\ RetentionInv /\ [Next]_vars => RetentionInv'
<1> SUFFICES ASSUME MemoryType, RetentionInv, [Next]_vars PROVE RetentionInv'
  OBVIOUS
<1>1. setting' = setting /\ setting \in Settings
  BY SettingIsFrozen DEF MemoryType, TypeOK
<1> USE DEF RetentionInv, Records
<1>2. CASE Begin \/ (\E t \in Tests : Ask(t)) \/ Written \/ Linked \/ ShowAll \/ Idle \/ Narrow
  <2>1. UNCHANGED <<setting, store, saved>>
    BY <1>2 DEF Begin, Ask, Written, Linked, ShowAll, Idle, Narrow, vars, store
  <2>2. \/ pc \notin {"write", "link", "limit"} /\ pc' \notin {"write", "link", "limit"}
           /\ (pc' = "extract" => Records = {} \/ pc = "extract")
        \/ pc = "write" /\ pc' = "link"
        \/ pc = "link" /\ pc' = "limit"
        \/ pc' = pc
    BY <1>2 DEF Begin, Ask, NextStage, Written, Linked, ShowAll, Idle, Narrow, vars
  <2> QED
    BY <2>1, <2>2 DEF store, SettledIn, FairIn
<1>3. CASE Save
  <2>1. /\ UNCHANGED <<setting, store>> /\ pc' = "idle" /\ pc \notin {"write", "link", "limit"}
        /\ saved'.batch = batch /\ saved'.state = state /\ saved'.edges = edges
    BY <1>3 DEF Save, Finish, ExtractFails, ExecutionFails, Fails, Commit, store
  <2> QED
    BY <2>1 DEF store, SettledIn, FairIn
<1>4. CASE Extract
  <2>1. pc' = "write" /\ UNCHANGED <<setting, saved>> /\ GoneIn(state') = {}
    BY <1>4 DEF Extract, GoneIn
  <2> QED
    BY <2>1 DEF SettledIn, FairIn
<1>5. CASE Write
  <2>1. /\ pc = "write" /\ UNCHANGED <<setting, pc, saved>>
        /\ \A r \in DOMAIN state' : state'[r] = "ACTIVE"
    BY <1>5 DEF Write, MemoryType, PositionOK
  <2>2. GoneIn(state') = {}
    BY <2>1 DEF GoneIn
  <2> QED
    BY <2>1, <2>2 DEF SettledIn, FairIn
<1>6. CASE Link
  <2> DEFINE l == batch.links[cursor]  r == home[l.from]  q == home[l.to]
  <2>1. /\ pc = "link" /\ UNCHANGED <<setting, pc, saved>>
        /\ state' = state \/ state' = Reconciled(l.type, r, q)
    BY <1>6 DEF Link
  <2> HIDE DEF l, r, q
  <2>2. \A x \in DOMAIN state' : x \in DOMAIN state /\ (state'[x] = "EVICTED" => state[x] = "EVICTED")
    BY <2>1 DEF Reconciled, MemoryType, TypeOK
  <2>3. GoneIn(state') = {}
    BY <2>1, <2>2 DEF GoneIn
  <2> QED
    BY <2>1, <2>3 DEF SettledIn, FairIn
<1>7. CASE Evict
  BY <1>7, EvictRetention
<1>8. CASE EvictForCoverage
  BY <1>8, CoverageRetention
<1>9. CASE Ingested
  <2>1. /\ pc = "limit" /\ ~OverCapacity /\ pc' \in {"ready", "retrieve"}
        /\ UNCHANGED <<setting, store, saved>>
    BY <1>9 DEF Ingested
  <2>2. SettledIn(batch, state, edges)
    BY <2>1, Sizes DEF OverCapacity, SettledIn
  <2> QED
    BY <2>1, <2>2 DEF store, SettledIn, FairIn
<1>10. ASSUME NEW evidence, Answer(evidence), pc \in {"retrieve", "narrow"} PROVE RetentionInv'
  BY <1>10 DEF Answer, store, SettledIn, FairIn
<1>11. CASE Retrieve \/ Choose
  BY <1>10, <1>11 DEF Retrieve, Choose
<1>12. CASE Crash
  BY <1>1, <1>12 DEF Crash, SettledIn, FairIn
<1>13. CASE UNCHANGED vars
  BY <1>13 DEF vars, store, SettledIn, FairIn
<1> QED
  BY <1>2, <1>3, <1>4, <1>5, <1>6, <1>7, <1>8, <1>9, <1>11, <1>12, <1>13 DEF Next, Save

\* Whenever a question is served, the memory is within its capacity, or unresolved
\* conflicts alone exceed it; nothing was evicted without need or out of order.
THEOREM CapacityIsHeld == Spec => []CapacityHeld
<1>1. Spec => [](MemoryType /\ RetentionInv)
  BY InitType, NextType, InitRetention, NextRetention, PTL DEF Spec
<1>2. MemoryType /\ RetentionInv => CapacityHeld
  <2> SUFFICES ASSUME MemoryType, RetentionInv, Ready PROVE CapacityHeld
    BY DEF CapacityHeld
  <2>1. SettledIn(batch, state, edges)
    BY DEF Ready, RetentionInv
  <2>2. GoneIn(state) = {r \in Records : state[r] = "EVICTED"} /\ GoneIn(state) \subseteq Records
    BY DEF GoneIn, Records
  <2>3. \A r \in GoneIn(state), q \in Available \ Protected : FairIn(batch, state, edges) =>
          Retention(r) <= Retention(q)
    BY <2>2, Sizes DEF FairIn, Available
  <2> QED
    BY <2>1, <2>2, <2>3, Sizes DEF SettledIn, CapacityHeld
<1> QED
  BY <1>1, <1>2, PTL

-----------------------------------------------------------------------------
(* Folds over a finite set.  c[s] is the element a fold takes out of s last;  *)
(* the rest of s is smaller, so what holds of every set whose rest it holds of *)
(* holds of all.                                                              *)

\* Some set of a nonempty set of subsets of S contains no other of them.
LEMMA Smallest ==
  ASSUME NEW S, IsFiniteSet(S), NEW T, T \subseteq SUBSET S, T # {}
  PROVE  \E s \in T : \A r \in T : r \subseteq s => r = s
<1>1. IsWellFoundedOn(StrictSubsetOrdering(S), SUBSET S)
  BY FS_StrictSubsetOrderingWellFounded, FS_FiniteSubsetsOfFinite
<1>2. PICK s \in T : \A r \in T : ~(<<r, s>> \in StrictSubsetOrdering(S))
  BY <1>1, WFMin
<1> QED BY <1>2 DEF StrictSubsetOrdering

\* Induction over the subsets of a finite set.
LEMMA ByTheRest ==
  ASSUME NEW S, IsFiniteSet(S), NEW c, \A s \in SUBSET S : s # {} => c[s] \in s,
         NEW G, {} \in G,
         \A s \in SUBSET S : s # {} /\ s \ {c[s]} \in G => s \in G
  PROVE  \A s \in SUBSET S : s \in G
<1> DEFINE T == {s \in SUBSET S : s \notin G}
<1> SUFFICES ASSUME T # {} PROVE FALSE
  OBVIOUS
<1>1. T \subseteq SUBSET S
  OBVIOUS
<1> HIDE DEF T
<1>2. PICK s \in T : \A r \in T : r \subseteq s => r = s
  BY <1>1, Smallest
<1> USE DEF T
<1>3. s # {} /\ s \in SUBSET S /\ c[s] \in s
  BY <1>2
<1>4. s \ {c[s]} \in G
  BY <1>2, <1>3
<1> QED BY <1>2, <1>3, <1>4

\* g[s] folds the step h over s, from base.
Folds(h, c, base, g, S) ==
  g = [s \in SUBSET S |-> IF s = {} THEN base ELSE h[<<c[s], g[s \ {c[s]}]>>]]

FoldBelow(h, c, base, S) == CHOOSE g : Folds(h, c, base, g, S)

\* A fold over the subsets of a set does not depend on the set.
LEMMA FoldsUnique ==
  ASSUME NEW h, NEW c, NEW base, NEW f, NEW g, NEW S, IsFiniteSet(S), NEW R,
         \A s \in SUBSET S : s # {} => c[s] \in s,
         Folds(h, c, base, f, S), Folds(h, c, base, g, R)
  PROVE  \A s \in SUBSET (S \cap R) : f[s] = g[s]
<1> DEFINE G == {s \in SUBSET S : s \in SUBSET R => f[s] = g[s]}
<1>1. {} \in G
  BY DEF Folds
<1>2. \A s \in SUBSET S : s # {} /\ s \ {c[s]} \in G => s \in G
  <2> TAKE s \in SUBSET S
  <2> HAVE s # {} /\ s \ {c[s]} \in G
  <2>1. f[s] = h[<<c[s], f[s \ {c[s]}]>>]
    BY DEF Folds
  <2>2. s \in SUBSET R => g[s] = h[<<c[s], g[s \ {c[s]}]>>]
    BY DEF Folds
  <2> QED BY <2>1, <2>2
<1> HIDE DEF G
<1>3. \A s \in SUBSET S : s \in G
  <2>1. IsFiniteSet(S) /\ \A s \in SUBSET S : s # {} => c[s] \in s
    OBVIOUS
  <2> QED BY ONLY <2>1, <1>1, <1>2, ByTheRest
<1> QED BY <1>3 DEF G

\* The recursive definition of a fold has a solution.
LEMMA FoldsExist ==
  ASSUME NEW h, NEW c, NEW base, NEW S, IsFiniteSet(S),
         \A s \in SUBSET S : s # {} => c[s] \in s
  PROVE  \E g : Folds(h, c, base, g, S)
<1> DEFINE At(w) == FoldBelow(h, c, base, w)
           T == {s \in SUBSET S : ~\E g : Folds(h, c, base, g, s)}
<1> SUFFICES ASSUME T # {} PROVE FALSE
  OBVIOUS
<1>1. T \subseteq SUBSET S
  OBVIOUS
<1> HIDE DEF T
<1>2. PICK U \in T : \A r \in T : r \subseteq U => r = U
  BY <1>1, Smallest
<1> USE DEF T
<1>3. \A w \in SUBSET U : IsFiniteSet(w) /\ (w # U => Folds(h, c, base, At(w), w))
  BY <1>2, FS_Subset DEF FoldBelow
<1> HIDE DEF At
<1>4. \A w \in SUBSET U : \A v \in SUBSET w : w # U => At(w)[v] = At(v)[v]
  <2> TAKE w \in SUBSET U
  <2> TAKE v \in SUBSET w
  <2> HAVE w # U
  <2>1. /\ Folds(h, c, base, At(w), w) /\ IsFiniteSet(w)
        /\ Folds(h, c, base, At(v), v) /\ v \in SUBSET (w \cap v)
        /\ \A s \in SUBSET w : s # {} => c[s] \in s
    BY <1>3
  <2> QED BY <2>1, FoldsUnique
<1> DEFINE f == [s \in SUBSET U |-> IF s = {} THEN base
                   ELSE h[<<c[s], At(s \ {c[s]})[s \ {c[s]}]>>]]
<1>5. \A w \in SUBSET U : w # U => f[w] = At(w)[w]
  <2> TAKE w \in SUBSET U
  <2> HAVE w # U
  <2>1. At(w)[w] = (IF w = {} THEN base ELSE h[<<c[w], At(w)[w \ {c[w]}]>>])
    BY <1>3 DEF Folds
  <2>2. w # {} => At(w)[w \ {c[w]}] = At(w \ {c[w]})[w \ {c[w]}]
    BY <1>4, w \ {c[w]} \in SUBSET w
  <2> QED BY <2>1, <2>2
<1>6. \A s \in SUBSET U : s # {} => f[s \ {c[s]}] = At(s \ {c[s]})[s \ {c[s]}]
  BY <1>2, <1>5
<1>7. Folds(h, c, base, f, U)
  BY <1>6 DEF Folds
<1> QED BY <1>2, <1>7


\* What the step of a fold keeps, the fold has.
LEMMA FoldKeeps ==
  ASSUME NEW S, IsFiniteSet(S), NEW c, \A s \in SUBSET S : s # {} => c[s] \in s,
         NEW P, NEW h \in [S \X P -> P], NEW base \in P
  PROVE  \E g : Folds(h, c, base, g, S) /\ \A s \in SUBSET S : g[s] \in P
<1>1. PICK g : Folds(h, c, base, g, S)
  BY FoldsExist
<1> DEFINE G == {s \in SUBSET S : g[s] \in P}
<1>2. {} \in G
  BY <1>1 DEF Folds
<1>3. \A s \in SUBSET S : s # {} /\ s \ {c[s]} \in G => s \in G
  BY <1>1 DEF Folds
<1> HIDE DEF G
<1>4. \A s \in SUBSET S : s \in G
  BY <1>2, <1>3, ByTheRest
<1> QED BY <1>1, <1>4 DEF G

-----------------------------------------------------------------------------
(* The order of the candidates.                                               *)

\* There are finitely many records.
LEMMA RecordsAreFinite == MemoryType => IsFiniteSet(Records)
<1> SUFFICES ASSUME MemoryType PROVE IsFiniteSet(Records)
  OBVIOUS
<1>1. Len(home) \in Nat /\ Records \in SUBSET (1..Len(home))
  BY DEF MemoryType, TypeOK
<1>2. IsFiniteSet(1..Len(home))
  BY <1>1, FS_Interval
<1> QED BY <1>1, <1>2, FS_Subset

\* The keys of a record are four numbers, the last of them its own.
LEMMA KeyType ==
  ASSUME MemoryType, NEW r \in Records
  PROVE  Keys(r) \in Int \X Int \X Int \X Int /\ Keys(r)[4] = r
<1>1. /\ Len(home) \in Nat /\ Records \subseteq 1..Len(home) /\ Len(home) <= Len(batch.facts)
      /\ batch \in Batches \cup {Empty.batch}
  BY DEF MemoryType, TypeOK
<1>2. r \in DOMAIN batch.facts /\ r \in Int
  BY <1>1, OutputType
<1>3. batch \in Batches
  BY <1>1, <1>2 DEF Empty
<1>4. Time[batch.facts[r]] \in Int
  BY <1>2, <1>3, BatchesAreWellFormed, TimeAssumption
<1>5. Policy(r) \in Int
  <2> DEFINE S == {IF state[r] = "SUPERSEDED" THEN 0 ELSE 20}
                  \cup {s \in {40} : Linking(r, "UPDATE") /\ setting.aware}
                  \cup {s \in {60} : Linking(r, "CONTEXTUAL_OVERRIDE")}
                  \cup {s \in {30} : Linking(r, "CONFLICT") \/ state[r] = "CONFLICTED"}
  <2>1. S \subseteq {0, 20, 30, 40, 60} /\ S # {}
    OBVIOUS
  <2>2. Policy(r) = Highest(S)
    BY DEF Policy
  <2> HIDE DEF S
  <2>3. \E x \in S : \A y \in S : y <= x
    <3>1. CASE 60 \in S
      BY <2>1, <3>1
    <3>2. CASE 60 \notin S /\ 40 \in S
      BY <2>1, <3>2
    <3>3. CASE 60 \notin S /\ 40 \notin S /\ 30 \in S
      BY <2>1, <3>3
    <3>4. CASE 60 \notin S /\ 40 \notin S /\ 30 \notin S /\ 20 \in S
      BY <2>1, <3>4
    <3>5. CASE S = {0}
      BY <3>5
    <3>6. S = {0} \/ 60 \in S \/ 40 \in S \/ 30 \in S \/ 20 \in S
      BY <2>1
    <3> QED BY <3>1, <3>2, <3>3, <3>4, <3>5, <3>6
  <2>4. Highest(S) \in S
    BY <2>3 DEF Highest
  <2>5. Policy(r) \in {0, 20, 30, 40, 60}
    BY <2>1, <2>2, <2>4
  <2> QED BY <2>5
<1> QED BY <1>2, <1>4, <1>5 DEF Keys

\* Of a nonempty set, some element comes first in a total order.
LEMMA FirstExists ==
  ASSUME NEW S, IsFiniteSet(S), NEW L,
         \A r, q \in S : r = q \/ <<r, q>> \in L \/ <<q, r>> \in L,
         \A r, q, p \in S : <<r, q>> \in L /\ <<q, p>> \in L => <<r, p>> \in L
  PROVE  \A s \in SUBSET S : s # {} => \E r \in s : \A q \in s : q = r \/ <<r, q>> \in L
<1> DEFINE T == {s \in SUBSET S : s # {} /\ ~\E r \in s : \A q \in s : q = r \/ <<r, q>> \in L}
<1> SUFFICES ASSUME T # {} PROVE FALSE
  OBVIOUS
<1>1. T \subseteq SUBSET S
  OBVIOUS
<1> HIDE DEF T
<1>2. PICK s \in T : \A r \in T : r \subseteq s => r = s
  BY <1>1, Smallest
<1>3. PICK x \in s : s \in SUBSET S
  BY <1>2 DEF T
<1>4. s \ {x} \notin T
  BY <1>2, <1>3
<1>5. s # {x}
  BY <1>2 DEF T
<1>6. PICK m \in s \ {x} : \A q \in s \ {x} : q = m \/ <<m, q>> \in L
  BY <1>3, <1>4, <1>5 DEF T
<1>7. CASE <<m, x>> \in L
  BY <1>2, <1>6, <1>7 DEF T
<1>8. CASE <<x, m>> \in L
  <2>1. \A q \in s : q = x \/ <<x, q>> \in L
    BY <1>3, <1>6, <1>8
  <2> QED BY <1>2, <1>3, <2>1 DEF T
<1> QED BY <1>3, <1>6, <1>7, <1>8

\* Of a nonempty set of candidates one is lower than all others.
LEMMA LowestIsIn ==
  ASSUME MemoryType, NEW S \in SUBSET Records, S # {}
  PROVE  Lowest(S) \in S
<1> DEFINE Under(r, q) == \/ Keys(r)[1] < Keys(q)[1]
                          \/ /\ Keys(r)[1] = Keys(q)[1]
                             /\ \/ Keys(r)[2] < Keys(q)[2]
                                \/ /\ Keys(r)[2] = Keys(q)[2]
                                   /\ \/ Keys(r)[3] < Keys(q)[3]
                                      \/ Keys(r)[3] = Keys(q)[3] /\ Keys(r)[4] < Keys(q)[4]
           L == {p \in Records \X Records : Under(p[1], p[2])}
<1>1. \A r, q \in Records : Under(r, q) => Lower(r, q)
  BY KeyType DEF Lower
<1>2. \A r, q \in Records : r = q \/ Under(r, q) \/ Under(q, r)
  BY KeyType
<1>3. \A r, q, p \in Records : Under(r, q) /\ Under(q, p) => Under(r, p)
  BY KeyType
<1> HIDE DEF Under
<1>4. \A r, q \in Records : <<r, q>> \in L <=> Under(r, q)
  OBVIOUS
<1> HIDE DEF L
<1>5. \E r \in S : \A q \in S : q = r \/ <<r, q>> \in L
  BY <1>2, <1>3, <1>4, FirstExists, RecordsAreFinite
<1>6. \E r \in S : \A q \in S : q = r \/ Lower(r, q)
  BY <1>1, <1>4, <1>5
<1> QED BY <1>6 DEF Lowest

\* The greatest of some positions is one of them.
LEMMA MaxIsIn ==
  ASSUME NEW N, N \subseteq Int, IsFiniteSet(N), NEW s \in SUBSET N, s # {}
  PROVE  Max(s) \in s
<1> DEFINE L == {p \in N \X N : p[2] < p[1]}
<1>1. \A r, q \in N : r = q \/ q < r \/ r < q
  OBVIOUS
<1>2. \A r, q \in N : <<r, q>> \in L <=> q < r
  OBVIOUS
<1>3. \A r, q, p \in N : <<r, q>> \in L /\ <<q, p>> \in L => <<r, p>> \in L
  OBVIOUS
<1> HIDE DEF L
<1>4. \A r, q \in N : r = q \/ <<r, q>> \in L \/ <<q, r>> \in L
  BY <1>1, <1>2, Zenon
<1>5. PICK r \in s : \A q \in s : q = r \/ <<r, q>> \in L
  <2>1. IsFiniteSet(N) /\ s \in SUBSET N /\ s # {}
    OBVIOUS
  <2> QED BY ONLY <2>1, <1>3, <1>4, FirstExists
<1>6. \A q \in s : q = r \/ q < r
  BY <1>2, <1>5
<1>7. \A q \in s : r >= q
  BY <1>6
<1>8. \E x \in s : \A y \in s : x >= y
  BY <1>7
<1> QED BY <1>8 DEF Max

-----------------------------------------------------------------------------
(* What a context may hold: conflicts that compete for it, whole.             *)
WholeSets ==
  {C \in SUBSET Candidates :
     \A r, q \in Candidates : Opposed(r, q) => (r \in C <=> q \in C)}

\* Only records compete.
LEMMA CandidatesAreRecords == Candidates \in SUBSET Records
<1>1. Eligible \subseteq Records /\ Relevant \subseteq Eligible /\ Neighbours \subseteq Eligible
  BY DEF Eligible, Relevant, Neighbours
<1>2. \/ Candidates = {} \/ Candidates = Eligible \/ Candidates = Relevant \cup Neighbours
      \/ Candidates = {r \in Relevant : \A q \in Relevant : r <= q} \/ Candidates = Relevant
  BY DEF Candidates
<1> QED BY <1>1, <1>2

\* The group of a record holds its conflicts whole, however long the chain.
LEMMA GroupIsWhole == ASSUME Grouping, NEW r PROVE GroupOf(r) \in WholeSets
<1>1. \A a, b : Opposed(a, b) <=> Opposed(b, a)
  BY DEF Opposed
<1> DEFINE Closed(G) == r \in G /\ \A a \in G, b \in Candidates : Grouping /\ Opposed(a, b) => b \in G
<1>2. ASSUME NEW a \in GroupOf(r), NEW b \in Candidates, Opposed(a, b) PROVE b \in GroupOf(r)
  <2>1. \A G \in SUBSET Candidates : Closed(G) => a \in G
    BY <1>2 DEF GroupOf
  <2>2. \A G \in SUBSET Candidates : Closed(G) => b \in G
    BY <1>2, <2>1
  <2> QED BY <1>2, <2>2 DEF GroupOf
<1>3. GroupOf(r) \in SUBSET Candidates
  BY DEF GroupOf
<1> QED BY <1>1, <1>2, <1>3 DEF WholeSets

\* The context that the groups are put into, one after the other, is whole.
LEMMA ProfiledIsWhole == MemoryType /\ Grouping => Profiled \in WholeSets
<1> SUFFICES ASSUME MemoryType, Grouping PROVE Profiled \in WholeSets
  OBVIOUS
<1> DEFINE S == Candidates
           c == [s \in SUBSET S |-> LastInTurn(s)]
           h == [p \in S \X WholeSets |-> Consider(p[1], p[2])]
           Turns(i) == i = [s \in SUBSET S |->
             IF s = {} THEN {} ELSE Consider(LastInTurn(s), i[s \ {LastInTurn(s)}])]
           turns == CHOOSE i : Turns(i)
<1>1. Profiled = turns[S]
  BY DEF Profiled, MapThenFoldSet
<1>2. IsFiniteSet(S)
  BY CandidatesAreRecords, RecordsAreFinite, FS_Subset
<1>3. \A s \in SUBSET S : s # {} => LastInTurn(s) \in s
  BY LowestIsIn, CandidatesAreRecords DEF LastInTurn
<1>4. \A r \in S, C \in WholeSets : Consider(r, C) \in WholeSets
  BY GroupIsWhole DEF Consider, WholeSets
<1>5. {} \in WholeSets
  BY DEF WholeSets
<1>6. \E g : Turns(g)
  <2>1. h \in [S \X WholeSets -> WholeSets]
    BY <1>4
  <2>2. \A s \in SUBSET S : s # {} => c[s] \in s
    BY <1>3
  <2> HIDE DEF h, c
  <2>3. PICK g : Folds(h, c, {}, g, S) /\ \A s \in SUBSET S : g[s] \in WholeSets
    BY <1>2, <1>5, <2>1, <2>2, FoldKeeps
  <2>4. \A s \in SUBSET S : s # {} =>
          h[<<c[s], g[s \ {c[s]}]>>] = Consider(LastInTurn(s), g[s \ {LastInTurn(s)}])
    <3> TAKE s \in SUBSET S
    <3> HAVE s # {}
    <3>1. c[s] = LastInTurn(s) /\ LastInTurn(s) \in S /\ g[s \ {c[s]}] \in WholeSets
      BY <1>3, <2>3 DEF c
    <3> QED BY <3>1 DEF h
  <2>5. g = [s \in SUBSET S |-> IF s = {} THEN {} ELSE h[<<c[s], g[s \ {c[s]}]>>]]
    BY <2>3 DEF Folds
  <2>6. Turns(g)
    BY <2>4, <2>5
  <2> QED BY <2>6
<1>7. Turns(turns)
  BY <1>6
<1> HIDE DEF turns
<1> DEFINE G == {s \in SUBSET S : turns[s] \in WholeSets}
<1>8. {} \in G
  BY <1>5, <1>7
<1>9. \A s \in SUBSET S : s # {} /\ s \ {c[s]} \in G => s \in G
  <2> TAKE s \in SUBSET S
  <2> HAVE s # {} /\ s \ {c[s]} \in G
  <2>1. turns[s] = Consider(LastInTurn(s), turns[s \ {LastInTurn(s)}])
    BY <1>7
  <2> QED BY <1>3, <1>4, <2>1
<1>10. \A s \in SUBSET S : s # {} => c[s] \in s
  BY <1>3
<1> HIDE DEF G, c
<1>11. \A s \in SUBSET S : s \in G
  BY <1>2, <1>8, <1>9, <1>10, ByTheRest
<1> QED BY <1>1, <1>11 DEF G

-----------------------------------------------------------------------------
(* Trimming a packet to its size.                                             *)
Conflicts == {e \in edges : e.type = "CONFLICT"}

\* A set of at most one element has no two.
LEMMA AtMostOne ==
  ASSUME NEW T, IsFiniteSet(T), Cardinality(T) <= 1, NEW x \in T, NEW y \in T
  PROVE  x = y
<1> SUFFICES ASSUME x # y PROVE FALSE
  OBVIOUS
<1>1. IsFiniteSet(T \ {x}) /\ Cardinality(T \ {x}) = Cardinality(T) - 1 /\ Cardinality(T) \in Nat
  BY FS_RemoveElement, FS_CardinalityType
<1>2. Cardinality(T \ {x}) \in Nat
  BY <1>1, FS_CardinalityType
<1>3. Cardinality(T \ {x}) = 0
  BY <1>1, <1>2
<1>4. T \ {x} = {}
  BY <1>1, <1>3, FS_EmptySet
<1> QED BY <1>4

\* The rows of the conflicts, in whatever order, are all of them.
LEMMA RowsAreConflicts ==
  ASSUME IsFiniteSet(edges), NEW rows \in SetToSeqs(Conflicts)
  PROVE  /\ Cardinality(Conflicts) \in Nat /\ DOMAIN rows = 1..Cardinality(Conflicts)
         /\ \A k \in DOMAIN rows : rows[k] \in Conflicts
         /\ \A e \in Conflicts : \E k \in DOMAIN rows : rows[k] = e
<1> DEFINE n == Cardinality(Conflicts)
<1>1. IsFiniteSet(Conflicts) /\ n \in Nat
  BY FS_Subset, FS_CardinalityType DEF Conflicts
<1>2. IsFiniteSet(1..n) /\ Cardinality(1..n) = n
  BY <1>1, FS_Interval
<1>3. rows \in Injection(1..n, Conflicts)
  <2>1. rows \in [1..n -> Conflicts] /\ \A i, j \in 1..n : i # j => rows[i] # rows[j]
    BY DEF SetToSeqs
  <2>2. DOMAIN rows = 1..n
    BY <2>1
  <2> QED BY <2>1, <2>2 DEF Injection, IsInjective
<1>4. rows \in Surjection(1..n, Conflicts)
  BY <1>1, <1>2, <1>3, FS_Injection
<1> QED BY <1>1, <1>4 DEF Surjection

\* When no record has two opponents, a record leaves a packet with its opponent,
\* in whatever order the rows come.
LEMMA DroppedIsWhole ==
  ASSUME MemoryType, LinksInv, IsFiniteSet(edges), Pairwise,
         NEW rows \in SetToSeqs(Conflicts), NEW r
  PROVE  \A a, b : Opposed(a, b) => (a \in Dropped(r, rows) <=> b \in Dropped(r, rows))
<1> SUFFICES ASSUME NEW S, S = DOMAIN rows
             PROVE  \A a, b : Opposed(a, b) => (a \in Dropped(r, rows) <=> b \in Dropped(r, rows))
  OBVIOUS
<1> DEFINE P == SUBSET ({r} \cup Records)
           Widen(gone, e) == IF gone \cap {e.from, e.to} # {} THEN gone \cup {e.from, e.to} ELSE gone
           c == [s \in SUBSET S |-> Max(s)]
           h == [p \in S \X P |-> Widen(p[2], rows[p[1]])]
           Turns(i) == i = [s \in SUBSET S |->
             IF s = {} THEN {r} ELSE Widen(i[s \ {Max(s)}], rows[Max(s)])]
           turns == CHOOSE i : Turns(i)
<1>1. Dropped(r, rows) = turns[S]
  BY DEF Dropped, FoldLeft, MapThenFoldSet
<1>2. /\ IsFiniteSet(S) /\ \A s \in SUBSET S : s # {} => Max(s) \in s
      /\ \A k \in S : rows[k] \in Conflicts
      /\ \A e \in Conflicts : \E k \in S : rows[k] = e
  <2>1. /\ Cardinality(Conflicts) \in Nat /\ S = 1..Cardinality(Conflicts)
        /\ \A k \in S : rows[k] \in Conflicts
        /\ \A e \in Conflicts : \E k \in S : rows[k] = e
    BY RowsAreConflicts
  <2>2. IsFiniteSet(S)
    BY <2>1, FS_Interval
  <2>3. ASSUME NEW s \in SUBSET S, s # {} PROVE Max(s) \in s
    BY <2>1, <2>2, <2>3, MaxIsIn
  <2> QED BY <2>1, <2>2, <2>3
<1>3. \A e \in Conflicts : e.from \in Records /\ e.to \in Records /\ Opposed(e.from, e.to)
  BY DEF Conflicts, LinksInv, ConflictsKeptIn, Records, Opposed
<1>4. \A k \in S, gone \in P : Widen(gone, rows[k]) \in P
  BY <1>2, <1>3
<1>5. \E g : Turns(g)
  <2>1. h \in [S \X P -> P] /\ {r} \in P
    BY <1>4
  <2>2. \A s \in SUBSET S : s # {} => c[s] \in s
    BY <1>2
  <2> HIDE DEF h, c, P
  <2>3. PICK g : Folds(h, c, {r}, g, S) /\ \A s \in SUBSET S : g[s] \in P
    <3>1. IsFiniteSet(S)
      BY <1>2
    <3> QED BY ONLY <3>1, <2>1, <2>2, FoldKeeps
  <2>4. \A s \in SUBSET S : s # {} =>
          h[<<c[s], g[s \ {c[s]}]>>] = Widen(g[s \ {Max(s)}], rows[Max(s)])
    <3> TAKE s \in SUBSET S
    <3> HAVE s # {}
    <3>1. c[s] = Max(s) /\ Max(s) \in S /\ g[s \ {c[s]}] \in P
      BY <1>2, <2>3 DEF c
    <3> QED BY <3>1 DEF h
  <2>5. g = [s \in SUBSET S |-> IF s = {} THEN {r} ELSE h[<<c[s], g[s \ {c[s]}]>>]]
    BY <2>3 DEF Folds
  <2>6. Turns(g)
    BY <2>4, <2>5
  <2> QED BY <2>6
<1>6. Turns(turns)
  BY <1>5
<1> HIDE DEF turns
<1>7. \A x, a, b : Opposed(x, a) /\ Opposed(x, b) => a = b
  <2> TAKE x, a, b
  <2> HAVE Opposed(x, a) /\ Opposed(x, b)
  <2>1. x \in Records /\ a \in Records /\ b \in Records
    BY <1>3 DEF Opposed, Conflicts
  <2>2. IsFiniteSet({q \in Records : Opposed(x, q)})
    BY RecordsAreFinite, FS_Subset
  <2>3. Cardinality({q \in Records : Opposed(x, q)}) <= 1
    BY <2>1 DEF Pairwise
  <2> QED BY <2>1, <2>2, <2>3, AtMostOne
<1>8. \A a, b : Opposed(a, b) <=> Opposed(b, a)
  BY DEF Opposed
<1> DEFINE G == {s \in SUBSET S :
             /\ r \in turns[s] /\ \A q \in turns[s] : q = r \/ Opposed(r, q)
             /\ \A k \in s : r \in {rows[k].from, rows[k].to} =>
                  rows[k].from \in turns[s] /\ rows[k].to \in turns[s]}
<1>9. {} \in G
  BY <1>6
<1>10. \A s \in SUBSET S : s # {} /\ s \ {c[s]} \in G => s \in G
  <2> TAKE s \in SUBSET S
  <2> HAVE s # {} /\ s \ {c[s]} \in G
  <2> DEFINE m == Max(s)  gone == turns[s \ {m}]  e == rows[m]
  <2>1. turns[s] = Widen(gone, e)
    BY <1>6
  <2>2. m \in s /\ c[s] = m /\ e \in Conflicts /\ Opposed(e.from, e.to)
    BY <1>2, <1>3
  <2>3. /\ r \in gone /\ \A q \in gone : q = r \/ Opposed(r, q)
        /\ \A k \in s \ {m} : r \in {rows[k].from, rows[k].to} =>
             rows[k].from \in gone /\ rows[k].to \in gone
    BY <2>2
  <2> HIDE DEF m, gone, e, c
  <2>4. CASE gone \cap {e.from, e.to} = {}
    <3>1. turns[s] = gone /\ r # e.from /\ r # e.to
      BY <2>1, <2>3, <2>4
    <3> QED BY <2>2, <2>3, <3>1 DEF e
  <2>5. CASE gone \cap {e.from, e.to} # {}
    <3>1. turns[s] = gone \cup {e.from, e.to}
      BY <2>1, <2>5
    <3>2. \A q \in {e.from, e.to} : q = r \/ Opposed(r, q)
      BY <1>7, <1>8, <2>2, <2>3, <2>5
    <3> QED BY <2>2, <2>3, <3>1, <3>2 DEF e
  <2> QED BY <2>4, <2>5
<1>11. \A s \in SUBSET S : s # {} => c[s] \in s
  BY <1>2
<1> HIDE DEF G, c
<1>12. S \in G
  BY <1>2, <1>9, <1>10, <1>11, ByTheRest
<1>13. \A q : Opposed(r, q) => q \in turns[S]
  <2> TAKE q
  <2> HAVE Opposed(r, q)
  <2>1. PICK e \in Conflicts : {e.from, e.to} = {r, q}
    BY DEF Opposed, Conflicts
  <2>2. PICK k \in S : rows[k] = e
    BY <1>2
  <2> QED BY <1>12, <2>1, <2>2 DEF G
<1>14. r \in turns[S] /\ \A q \in turns[S] : q = r \/ Opposed(r, q)
  BY <1>12 DEF G
<1> QED BY <1>1, <1>7, <1>8, <1>13, <1>14

\* Such a packet stays whole while it is trimmed.
LEMMA TrimmedIsWhole ==
  ASSUME MemoryType, LinksInv, IsFiniteSet(edges), Pairwise,
         NEW rows \in SetToSeqs(Conflicts), NEW given \in WholeSets
  PROVE  Trimmed(given, rows) \in WholeSets
<1> SUFFICES ASSUME NEW S, S = given PROVE Trimmed(given, rows) \in WholeSets
  OBVIOUS
<1> DEFINE Pick(s) == CHOOSE r \in s : TRUE
           Trim(left) == IF PacketFits(left) THEN left ELSE left \ Dropped(Lowest(left), rows)
           c == [s \in SUBSET S |-> Pick(s)]
           h == [p \in S \X WholeSets |-> Trim(p[2])]
           Turns(i) == i = [s \in SUBSET S |-> IF s = {} THEN given ELSE Trim(i[s \ {Pick(s)}])]
           turns == CHOOSE i : Turns(i)
<1>1. Trimmed(given, rows) = turns[S]
  BY DEF Trimmed, MapThenFoldSet
<1>2. IsFiniteSet(S)
  <2>1. S \in SUBSET Records
    BY CandidatesAreRecords DEF WholeSets
  <2> QED BY <2>1, RecordsAreFinite, FS_Subset
<1>3. \A s \in SUBSET S : s # {} => Pick(s) \in s
  OBVIOUS
<1>4. \A C \in WholeSets : Trim(C) \in WholeSets
  <2> TAKE C \in WholeSets
  <2>1. \A a, b : Opposed(a, b) => (a \in Dropped(Lowest(C), rows) <=> b \in Dropped(Lowest(C), rows))
    BY DroppedIsWhole
  <2>2. C \ Dropped(Lowest(C), rows) \in WholeSets
    BY <2>1 DEF WholeSets
  <2> QED BY <2>2
<1> HIDE DEF Pick, Trim
<1>5. \E g : Turns(g)
  <2>1. h \in [S \X WholeSets -> WholeSets]
    BY <1>4
  <2>2. \A s \in SUBSET S : s # {} => c[s] \in s
    BY <1>3
  <2> HIDE DEF h, c
  <2>3. PICK g : Folds(h, c, given, g, S) /\ \A s \in SUBSET S : g[s] \in WholeSets
    BY <1>2, <2>1, <2>2, FoldKeeps
  <2>4. \A s \in SUBSET S : s # {} => h[<<c[s], g[s \ {c[s]}]>>] = Trim(g[s \ {Pick(s)}])
    <3> TAKE s \in SUBSET S
    <3> HAVE s # {}
    <3>1. c[s] = Pick(s) /\ Pick(s) \in S /\ g[s \ {c[s]}] \in WholeSets
      BY <1>3, <2>3 DEF c
    <3> QED BY <3>1 DEF h
  <2>5. g = [s \in SUBSET S |-> IF s = {} THEN given ELSE h[<<c[s], g[s \ {c[s]}]>>]]
    BY <2>3 DEF Folds
  <2>6. Turns(g)
    BY <2>4, <2>5
  <2> QED BY <2>6
<1>6. Turns(turns)
  BY <1>5
<1> HIDE DEF turns
<1> DEFINE G == {s \in SUBSET S : turns[s] \in WholeSets}
<1>7. {} \in G
  BY <1>6
<1>8. \A s \in SUBSET S : s # {} /\ s \ {c[s]} \in G => s \in G
  <2> TAKE s \in SUBSET S
  <2> HAVE s # {} /\ s \ {c[s]} \in G
  <2>1. turns[s] = Trim(turns[s \ {Pick(s)}])
    BY <1>6
  <2> QED BY <1>4, <2>1
<1>9. \A s \in SUBSET S : s # {} => c[s] \in s
  BY <1>3
<1> HIDE DEF G, c
<1>10. \A s \in SUBSET S : s \in G
  BY <1>2, <1>7, <1>8, <1>9, ByTheRest
<1> QED BY <1>1, <1>10 DEF G

-----------------------------------------------------------------------------
\* What ConflictsAreWhole says, of the session's answers and of the saved ones.
OpposedIn(es, r, q) == \E e \in es : e.type = "CONFLICT" /\ {e.from, e.to} = {r, q}
PairwiseIn(s, es) ==
  \A r \in DOMAIN s : Cardinality({q \in DOMAIN s : OpposedIn(es, r, q)}) <= 1
WholeIn(s, es, a) ==
  \A t \in DOMAIN a :
    /\ a[t].writing = 0 => a[t].competed = {}
    /\ (/\ ~setting.agent
        /\ \/ setting.strategy = "STRONG_RULE_BASED"
           \/ setting.strategy = "RELATIONSHIP_PACKET" /\ PairwiseIn(s, es)) =>
         \A r, q \in a[t].competed :
           OpposedIn(es, r, q) => (r \in a[t].given <=> q \in a[t].given)

WholeInv ==
  /\ WholeIn(state, edges, answers) /\ WholeIn(saved.state, saved.edges, saved.answers)
  /\ IsFiniteSet(edges) /\ IsFiniteSet(saved.edges)
  /\ calls = 0 =>
       Records = {} /\ DOMAIN saved.state = {} /\ pc \notin {"write", "link", "limit"}

\* There are no answers in the initial states.
LEMMA InitWhole == Init => WholeInv
BY FS_EmptySet DEF Init, WholeInv, WholeIn, Empty, Records

\* An answer is given the conflicts it was drawn from whole.
LEMMA RetrieveWhole == MemoryType /\ LinksInv /\ WholeInv /\ Retrieve => WholeInv'
<1> SUFFICES ASSUME MemoryType, LinksInv, WholeInv, Retrieve PROVE WholeInv'
  OBVIOUS
<1>1. PICK rows \in SetToSeqs(Conflicts) : Answer(Evidence(Delivered(rows), Candidates, {}))
  BY DEF Retrieve, Conflicts
<1> DEFINE a == Evidence(Delivered(rows), Candidates, {})
<1>2. /\ answers' = [t \in Answered \cup {asked} |-> IF t = asked THEN a ELSE answers[t]]
      /\ UNCHANGED <<setting, state, edges, calls, saved>>
  BY <1>1 DEF Answer, store
<1>3. a.writing = 0 => a.competed = {}
  BY CandidatesAreRecords DEF Evidence, WholeInv
<1> DEFINE Holds == \/ setting.strategy = "STRONG_RULE_BASED"
                    \/ setting.strategy = "RELATIONSHIP_PACKET" /\ PairwiseIn(state, edges)
<1>4. Holds => \A r, q \in a.competed : OpposedIn(edges, r, q) => (r \in a.given <=> q \in a.given)
  <2> SUFFICES ASSUME Holds PROVE \A r, q \in Candidates : Opposed(r, q) =>
                                    (r \in Delivered(rows) <=> q \in Delivered(rows))
    BY DEF Evidence, Opposed, OpposedIn
  <2>1. Profiled \in WholeSets
    BY ProfiledIsWhole DEF Grouping
  <2>2. Delivered(rows) \in WholeSets
    <3>1. CASE setting.strategy = "STRONG_RULE_BASED"
      BY <2>1, <3>1 DEF Delivered
    <3>2. CASE setting.strategy = "RELATIONSHIP_PACKET" /\ PairwiseIn(state, edges)
      <4>1. Pairwise
        BY <3>2 DEF PairwiseIn, OpposedIn, Pairwise, Opposed, Records
      <4> QED BY <2>1, <3>2, <4>1, TrimmedIsWhole DEF Delivered, WholeInv
    <3> QED BY <3>1, <3>2
  <2> QED BY <2>2 DEF WholeSets
<1> HIDE DEF a
<1>5. WholeIn(state', edges', answers')
  <2> SUFFICES ASSUME NEW t \in DOMAIN answers'
               PROVE  /\ answers'[t].writing = 0 => answers'[t].competed = {}
                      /\ (/\ ~setting.agent
                          /\ \/ setting.strategy = "STRONG_RULE_BASED"
                             \/ setting.strategy = "RELATIONSHIP_PACKET" /\ PairwiseIn(state, edges)) =>
                           \A r, q \in answers'[t].competed : OpposedIn(edges, r, q) =>
                             (r \in answers'[t].given <=> q \in answers'[t].given)
    BY <1>2 DEF WholeIn
  <2>1. CASE t = asked
    <3>1. answers'[t] = a
      BY <1>2, <2>1
    <3> QED BY <1>3, <1>4, <3>1
  <2>2. CASE t # asked
    <3>1. answers'[t] = answers[t] /\ t \in DOMAIN answers
      BY <1>2, <2>2 DEF Answered
    <3> QED BY <3>1 DEF WholeInv, WholeIn
  <2> QED BY <2>1, <2>2
<1>6. WholeIn(saved'.state, saved'.edges, saved'.answers)
  BY <1>2 DEF WholeInv, WholeIn
<1>7. pc' = "ready" /\ setting' = setting
  BY <1>1 DEF Answer
<1>8. WholeIn(state, edges, answers)' /\ WholeIn(saved.state, saved.edges, saved.answers)'
  BY <1>5, <1>6, <1>7 DEF WholeIn
<1> QED BY <1>2, <1>7, <1>8 DEF WholeInv, Records

\* Nothing is said of the conflicts of answers from an empty memory.
LEMMA UnwrittenIsWhole ==
  ASSUME NEW s, NEW es, NEW a, WholeIn(s, es, a), \A t \in DOMAIN a : a[t].writing = 0,
         NEW s2, NEW es2
  PROVE  WholeIn(s2, es2, a)
BY DEF WholeIn

\* Every step keeps what WholeInv says of the answers.
LEMMA NextWhole ==
  MemoryType /\ LinksInv /\ HistoryInv /\ WholeInv /\ [Next]_vars => WholeInv'
<1> SUFFICES ASSUME MemoryType, LinksInv, HistoryInv, WholeInv, [Next]_vars PROVE WholeInv'
  OBVIOUS
<1>1. setting' = setting
  BY SettingIsFrozen
<1>2. CASE Turn \/ Narrow \/ UNCHANGED vars
  <2>1. /\ UNCHANGED <<state, edges, answers, saved, calls>>
        /\ pc' \in {"write", "link", "limit"} => pc \in {"write", "link", "limit"}
    BY <1>2 DEF Turn, Begin, Ask, NextStage, Written, Linked, Ingested, ShowAll, Idle, Narrow, vars, store
  <2> QED BY <1>1, <2>1 DEF WholeInv, WholeIn, Records
<1>3. CASE Save
  <2>1. /\ UNCHANGED <<state, edges, answers, calls>> /\ pc' = "idle"
        /\ saved'.state = state /\ saved'.edges = edges /\ saved'.answers = answers
    BY <1>3 DEF Save, Finish, ExtractFails, ExecutionFails, Fails, Commit, store
  <2> QED BY <1>1, <2>1 DEF WholeInv, WholeIn, Records
<1>4. CASE Extract \/ Write \/ Link \/ Evict \/ EvictForCoverage
  <2>1. /\ UNCHANGED <<answers, saved>>
        /\ \A t \in DOMAIN answers : answers[t].writing = 0
        /\ \A t \in DOMAIN saved.answers : saved.answers[t].writing = 0
    BY <1>4 DEF Extract, Write, Link, Evict, EvictForCoverage, HistoryInv, Answered
  <2>2. WholeIn(state', edges', answers) /\ WholeIn(saved.state, saved.edges, saved.answers)
    BY <2>1, UnwrittenIsWhole DEF WholeInv
  <2>3. IsFiniteSet(edges')
    <3>1. CASE Extract
      BY <3>1, FS_EmptySet DEF Extract
    <3>2. CASE Link
      <4>1. edges' = edges \/ \E e : edges' = edges \cup {e}
        BY <3>2 DEF Link
      <4> QED BY <4>1, FS_AddElement DEF WholeInv
    <3>3. CASE Write \/ Evict \/ EvictForCoverage
      BY <3>3 DEF Write, Evict, EvictForCoverage, WholeInv
    <3> QED BY <1>4, <3>1, <3>2, <3>3
  <2>4. calls' # 0
    BY <1>4 DEF Extract, Write, Link, Evict, EvictForCoverage, WholeInv, MemoryType, TypeOK
  <2> QED BY <1>1, <2>1, <2>2, <2>3, <2>4 DEF WholeInv, WholeIn
<1>5. CASE Retrieve
  BY <1>5, RetrieveWhole
<1>6. CASE Choose
  <2>1. PICK given : Answer(Evidence(given, {}, Shown))
    BY <1>6 DEF Choose
  <2>2. /\ answers' = [t \in Answered \cup {asked} |->
                         IF t = asked THEN Evidence(given, {}, Shown) ELSE answers[t]]
        /\ UNCHANGED <<state, edges, saved, calls>> /\ pc' = "ready"
    BY <2>1 DEF Answer, store
  <2>3. Evidence(given, {}, Shown).competed = {}
    BY DEF Evidence
  <2> QED BY <1>1, <2>2, <2>3 DEF WholeInv, WholeIn, Answered, Records
<1>7. CASE Crash
  BY <1>1, <1>7 DEF Crash, WholeInv, WholeIn, Records
<1> QED BY <1>2, <1>3, <1>4, <1>5, <1>6, <1>7 DEF Next, Turn, Save

\* Of two facts in a conflict that compete for a context, both are given or neither,
\* whatever their number, their sizes and the limits; of packets, when no record has
\* two opponents.
THEOREM ConflictsStayWhole == Spec => []ConflictsAreWhole
<1>1. Spec => [](MemoryType /\ LinksInv /\ HistoryInv /\ WholeInv)
  BY InitType, NextType, InitLinks, NextLinks, InitHistory, NextHistory, InitWhole, NextWhole, PTL DEF Spec
<1>2. WholeInv => ConflictsAreWhole
  BY DEF WholeInv, WholeIn, ConflictsAreWhole, OpposedIn, Opposed, PairwiseIn, Pairwise, Answered, Records
<1> QED BY <1>1, <1>2, PTL

=============================================================================
