------------------------ MODULE MemoryReview_proofs ------------------------
(* Proofs about MemoryReview, for every number of memories and of requests.    *)
EXTENDS MemoryReview, TLAPS

(* An extraction goes on exactly as long as its session holds the row.         *)
RowIsHeld == extracting = IF row = NoOne THEN {} ELSE {row}

(* An audit has ground truth, so nothing is extracted any more; and once it is *)
(* saved every edit under way was under way then.                              *)
AuditIsLast ==
  /\ audit # "none" => Memories # {}
  /\ audit = "saved" => UnderWay \subseteq open

OnceInv ==
  /\ extractions \in Nat /\ RowIsHeld
  /\ ExtractedOnce /\ ExtractsIntoNothing /\ AuditIsLast

-----------------------------------------------------------------------------
(* Types                                                                       *)

(* A request writes one status to some memories.                               *)
LEMMA WritesAreTyped ==
  ASSUME NEW ids \in SUBSET Ids, NEW value \in Statuses
  PROVE  Writes(ids, value) \in UNION {[js -> Statuses] : js \in SUBSET Ids}
BY DEF Writes

\* An edit that changes nothing is an edit.
LEMMA NothingIsTyped == Nothing \in Changes
<1>1. NoWrites \in UNION {[js -> Statuses] : js \in SUBSET Ids}
  BY WritesAreTyped DEF NoWrites, Statuses
<1> QED BY <1>1 DEF Nothing, Changes

(* What CheckEdit is handed to save is a change.                               *)
LEMMA CheckIsTyped ==
  ASSUME TypeOK, NEW w \in Editors, NEW change \in Changes, CheckEdit(w, change)
  PROVE  TypeOK'
<1>1. edit' \in [Editors -> Changes]
  BY DEF CheckEdit, TypeOK
<1>2. UnderWay \subseteq UnderWay'
  BY DEF CheckEdit, UnderWay, TypeOK
<1> QED BY <1>1, <1>2 DEF CheckEdit, TypeOK, review

(* The changes the four requests hand over.                                    *)
LEMMA RequestsAreTyped ==
  ASSUME TypeOK, NEW w \in Editors,
         \/ \E i \in Ids, links \in SUBSET Ids : Add(w, i, links)
         \/ \E i \in Ids : Reject(w, i)
         \/ \E i \in Ids, p \in Patches : Patch(w, i, p)
         \/ \E ids \in SUBSET Ids : Confirm(w, ids)
  PROVE  \E change \in Changes : CheckEdit(w, change)
<1>1. ASSUME NEW i \in Ids, NEW links \in SUBSET Ids, Add(w, i, links)
      PROVE  \E change \in Changes : CheckEdit(w, change)
  <2>1. Writes({i}, "candidate") \in UNION {[js -> Statuses] : js \in SUBSET Ids}
    BY WritesAreTyped DEF Statuses
  <2>2. [writes |-> Writes({i}, "candidate"), id |-> i, links |-> links, seen |-> {}] \in Changes
    BY <2>1 DEF Changes
  <2> QED BY <1>1, <2>2 DEF Add
<1>2. ASSUME NEW ids \in SUBSET Ids, NEW value \in Statuses,
             CheckEdit(w, [Nothing EXCEPT !.writes = Writes(ids, value)])
      PROVE  \E change \in Changes : CheckEdit(w, change)
  <2>1. [Nothing EXCEPT !.writes = Writes(ids, value)] \in Changes
    BY NothingIsTyped, WritesAreTyped DEF Changes
  <2> QED BY <1>2, <2>1
<1>3. ASSUME NEW i \in Ids, NEW p \in Patches, Patch(w, i, p)
      PROVE  \E change \in Changes : CheckEdit(w, change)
  <2> DEFINE change ==
        [writes |-> IF p.status \in {Kept, status[i]} THEN NoWrites ELSE Writes({i}, p.status),
         id |-> IF p.links = Kept THEN NoOne ELSE i,
         links |-> IF p.links = Kept THEN {} ELSE p.links,
         seen |-> IF p.links = Kept THEN {} ELSE updates[i]]
  <2>1. change.writes \in UNION {[js -> Statuses] : js \in SUBSET Ids}
    BY WritesAreTyped, PatchAssumption DEF NoWrites, Statuses
  <2>2. change.links \in SUBSET Ids /\ change.seen \in SUBSET Ids
    BY PatchAssumption DEF TypeOK
  <2>3. change \in Changes
    BY <2>1, <2>2 DEF Changes
  <2>4. CheckEdit(w, change)
    BY <1>3 DEF Patch
  <2> QED BY <2>3, <2>4
<1>4. ASSUME NEW i \in Ids, Reject(w, i)
      PROVE  \E change \in Changes : CheckEdit(w, change)
  BY <1>4, <1>2 DEF Reject, Statuses
<1>5. ASSUME NEW ids \in SUBSET Ids, Confirm(w, ids)
      PROVE  \E change \in Changes : CheckEdit(w, change)
  BY <1>5, <1>2 DEF Confirm, Statuses
<1> QED BY <1>1, <1>3, <1>4, <1>5

\* The rows of a new conversation have their types.
LEMMA InitType == Init => TypeOK
BY NothingIsTyped DEF Init, TypeOK, UnderWay

\* Every step keeps the types.
LEMMA NextType == TypeOK /\ [Next]_vars => TypeOK'
<1> SUFFICES ASSUME TypeOK, [Next]_vars PROVE TypeOK'
  OBVIOUS
<1>1. ASSUME NEW e \in Extractors, Extract(e) PROVE TypeOK'
  BY <1>1 DEF Extract, TypeOK, UnderWay, review
<1>2. ASSUME NEW e \in Extractors, Saved(e) PROVE TypeOK'
  <2>1. PICK o \in Outputs :
          /\ status' = [i \in Ids |-> IF i \in DOMAIN o THEN "candidate" ELSE status[i]]
          /\ updates' = [i \in Ids |-> IF i \in DOMAIN o THEN o[i] ELSE updates[i]]
    BY <1>2 DEF Saved
  <2>2. status' \in [Ids -> Statuses \cup {"none"}]
    BY <2>1 DEF TypeOK, Statuses
  <2>3. updates' \in [Ids -> SUBSET Ids]
    BY <2>1, OutputAssumption DEF TypeOK
  <2> QED BY <1>2, <2>2, <2>3 DEF Saved, Leave, TypeOK, UnderWay
<1>3. ASSUME NEW e \in Extractors, Failed(e) PROVE TypeOK'
  BY <1>3 DEF Failed, Leave, TypeOK, UnderWay, review
<1>4. ASSUME NEW e \in Extractors, RolledBack(e) PROVE TypeOK'
  BY <1>4 DEF RolledBack, Leave, TypeOK, UnderWay, review
<1>5. CASE StageLockIsLost
  BY <1>5 DEF StageLockIsLost, TypeOK, UnderWay, review
<1>6. ASSUME NEW w \in Editors, NEW change \in Changes, CheckEdit(w, change)
      PROVE  TypeOK'
  BY <1>6, CheckIsTyped
<1>7. ASSUME NEW w \in Editors, Save(w) PROVE TypeOK'
  <2>1. edit[w] \in Changes /\ edit[w].links \in SUBSET Ids
    BY DEF TypeOK, Changes
  <2>2. \A i \in DOMAIN edit[w].writes : edit[w].writes[i] \in Statuses
    BY <2>1 DEF Changes
  <2>3. status' \in [Ids -> Statuses \cup {"none"}]
    BY <1>7, <2>2 DEF Save, TypeOK
  <2>4. updates' \in [Ids -> SUBSET Ids]
    BY <1>7, <2>1 DEF Save, TypeOK
  <2>5. edit' \in [Editors -> Changes] /\ open' \subseteq UnderWay' /\ stale' \subseteq UnderWay'
    BY <1>7, NothingIsTyped DEF Save, EndEdit, TypeOK, UnderWay
  <2> QED BY <1>7, <2>3, <2>4, <2>5 DEF Save, TypeOK
<1>8. ASSUME NEW w \in Editors, EditFails(w) PROVE TypeOK'
  <2>1. edit' \in [Editors -> Changes] /\ open' \subseteq UnderWay' /\ stale' \subseteq UnderWay'
    BY <1>8, NothingIsTyped DEF EditFails, EndEdit, TypeOK, UnderWay
  <2> QED BY <1>8, <2>1 DEF EditFails, TypeOK, review
<1>9. CASE BuildAudit
  BY <1>9 DEF BuildAudit, TypeOK, UnderWay, review
<1>10. CASE SaveAudit
  BY <1>10 DEF SaveAudit, TypeOK, UnderWay, review
<1>11. CASE AuditFails
  BY <1>11 DEF AuditFails, TypeOK, UnderWay, review
<1>12. CASE UNCHANGED vars
  BY <1>12 DEF vars, TypeOK, UnderWay, review
<1> QED BY <1>1, <1>2, <1>3, <1>4, <1>5, <1>6, <1>7, <1>8, <1>9, <1>10, <1>11, <1>12,
           RequestsAreTyped DEF Next, Extraction, Edit

(* The saved rows, the locks and the edits under way have their types in every *)
(* reachable state.                                                            *)
THEOREM TypeCorrect == Spec => []TypeOK
BY InitType, NextType, PTL DEF Spec

-----------------------------------------------------------------------------
(* One extraction, into nothing, before any audit                              *)

(* A request that has passed its checks leaves all else alone.                 *)
LEMMA CheckKeepsOnce ==
  ASSUME OnceInv, NEW w \in Editors, NEW change, CheckEdit(w, change)
  PROVE  OnceInv'
<1>1. audit' = audit /\ audit # "saved"
  BY DEF CheckEdit, Editable
<1>2. Memories' = Memories
  BY DEF CheckEdit, Memories, review
<1> QED BY <1>1, <1>2 DEF CheckEdit, OnceInv, RowIsHeld, ExtractedOnce, ExtractsIntoNothing, AuditIsLast

\* Nothing is extracted in the initial states.
LEMMA InitOnce == Init => OnceInv
BY DEF Init, OnceInv, RowIsHeld, ExtractedOnce, ExtractsIntoNothing, AuditIsLast, UnderWay

(* While an extraction is under way there is no audit.                         *)
LEMMA NoAuditYet ==
  ASSUME OnceInv, extracting # {}
  PROVE  audit = "none"
BY DEF OnceInv, ExtractsIntoNothing, AuditIsLast

(* Only one extraction is under way, and ends with its row.                    *)
LEMMA LeavesNone ==
  ASSUME TypeOK, OnceInv, NEW e \in Extractors, e \in extracting, Leave(e)
  PROVE  extracting' = {} /\ row' = NoOne
BY NoOneAssumption DEF OnceInv, RowIsHeld, Leave

\* Every step keeps what OnceInv says of the extractions.
LEMMA NextOnce == TypeOK /\ OnceInv /\ [Next]_vars => OnceInv'
<1> SUFFICES ASSUME TypeOK, OnceInv, [Next]_vars PROVE OnceInv'
  OBVIOUS
<1>1. ASSUME NEW e \in Extractors, Extract(e) PROVE OnceInv'
  <2>1. Memories = {} /\ Memories' = Memories /\ audit' = "none" /\ UnderWay' = UnderWay
    BY <1>1 DEF Extract, Unextracted, Memories, UnderWay, review, OnceInv, AuditIsLast, TypeOK
  <2>2. extractions = 0 /\ extractions' = 0
    BY <1>1 DEF Extract, Unextracted, OnceInv, ExtractedOnce
  <2>3. RowIsHeld'
    BY <1>1, NoOneAssumption DEF Extract, RowIsFree, OnceInv, RowIsHeld
  <2> QED BY <1>1, <2>1, <2>2, <2>3 DEF Extract, OnceInv, ExtractedOnce, ExtractsIntoNothing, AuditIsLast
<1>2. ASSUME NEW e \in Extractors, Saved(e) PROVE OnceInv'
  <2>1. audit = "none" /\ extractions = 0 /\ extracting' = {} /\ row' = NoOne
    BY <1>2, NoAuditYet, LeavesNone DEF Saved, OnceInv, ExtractsIntoNothing
  <2> QED BY <1>2, <2>1 DEF Saved, OnceInv, RowIsHeld, ExtractedOnce, ExtractsIntoNothing, AuditIsLast
<1>3. ASSUME NEW e \in Extractors, Failed(e) PROVE OnceInv'
  <2>1. audit = "none" /\ extractions = 0 /\ extracting' = {} /\ row' = NoOne
    BY <1>3, NoAuditYet, LeavesNone DEF Failed, OnceInv, ExtractsIntoNothing
  <2> QED BY <1>3, <2>1 DEF Failed, OnceInv, RowIsHeld, ExtractedOnce, ExtractsIntoNothing, AuditIsLast
<1>4. ASSUME NEW e \in Extractors, RolledBack(e) PROVE OnceInv'
  <2>1. audit = "none" /\ extractions = 0 /\ extracting' = {} /\ row' = NoOne
    BY <1>4, NoAuditYet, LeavesNone DEF RolledBack, OnceInv, ExtractsIntoNothing
  <2> QED BY <1>4, <2>1 DEF RolledBack, OnceInv, RowIsHeld, ExtractedOnce, ExtractsIntoNothing, AuditIsLast
<1>5. CASE StageLockIsLost
  BY <1>5 DEF StageLockIsLost, OnceInv, RowIsHeld, ExtractedOnce, ExtractsIntoNothing, AuditIsLast, Memories, UnderWay, review
<1>6. ASSUME NEW w \in Editors, NEW change, CheckEdit(w, change)
      PROVE  OnceInv'
  BY <1>6, CheckKeepsOnce
<1>7. ASSUME NEW w \in Editors, Save(w) PROVE OnceInv'
  <2>1. Memories \subseteq Memories'
    BY <1>7 DEF Save, Memories, TypeOK, Changes, Statuses
  <2>2. extracting # {} => Memories' = {}
    <3> SUFFICES ASSUME extracting # {}, NEW i \in Ids, status'[i] # "none"
                 PROVE  FALSE
      BY DEF Memories
    <3>1. status[i] = "none" /\ row # NoOne
      BY DEF OnceInv, ExtractsIntoNothing, Memories, RowIsHeld
    <3>2. i \in DOMAIN edit[w].writes
      BY <1>7, <3>1 DEF Save
    <3> QED BY <1>7, <3>1, <3>2 DEF Save
  <2>3. UnderWay' \subseteq UnderWay \ {w} /\ open' = open \ {w}
    BY <1>7 DEF Save, EndEdit, UnderWay, TypeOK
  <2> QED BY <1>7, <2>1, <2>2, <2>3 DEF Save, OnceInv, RowIsHeld, ExtractedOnce, ExtractsIntoNothing, AuditIsLast
<1>8. ASSUME NEW w \in Editors, EditFails(w) PROVE OnceInv'
  <2>1. UnderWay' \subseteq UnderWay \ {w} /\ open' = open \ {w} /\ Memories' = Memories
    BY <1>8 DEF EditFails, EndEdit, UnderWay, TypeOK, Memories, review
  <2> QED BY <1>8, <2>1 DEF EditFails, OnceInv, RowIsHeld, ExtractedOnce, ExtractsIntoNothing, AuditIsLast
<1>9. CASE BuildAudit
  <2>1. Memories # {} /\ Memories' = Memories
    BY <1>9 DEF BuildAudit, Memories, review
  <2> QED BY <1>9, <2>1 DEF BuildAudit, OnceInv, RowIsHeld, ExtractedOnce, ExtractsIntoNothing, AuditIsLast
<1>10. CASE SaveAudit
  <2>1. Memories' = Memories /\ UnderWay' = UnderWay
    BY <1>10 DEF SaveAudit, Memories, UnderWay, review
  <2> QED BY <1>10, <2>1 DEF SaveAudit, OnceInv, RowIsHeld, ExtractedOnce, ExtractsIntoNothing, AuditIsLast
<1>11. CASE AuditFails
  <2>1. Memories' = Memories
    BY <1>11 DEF AuditFails, Memories, review
  <2> QED BY <1>11, <2>1 DEF AuditFails, OnceInv, RowIsHeld, ExtractedOnce, ExtractsIntoNothing, AuditIsLast
<1>12. CASE UNCHANGED vars
  BY <1>12 DEF vars, OnceInv, RowIsHeld, ExtractedOnce, ExtractsIntoNothing, AuditIsLast, Memories, UnderWay, review
<1> QED BY <1>1, <1>2, <1>3, <1>4, <1>5, <1>6, <1>7, <1>8, <1>9, <1>10, <1>11, <1>12,
           RequestsAreTyped DEF Next, Extraction, Edit

\* OnceInv in every reachable state.
LEMMA OnceAlways == Spec => [](TypeOK /\ OnceInv)
BY InitType, NextType, InitOnce, NextOnce, PTL DEF Spec

(* Extracted once: two requests never both extract, and the receipt and the    *)
(* saved extraction agree, whatever becomes of the stage lock.                 *)
THEOREM ExtractionIsOnce == Spec => []ExtractedOnce
<1>1. OnceInv => ExtractedOnce
  BY DEF OnceInv
<1> QED BY OnceAlways, <1>1, PTL

(* Nothing is there while an extraction is under way, so it replaces no review. *)
THEOREM ExtractionIsFirst == Spec => []ExtractsIntoNothing
<1>1. OnceInv => ExtractsIntoNothing
  BY DEF OnceInv
<1> QED BY OnceAlways, <1>1, PTL

(* Once an audit is saved, only an edit that was under way then changes the    *)
(* ground truth, and by that it is over.                                       *)
THEOREM GroundTruthIsFrozen == Spec => FrozenButForOpen
<1> DEFINE Frozen ==
      audit = "saved" /\ review' # review =>
        \E w \in open : w \notin open' /\ edit'[w] = Nothing
<1>1. ASSUME TypeOK, OnceInv, [Next]_vars PROVE [Frozen]_vars
  <2> SUFFICES ASSUME audit = "saved", review' # review
               PROVE  \E w \in open : w \notin open' /\ edit'[w] = Nothing
    OBVIOUS
  <2>1. extracting = {} /\ UnderWay \subseteq open
    BY <1>1, NoAuditYet DEF OnceInv, AuditIsLast
  <2>2. PICK w \in Editors : Save(w)
    <3>1. \A e \in Extractors : ~Extract(e) /\ ~Saved(e) /\ ~Failed(e) /\ ~RolledBack(e)
      BY <2>1 DEF Extract, Saved, Failed, RolledBack
    <3>2. ~StageLockIsLost /\ ~BuildAudit /\ ~SaveAudit /\ ~AuditFails /\ ~UNCHANGED vars
      BY DEF StageLockIsLost, BuildAudit, SaveAudit, AuditFails, vars, review
    <3>3. \A w \in Editors, change \in Changes : ~CheckEdit(w, change)
      BY DEF CheckEdit, Editable
    <3>4. \A w \in Editors : ~EditFails(w)
      BY DEF EditFails, review
    <3> QED BY <1>1, <3>1, <3>2, <3>3, <3>4, RequestsAreTyped DEF Next, Extraction, Edit
  <2>3. w \in UnderWay /\ w \notin open' /\ edit'[w] = Nothing
    BY <1>1, <2>2 DEF Save, EndEdit, UnderWay, TypeOK
  <2> QED BY <2>1, <2>3
<1> QED BY OnceAlways, <1>1, PTL DEF Spec, FrozenButForOpen

-----------------------------------------------------------------------------
(* Cycles of the lineage                                                       *)

(* What an edit holds when it has passed its checks, and while the lineage is  *)
(* the one it saw: it writes to memories, or adds the one it relates, whose id *)
(* no other edit adds; and its relationships close no cycle.                   *)
Consistent(e) ==
  /\ DOMAIN e.writes \subseteq Memories \cup {e.id}
  /\ e.links \subseteq Memories
  /\ e.id \in Ids \ Memories => e.seen = {} /\ e.id \in DOMAIN e.writes
SawLineage(e) ==
  e.id \in Memories =>
    e.seen = updates[e.id] /\ ~HasCycle([updates EXCEPT ![e.id] = e.links])
AddsAlone(v) ==
  edit[v].id \in Ids \ Memories => \A u \in Editors \ {v} : edit[u].id # edit[v].id

LineageInv ==
  /\ CyclesHaveCauses
  /\ \A i \in Ids : updates[i] \subseteq Memories /\ (i \notin Memories => updates[i] = {})
  /\ \A v \in Editors :
       /\ Consistent(edit[v]) /\ AddsAlone(v)
       /\ v \notin stale => SawLineage(edit[v])

(* A memory that nothing leads to is on no cycle.                              *)
LEMMA NewestIsOnNoCycle ==
  ASSUME NEW es \in [Ids -> SUBSET Ids], NEW fs \in [Ids -> SUBSET Ids], NEW i \in Ids,
         \A a \in Ids \ {i} : fs[a] = es[a], \A a \in Ids : i \notin fs[a], HasCycle(fs)
  PROVE  HasCycle(es)
<1>1. PICK S \in SUBSET Ids : S # {} /\ \A a \in S : fs[a] \cap S # {}
  BY DEF HasCycle
<1>2. S \ {i} # {} /\ \A a \in S \ {i} : es[a] \cap (S \ {i}) # {}
  BY <1>1
<1> QED BY <1>2 DEF HasCycle

(* A lineage with no edge has no cycle.                                        *)
LEMMA NoEdgeNoCycle ==
  ASSUME NEW es, \A i \in Ids : es[i] = {}
  PROVE  ~HasCycle(es)
BY DEF HasCycle

(* The four requests hand over consistent changes.                             *)
LEMMA RequestsAreConsistent ==
  ASSUME TypeOK, LineageInv, NEW w \in Editors,
         \/ \E i \in Ids, links \in SUBSET Ids : Add(w, i, links)
         \/ \E i \in Ids : Reject(w, i)
         \/ \E i \in Ids, p \in Patches : Patch(w, i, p)
         \/ \E ids \in SUBSET Ids : Confirm(w, ids)
  PROVE  \E change \in Changes :
           /\ CheckEdit(w, change) /\ Consistent(change) /\ SawLineage(change)
           /\ change.id \in Ids \ Memories => \A u \in Editors : edit[u].id # change.id
<1> DEFINE Fits(change) ==
      /\ Consistent(change) /\ SawLineage(change)
      /\ change.id \in Ids \ Memories => \A u \in Editors : edit[u].id # change.id
<1>1. ASSUME NEW i \in Ids, NEW links \in SUBSET Ids, Add(w, i, links)
      PROVE  \E change : CheckEdit(w, change) /\ Fits(change)
  <2> DEFINE change == [writes |-> Writes({i}, "candidate"), id |-> i, links |-> links, seen |-> {}]
  <2>1. CheckEdit(w, change)
    BY <1>1 DEF Add
  <2>2. DOMAIN change.writes = {i} /\ i \notin Memories /\ links \subseteq Memories
    BY <1>1 DEF Add, Writes
  <2>3. \A u \in Editors : edit[u].id # i
    BY <1>1, NoOneAssumption DEF Add, UnderWay, Nothing
  <2>4. change.id = i /\ change.links = links /\ change.seen = {}
    OBVIOUS
  <2> HIDE DEF change
  <2> QED BY <2>1, <2>2, <2>3, <2>4 DEF Consistent, SawLineage
<1>2. ASSUME NEW ids \in SUBSET Memories, NEW value,
             CheckEdit(w, [Nothing EXCEPT !.writes = Writes(ids, value)])
      PROVE  \E change : CheckEdit(w, change) /\ Fits(change)
  <2> DEFINE change == [Nothing EXCEPT !.writes = Writes(ids, value)]
  <2>1. DOMAIN change.writes = ids /\ change.id = NoOne /\ change.links = {}
    BY DEF Writes, Nothing
  <2>2. NoOne \notin Ids /\ Memories \subseteq Ids
    BY NoOneAssumption DEF Memories
  <2> HIDE DEF change
  <2> QED BY <1>2, <2>1, <2>2 DEF Consistent, SawLineage, change
<1>3. ASSUME NEW i \in Ids, NEW p \in Patches, Patch(w, i, p)
      PROVE  \E change : CheckEdit(w, change) /\ Fits(change)
  <2> DEFINE new == IF p.links = Kept THEN updates[i] ELSE p.links
             change ==
        [writes |-> IF p.status \in {Kept, status[i]} THEN NoWrites ELSE Writes({i}, p.status),
         id |-> IF p.links = Kept THEN NoOne ELSE i,
         links |-> IF p.links = Kept THEN {} ELSE new,
         seen |-> IF p.links = Kept THEN {} ELSE updates[i]]
  <2>1. /\ CheckEdit(w, change) /\ i \in Memories /\ new \subseteq Memories \ {i}
        /\ ~HasCycle([updates EXCEPT ![i] = new])
    BY <1>3 DEF Patch, Acyclic
  <2>2. DOMAIN change.writes \subseteq {i}
    BY DEF NoWrites, Writes
  <2>3. NoOne \notin Ids /\ Memories \subseteq Ids
    BY NoOneAssumption DEF Memories
  <2>4. CASE p.links = Kept
    <3>1. change.id = NoOne /\ change.links = {}
      BY <2>4
    <3> HIDE DEF change
    <3> QED BY <2>1, <2>2, <2>3, <3>1 DEF Consistent, SawLineage
  <2>5. CASE p.links # Kept
    <3>1. change.id = i /\ change.links = new /\ change.seen = updates[i]
      BY <2>5
    <3> HIDE DEF change, new
    <3> QED BY <2>1, <2>2, <2>3, <3>1 DEF Consistent, SawLineage
  <2> QED BY <2>4, <2>5
<1>4. ASSUME NEW i \in Ids, Reject(w, i)
      PROVE  \E change : CheckEdit(w, change) /\ Fits(change)
  <2>1. {i} \in SUBSET Memories /\ CheckEdit(w, [Nothing EXCEPT !.writes = Writes({i}, "rejected")])
    BY <1>4 DEF Reject
  <2> HIDE DEF Fits
  <2> QED BY <2>1, <1>2
<1>5. ASSUME NEW ids \in SUBSET Ids, Confirm(w, ids)
      PROVE  \E change : CheckEdit(w, change) /\ Fits(change)
  <2>1. ids \in SUBSET Memories /\ CheckEdit(w, [Nothing EXCEPT !.writes = Writes(ids, "confirmed")])
    BY <1>5 DEF Confirm, Memories
  <2> HIDE DEF Fits
  <2> QED BY <2>1, <1>2
<1> HIDE DEF Fits
<1>6. PICK change : CheckEdit(w, change) /\ Fits(change)
  BY <1>1, <1>3, <1>4, <1>5
<1>7. PICK other \in Changes : CheckEdit(w, other)
  BY RequestsAreTyped
<1>8. change = other
  BY <1>6, <1>7 DEF CheckEdit, TypeOK
<1> QED BY <1>6, <1>7, <1>8 DEF Fits


(* The lineage is as it was, and so are the edits under way.                   *)
LEMMA QuietLineage ==
  ASSUME LineageInv, UNCHANGED <<status, updates>>, edit' = edit, stale' = stale, raced' = raced
  PROVE  LineageInv'
<1>1. Memories' = Memories
  BY DEF Memories
<1>2. \A v \in Editors : Consistent(edit[v])' /\ AddsAlone(v)' /\ (v \notin stale => SawLineage(edit[v])')
  BY <1>1 DEF LineageInv, Consistent, AddsAlone, SawLineage
<1> QED BY <1>1, <1>2 DEF LineageInv, CyclesHaveCauses

(* A request that has passed its checks adds its edit to those under way.      *)
LEMMA CheckKeepsLineage ==
  ASSUME TypeOK, LineageInv, NEW w \in Editors, NEW change \in Changes,
         CheckEdit(w, change), Consistent(change), SawLineage(change),
         change.id \in Ids \ Memories => \A u \in Editors : edit[u].id # change.id
  PROVE  LineageInv'
<1>1. Memories' = Memories /\ updates' = updates /\ stale' = stale /\ raced' = raced
  BY DEF CheckEdit, Memories, review
<1>2. edit'[w] = change /\ \A v \in Editors : v # w => edit'[v] = edit[v]
  BY DEF CheckEdit, TypeOK
<1>3. \A v \in Editors : Consistent(edit'[v]) /\ (v \notin stale => SawLineage(edit'[v]))
  BY <1>2 DEF LineageInv
<1>4. \A v \in Editors : AddsAlone(v)'
  BY <1>1, <1>2 DEF LineageInv, AddsAlone
<1>5. \A v \in Editors : Consistent(edit[v])' /\ (v \notin stale => SawLineage(edit[v])')
  BY <1>1, <1>3 DEF Consistent, SawLineage
<1> QED BY <1>1, <1>4, <1>5 DEF LineageInv, CyclesHaveCauses

(* An edit that is over, whether it was saved or not, leaves the others        *)
(* consistent; they are stale if it changed the lineage.                       *)
LEMMA EndKeepsEdits ==
  ASSUME TypeOK, LineageInv, NEW w \in Editors, EndEdit(w),
         Memories \subseteq Memories', Memories' \subseteq Memories \cup {edit[w].id}
  PROVE  \A v \in Editors :
           /\ Consistent(edit[v])' /\ AddsAlone(v)'
           /\ v \notin stale' => SawLineage(edit[v])'
<1>1. edit'[w] = Nothing /\ \A v \in Editors : v # w => edit'[v] = edit[v]
  BY DEF EndEdit, TypeOK
<1>2. Nothing.id \notin Ids /\ Nothing.links = {} /\ DOMAIN Nothing.writes = {}
  BY NoOneAssumption DEF Nothing, NoWrites, Writes
<1>3. Memories' \subseteq Ids /\ Memories \subseteq Ids
  BY DEF Memories
<1>4. ASSUME NEW v \in Editors, v # w
      PROVE  /\ Consistent(edit[v])' /\ AddsAlone(v)'
             /\ v \notin stale' => SawLineage(edit[v])'
  <2>1. Consistent(edit[v]) /\ AddsAlone(v) /\ AddsAlone(w) /\ (v \notin stale => SawLineage(edit[v]))
    BY DEF LineageInv
  <2>2. edit[v].id \in Memories' => edit[v].id \in Memories
    BY <1>3, <1>4, <2>1 DEF AddsAlone
  <2>3. Consistent(edit[v])'
    BY <1>1, <1>4, <2>1, <2>2, <1>3 DEF Consistent
  <2>4. AddsAlone(v)'
    BY <1>1, <1>2, <1>4, <2>1 DEF AddsAlone
  <2>5. ASSUME v \notin stale', edit[v].id \in Memories
        PROVE  updates' = updates /\ v \notin stale
    <3>1. v \in UnderWay
      BY <1>2, <1>3, <2>5 DEF UnderWay
    <3> QED BY <1>4, <2>5, <3>1 DEF EndEdit
  <2>6. v \notin stale' => SawLineage(edit[v])'
    BY <1>1, <1>4, <2>1, <2>2, <2>5 DEF SawLineage
  <2> QED BY <2>3, <2>4, <2>6
<1>5. Consistent(edit[w])' /\ AddsAlone(w)' /\ SawLineage(edit[w])'
  BY <1>1, <1>2, <1>3 DEF Consistent, AddsAlone, SawLineage
<1> QED BY <1>4, <1>5

(* A saved edit closes no cycle, unless it has raced with another one.         *)
LEMMA SaveKeepsLineage ==
  ASSUME TypeOK, LineageInv, NEW w \in Editors, Save(w), TypeOK'
  PROVE  LineageInv'
<1> DEFINE e == edit[w]
<1>1. /\ Consistent(e) /\ AddsAlone(w) /\ (w \notin stale => SawLineage(e))
      /\ e \in Changes /\ EndEdit(w)
  BY DEF LineageInv, TypeOK, Save
<1> DEFINE Outputted == \E o \in Outputs : HasCycle([i \in Ids |-> IF i \in DOMAIN o THEN o[i] ELSE {}])
<1>0. /\ raced => raced'
      /\ e.id \in Memories /\ w \in stale => raced'
      /\ HasCycle(updates) => raced \/ Outputted
  BY Zenon DEF Save, LineageInv, CyclesHaveCauses
<1> HIDE DEF Outputted
<1>2. Memories' = Memories \cup DOMAIN e.writes /\ Memories \subseteq Ids
  <2>1. \A i \in DOMAIN e.writes : i \in Ids /\ e.writes[i] # "none"
    BY <1>1 DEF Changes, Statuses
  <2> QED BY <2>1 DEF Save, Memories
<1>3. Memories \subseteq Memories' /\ Memories' \subseteq Memories \cup {e.id}
  BY <1>1, <1>2 DEF Consistent
<1>4. e.id \in Ids => e.id \in Memories'
  BY <1>1, <1>2 DEF Consistent
<1>5. \A i \in Ids : updates[i] \subseteq Memories /\ (i \notin Memories => updates[i] = {})
  BY DEF LineageInv
<1>6. CASE e.id = NoOne
  <2>1. updates' = updates
    BY <1>6 DEF Save
  <2>2. CyclesHaveCauses'
    BY <1>0, <2>1, Zenon DEF CyclesHaveCauses, Outputted
  <2>3. \A i \in Ids : updates'[i] \subseteq Memories' /\ (i \notin Memories' => updates'[i] = {})
    BY <1>3, <1>5, <2>1
  <2> QED BY <1>1, <1>3, <2>2, <2>3, EndKeepsEdits DEF LineageInv
<1>7. CASE e.id # NoOne
  <2>1. e.id \in Ids /\ e.links \subseteq Memories
    BY <1>1, <1>7 DEF Changes, Consistent
  <2>2. PICK seen \in {e.seen, updates[e.id]} :
          updates' = [updates EXCEPT ![e.id] = (updates[e.id] \ seen) \cup e.links]
    BY <1>7, <2>1 DEF Save, TypeOK
  <2>3. \A i \in Ids : updates'[i] \subseteq Memories' /\ (i \notin Memories' => updates'[i] = {})
    BY <1>3, <1>4, <1>5, <2>1, <2>2 DEF TypeOK
  <2>4. ASSUME e.id \in Memories, w \in stale PROVE CyclesHaveCauses'
    BY <1>0, <2>4, Zenon DEF CyclesHaveCauses
  <2>5. ASSUME e.id \in Memories, w \notin stale PROVE CyclesHaveCauses'
    <3>1. e.seen = updates[e.id] /\ ~HasCycle([updates EXCEPT ![e.id] = e.links])
      BY <1>1, <2>5 DEF SawLineage
    <3>2. updates' = [updates EXCEPT ![e.id] = e.links]
      BY <2>2, <3>1 DEF TypeOK
    <3> QED BY <3>1, <3>2, Zenon DEF CyclesHaveCauses
  <2>6. ASSUME e.id \notin Memories PROVE CyclesHaveCauses'
    <3>1. /\ \A a \in Ids \ {e.id} : updates'[a] = updates[a]
          /\ \A a \in Ids : e.id \notin updates'[a]
      BY <1>5, <2>1, <2>2, <2>6 DEF TypeOK
    <3>2. updates \in [Ids -> SUBSET Ids] /\ updates' \in [Ids -> SUBSET Ids]
      BY DEF TypeOK
    <3>3. HasCycle(updates') => HasCycle(updates)
      BY <2>1, <3>1, <3>2, NewestIsOnNoCycle
    <3> QED BY <1>0, <3>3, Zenon DEF CyclesHaveCauses, Outputted
  <2>7. CyclesHaveCauses'
    BY <2>4, <2>5, <2>6
  <2> QED BY <1>1, <1>3, <2>3, <2>7, EndKeepsEdits DEF LineageInv
<1> QED BY <1>6, <1>7

(* The extraction saves the lineage its output has, over an empty one.         *)
LEMMA ExtractionKeepsLineage ==
  ASSUME TypeOK, OnceInv, LineageInv, NEW e \in Extractors, Saved(e)
  PROVE  LineageInv'
<1>1. Memories = {} /\ edit' = edit /\ raced' = raced
  BY DEF Saved, OnceInv, ExtractsIntoNothing
<1>2. \A i \in Ids : updates[i] = {}
  BY <1>1 DEF LineageInv
<1>3. PICK o \in Outputs :
        /\ status' = [i \in Ids |-> IF i \in DOMAIN o THEN "candidate" ELSE status[i]]
        /\ updates' = [i \in Ids |-> IF i \in DOMAIN o THEN o[i] ELSE updates[i]]
  BY DEF Saved
<1>4. Memories' = DOMAIN o
  BY <1>1, <1>3, OutputAssumption DEF Memories
<1>5. CyclesHaveCauses'
  <2>1. updates' = [i \in Ids |-> IF i \in DOMAIN o THEN o[i] ELSE {}]
    BY <1>2, <1>3
  <2> QED BY <2>1 DEF CyclesHaveCauses
<1>6. \A i \in Ids : updates'[i] \subseteq Memories' /\ (i \notin Memories' => updates'[i] = {})
  BY <1>2, <1>3, <1>4, OutputAssumption
<1>7. ASSUME NEW v \in Editors
      PROVE  /\ Consistent(edit[v])' /\ AddsAlone(v)'
             /\ v \notin stale' => SawLineage(edit[v])'
  <2>1. Consistent(edit[v]) /\ AddsAlone(v) /\ edit[v] \in Changes
    BY DEF LineageInv, TypeOK
  <2>2. edit[v].links = {}
    BY <1>1, <2>1 DEF Consistent
  <2>3. edit[v].id \in Ids => edit[v].seen = {}
    BY <1>1, <2>1 DEF Consistent
  <2>4. Consistent(edit[v])' /\ AddsAlone(v)'
    BY <1>1, <2>1, <2>2 DEF Consistent, AddsAlone
  <2>5. ASSUME v \notin stale', edit[v].id \in Memories'
        PROVE  /\ edit[v].seen = updates'[edit[v].id]
               /\ ~HasCycle([updates' EXCEPT ![edit[v].id] = edit[v].links])
    <3>1. edit[v].id \in Ids
      BY <2>5 DEF Memories
    <3>2. v \in UnderWay
      BY <3>1, NoOneAssumption DEF UnderWay, Nothing
    <3>3. updates' = updates
      BY <2>5, <3>2 DEF Saved
    <3>4. \A i \in Ids : [updates' EXCEPT ![edit[v].id] = edit[v].links][i] = {}
      BY <1>2, <2>2, <3>3 DEF TypeOK
    <3> QED BY <1>2, <2>3, <3>1, <3>3, <3>4, NoEdgeNoCycle
  <2>6. v \notin stale' => SawLineage(edit[v])'
    BY <1>1, <2>5 DEF SawLineage
  <2> QED BY <2>4, <2>6
<1> QED BY <1>5, <1>6, <1>7 DEF LineageInv

(* There is no lineage yet and no edit.                                        *)
LEMMA InitLineage == Init => LineageInv
<1> SUFFICES ASSUME Init PROVE LineageInv
  OBVIOUS
<1>1. \A i \in Ids : updates[i] = {}
  BY DEF Init
<1>2. CyclesHaveCauses
  BY <1>1, NoEdgeNoCycle DEF CyclesHaveCauses
<1>3. Nothing.id \notin Ids /\ Nothing.links = {} /\ DOMAIN Nothing.writes = {}
  BY NoOneAssumption DEF Nothing, NoWrites, Writes
<1>4. \A v \in Editors : edit[v] = Nothing
  BY DEF Init
<1>5. Memories \subseteq Ids
  BY DEF Memories
<1> QED BY <1>1, <1>2, <1>3, <1>4, <1>5 DEF LineageInv, Consistent, AddsAlone, SawLineage

(* Every step keeps the causes of cycles in view.                              *)
LEMMA NextLineage == TypeOK /\ OnceInv /\ LineageInv /\ [Next]_vars => LineageInv'
<1> SUFFICES ASSUME TypeOK, OnceInv, LineageInv, [Next]_vars PROVE LineageInv'
  OBVIOUS
<1>1. ASSUME NEW e \in Extractors, Extract(e) \/ Failed(e) \/ RolledBack(e) PROVE LineageInv'
  BY <1>1, QuietLineage DEF Extract, Failed, RolledBack, review
<1>2. ASSUME NEW e \in Extractors, Saved(e) PROVE LineageInv'
  BY <1>2, ExtractionKeepsLineage
<1>3. CASE StageLockIsLost \/ BuildAudit \/ SaveAudit \/ AuditFails \/ UNCHANGED vars
  BY <1>3, QuietLineage DEF StageLockIsLost, BuildAudit, SaveAudit, AuditFails, vars, review
<1>4. ASSUME NEW w \in Editors, Save(w) PROVE LineageInv'
  BY <1>4, NextType, SaveKeepsLineage
<1>5. ASSUME NEW w \in Editors, EditFails(w) PROVE LineageInv'
  <2>1. Memories' = Memories /\ updates' = updates /\ raced' = raced /\ EndEdit(w)
    BY <1>5 DEF EditFails, Memories, review
  <2>2. CyclesHaveCauses'
    BY <2>1 DEF LineageInv, CyclesHaveCauses
  <2> QED BY <2>1, <2>2, EndKeepsEdits DEF LineageInv
<1>6. ASSUME NEW w \in Editors,
             \/ \E i \in Ids, links \in SUBSET Ids : Add(w, i, links)
             \/ \E i \in Ids : Reject(w, i)
             \/ \E i \in Ids, p \in Patches : Patch(w, i, p)
             \/ \E ids \in SUBSET Ids : Confirm(w, ids)
      PROVE  LineageInv'
  BY <1>6, RequestsAreConsistent, CheckKeepsLineage
<1> QED BY <1>1, <1>2, <1>3, <1>4, <1>5, <1>6 DEF Next, Extraction, Edit

(* A lineage has a cycle only if the extractor returned one or an edit was     *)
(* saved over a lineage it had not seen: the check of a request by itself      *)
(* never lets one through.                                                     *)
THEOREM CyclesAreExplained == Spec => []CyclesHaveCauses
<1>1. LineageInv => CyclesHaveCauses
  BY DEF LineageInv
<1> QED BY OnceAlways, InitLineage, NextLineage, <1>1, PTL DEF Spec

=============================================================================
