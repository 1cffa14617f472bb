---------------------------- MODULE MemoryReview ----------------------------
(***************************************************************************)
(* The memories of one conversation: extracted once, reviewed by requests  *)
(* that each check first and save later, and frozen when an audit exists.  *)
(*                                                                         *)
(* Requests run in sessions of their own on READ COMMITTED: what they      *)
(* checked may be old when they save.  Extraction holds the stage lock, on *)
(* PostgreSQL an advisory lock of a connection of its own, and in its      *)
(* session the row of the conversation; an insert that refers to the       *)
(* conversation waits for that row.  Of the relationships the lineage of   *)
(* UPDATEs is modelled, texts and evidence are not; a request that is      *)
(* refused changes nothing.                                                *)
(***************************************************************************)
EXTENDS Naturals, FiniteSets

CONSTANTS
  Ids,        \* memory ids
  Extractors, \* requests that extract
  Editors,    \* requests that edit
  NoOne,      \* nobody holds a lock
  Outputs,    \* what an extractor may return: id -> ids it updates
  Patches,    \* payloads: [status, links], either may be Kept
  Kept,       \* a payload leaves this field alone
  MaxEdits    \* bound: edits begun

VARIABLES
  status,      \* id -> status, or "none" when there is no such memory
  updates,     \* id -> ids it has UPDATE relationships to
  provenance,  \* extraction_provenance.status, or "none"
  stage,       \* holder of the stage lock of the extraction
  row,         \* holder of the row of the conversation
  extracting,  \* requests that wait for their extractor
  edit,        \* editor -> what it is about to save, or Nothing
  audit,       \* "none", "building" or "saved"
  \* what happened, for the properties:
  edits,       \* edits begun
  extractions, \* extractions saved
  open,        \* edits that were under way when the audit was saved
  stale,       \* edits under way whose check saw another lineage
  raced        \* such an edit replaced relationships

review == <<status, updates>>
vars == <<status, updates, provenance, stage, row, extracting, edit, audit,
          edits, extractions, open, stale, raced>>

Statuses == {"candidate", "confirmed", "edited", "rejected"}
GroundTruth == {"confirmed", "edited"}

ASSUME NoOneAssumption == NoOne \notin Extractors \cup Ids
ASSUME BoundAssumption == MaxEdits \in Nat
ASSUME OutputAssumption == \A o \in Outputs :
  DOMAIN o \subseteq Ids /\ \A i \in DOMAIN o : o[i] \subseteq DOMAIN o \ {i}
ASSUME PatchAssumption == \A p \in Patches :
  p.status \in Statuses \cup {Kept} /\ (p.links = Kept \/ p.links \subseteq Ids)

Memories == {i \in Ids : status[i] # "none"}

\* An edit under way: the statuses it writes, the memory whose relationships it
\* replaces (or NoOne) by which, and the rows of them it read.
Changes ==
  [writes : UNION {[ids -> Statuses] : ids \in SUBSET Ids},
   id : Ids \cup {NoOne}, links : SUBSET Ids, seen : SUBSET Ids]
Writes(ids, value) == [i \in ids |-> value]
NoWrites == Writes({}, "candidate")
Nothing == [writes |-> NoWrites, id |-> NoOne, links |-> {}, seen |-> {}]
UnderWay == {w \in Editors : edit[w] # Nothing}

-----------------------------------------------------------------------------
Init ==
  /\ status = [i \in Ids |-> "none"] /\ updates = [i \in Ids |-> {}]
  /\ provenance = "none" /\ stage = NoOne /\ row = NoOne /\ extracting = {}
  /\ edit = [w \in Editors |-> Nothing] /\ audit = "none"
  /\ edits = 0 /\ extractions = 0 /\ open = {} /\ stale = {} /\ raced = FALSE

(* UPDATE edges form a cycle when some memories all lead on to one another.    *)
HasCycle(es) ==
  \E S \in SUBSET Ids : S # {} /\ \A a \in S : es[a] \cap S # {}

-----------------------------------------------------------------------------
(* Extraction                                                                  *)

\* Mutant: the row of the conversation is not locked, only read.
RowIsFree_Unlocked == TRUE

(* SELECT ... FOR UPDATE NOWAIT                                                *)
RowIsFree == row = NoOne

(* Saved memories, or a receipt other than a failure, are returned as they are. *)
Unextracted == Memories = {} /\ provenance \in {"none", "failed"}

(* A request that finds the extraction done returns it and changes nothing.    *)
Extract(e) ==
  /\ e \notin extracting /\ stage = NoOne /\ RowIsFree /\ Unextracted
  /\ stage' = e /\ row' = e /\ extracting' = extracting \cup {e}
  /\ UNCHANGED <<review, provenance, edit, audit, edits, extractions, open, stale, raced>>

(* The session ends, and with it the stage, unless another one took it over.   *)
Leave(e) ==
  /\ extracting' = extracting \ {e}
  /\ row' = IF row = e THEN NoOne ELSE row
  /\ stage' = IF stage = e THEN NoOne ELSE stage

Saved(e) ==
  /\ e \in extracting
  /\ \E o \in Outputs :
       /\ status' = [i \in Ids |-> IF i \in DOMAIN o THEN "candidate" ELSE status[i]]
       /\ updates' = [i \in Ids |-> IF i \in DOMAIN o THEN o[i] ELSE updates[i]]
  /\ provenance' = "completed" /\ extractions' = extractions + 1
  /\ stale' = IF updates' = updates THEN stale ELSE UnderWay
  /\ Leave(e)
  /\ UNCHANGED <<edit, audit, edits, open, raced>>

Failed(e) ==
  /\ e \in extracting /\ provenance' = "failed" /\ Leave(e)
  /\ UNCHANGED <<review, edit, audit, edits, extractions, open, stale, raced>>

(* The output refers to memories it does not have, or the process dies: all of *)
(* it is rolled back, and both locks go with their connections.                *)
RolledBack(e) ==
  /\ e \in extracting /\ Leave(e)
  /\ UNCHANGED <<review, provenance, edit, audit, edits, extractions, open, stale, raced>>

(* The connection of the stage lock breaks while the session goes on.          *)
StageLockIsLost ==
  /\ stage # NoOne /\ stage' = NoOne
  /\ UNCHANGED <<review, provenance, row, extracting, edit, audit, edits, extractions, open, stale, raced>>

-----------------------------------------------------------------------------
(* Review: ensure_ground_truth_editable and the checks, then the commit        *)

\* Mutant: an audit is not looked for.
Editable_Always == TRUE

Editable == audit # "saved"

(* An edit that changes nothing is left out.                                   *)
CheckEdit(w, change) ==
  /\ edit[w] = Nothing /\ change # Nothing /\ edits < MaxEdits /\ Editable
  /\ edit' = [edit EXCEPT ![w] = change]
  /\ edits' = edits + 1
  /\ UNCHANGED <<review, provenance, stage, row, extracting, audit, extractions, open, stale, raced>>

(* A new memory is related to others of the conversation; nothing leads to it. *)
Add(w, i, links) ==
  /\ i \notin Memories /\ \A v \in UnderWay : edit[v].id # i
  /\ links \subseteq Memories
  /\ CheckEdit(w, [writes |-> Writes({i}, "candidate"), id |-> i, links |-> links, seen |-> {}])

\* Mutant: the lineage is checked without the new edges.
Acyclic_Before(i, links) == ~HasCycle([updates EXCEPT ![i] = {}])

(* The check replaces the edges of the memory by the new ones.                 *)
Acyclic(i, links) == ~HasCycle([updates EXCEPT ![i] = links])

Patch(w, i, p) ==
  LET links == IF p.links = Kept THEN updates[i] ELSE p.links IN
  /\ i \in Memories /\ links \subseteq Memories \ {i} /\ Acyclic(i, links)
  /\ CheckEdit(w,
       [writes |-> IF p.status \in {Kept, status[i]} THEN NoWrites ELSE Writes({i}, p.status),
        id |-> IF p.links = Kept THEN NoOne ELSE i,
        links |-> IF p.links = Kept THEN {} ELSE links,
        seen |-> IF p.links = Kept THEN {} ELSE updates[i]])

Reject(w, i) ==
  /\ i \in Memories /\ status[i] # "rejected"
  /\ CheckEdit(w, [Nothing EXCEPT !.writes = Writes({i}, "rejected")])

(* confirm_ground_truth: candidates among the given ids, as they were read.    *)
Confirm(w, ids) ==
  /\ ids # {} /\ \A i \in ids : status[i] = "candidate"
  /\ CheckEdit(w, [Nothing EXCEPT !.writes = Writes(ids, "confirmed")])

(* The edit is over, with the lineage it leaves to those under way.            *)
EndEdit(w) ==
  /\ edit' = [edit EXCEPT ![w] = Nothing]
  /\ open' = open \ {w}
  /\ stale' = (IF updates' = updates THEN stale ELSE UnderWay) \ {w}

(* The commit.  The relationships it replaces were read in between, so another *)
(* edit of the memory may have added some since; equal ones conflict.          *)
Save(w) ==
  LET e == edit[w] IN
  /\ e # Nothing
  /\ (\E i \in DOMAIN e.writes : status[i] = "none") => row = NoOne
  /\ status' = [i \in Ids |-> IF i \in DOMAIN e.writes THEN e.writes[i] ELSE status[i]]
  /\ \/ e.id = NoOne /\ UNCHANGED updates
     \/ e.id # NoOne /\ \E seen \in {e.seen, updates[e.id]} :
          /\ e.links \cap (updates[e.id] \ seen) = {}
          /\ updates' = [updates EXCEPT ![e.id] = (@ \ seen) \cup e.links]
  /\ raced' = (raced \/ (e.id \in Memories /\ w \in stale))
  /\ EndEdit(w)
  /\ UNCHANGED <<provenance, stage, row, extracting, audit, edits, extractions>>

(* A constraint is violated or the process dies: nothing is saved.             *)
EditFails(w) ==
  /\ edit[w] # Nothing
  /\ UNCHANGED review
  /\ EndEdit(w)
  /\ UNCHANGED <<provenance, stage, row, extracting, audit, edits, extractions, raced>>

-----------------------------------------------------------------------------
(* An audit of the conversation: build_audit checks, create_audit commits      *)

BuildAudit ==
  /\ audit = "none" /\ \E i \in Memories : status[i] \in GroundTruth
  /\ audit' = "building"
  /\ UNCHANGED <<review, provenance, stage, row, extracting, edit, edits, extractions, open, stale, raced>>

SaveAudit ==
  /\ audit = "building" /\ row = NoOne
  /\ audit' = "saved" /\ open' = UnderWay
  /\ UNCHANGED <<review, provenance, stage, row, extracting, edit, edits, extractions, stale, raced>>

AuditFails ==
  /\ audit = "building" /\ audit' = "none"
  /\ UNCHANGED <<review, provenance, stage, row, extracting, edit, edits, extractions, open, stale, raced>>

-----------------------------------------------------------------------------
Extraction(e) == Extract(e) \/ Saved(e) \/ Failed(e) \/ RolledBack(e)

Edit(w) ==
  \/ \E i \in Ids : (\E links \in SUBSET Ids : Add(w, i, links)) \/ Reject(w, i)
  \/ \E i \in Ids, p \in Patches : Patch(w, i, p)
  \/ \E ids \in SUBSET Ids : Confirm(w, ids)
  \/ Save(w) \/ EditFails(w)

Next ==
  \/ \E e \in Extractors : Extraction(e)
  \/ StageLockIsLost
  \/ \E w \in Editors : Edit(w)
  \/ BuildAudit \/ SaveAudit \/ AuditFails

Spec == Init /\ [][Next]_vars

-----------------------------------------------------------------------------
(* Properties                                                                  *)

TypeOK ==
  /\ status \in [Ids -> Statuses \cup {"none"}] /\ updates \in [Ids -> SUBSET Ids]
  /\ provenance \in {"none", "failed", "completed"}
  /\ stage \in Extractors \cup {NoOne} /\ row \in Extractors \cup {NoOne}
  /\ extracting \subseteq Extractors
  /\ edit \in [Editors -> Changes]
  /\ audit \in {"none", "building", "saved"}
  /\ open \subseteq UnderWay /\ stale \subseteq UnderWay

(* extract: two requests never both extract, whatever becomes of the stage     *)
(* lock, and a retry after a failure or a death extracts again only when the   *)
(* first saved nothing; the receipt says "completed" exactly when it did.      *)
ExtractedOnce ==
  /\ extractions <= 1
  /\ (provenance = "completed") = (extractions = 1)

(* extract_saved_conversation: memories and the receipt that explains them are *)
(* saved together.  Nobody edits what an extraction under way will replace.    *)
ExtractsIntoNothing == extracting # {} => Memories = {} /\ extractions = 0

(* validate_memory_evidence: the lineage has a cycle only if the extractor     *)
(* returned one, or an edit was saved over a lineage it had not seen.          *)
CyclesHaveCauses ==
  HasCycle(updates) => raced \/ \E o \in Outputs : HasCycle([i \in Ids |-> IF i \in DOMAIN o THEN o[i] ELSE {}])

(* "UPDATE relationships cannot form a cycle": refuted, see the README.        *)
LineageIsAcyclic == ~HasCycle(updates)

(* "Ground truth is frozen after an audit is created", but for the edits that  *)
(* were under way when it was saved: each changes it at most once more.        *)
FrozenButForOpen ==
  [][audit = "saved" /\ review' # review =>
       \E w \in open : w \notin open' /\ edit'[w] = Nothing]_vars

=============================================================================
