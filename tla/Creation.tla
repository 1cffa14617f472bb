------------------------------ MODULE Creation ------------------------------
(***************************************************************************)
(* Creation requests that a client may repeat with the same key            *)
(* (backend/app/api/routes.py: create_conversation, create_experiment,     *)
(* create_audit), and the deletion of a conversation with all it holds.    *)
(*                                                                         *)
(* A handler looks the key up, checks what the new row is to join, inserts *)
(* and, when the insert is refused, rolls back and looks the key up again. *)
(* Other requests come between these steps; from the flush of the insert   *)
(* to its commit the unique constraint makes them wait, so that is a step. *)
(* Requests without a key always make a row of their own and are left out. *)
(***************************************************************************)
CONSTANTS
  Workers,
  Keys,       \* creation_request_key values, one per table they are used for
  Roots,      \* the keys of conversations; the others join a parent
  Settings,   \* creation fingerprints of the payloads
  Ids,        \* bound: the row identifiers that can be drawn
  NoKey, NoSettings, NoId

ASSUME RootAssumption == Roots \subseteq Keys
ASSUME NullAssumption == NoKey \notin Keys /\ NoId \notin Ids
ASSUME ResultAssumption == {"none", "refused", "error"} \cap Ids = {}

VARIABLES
  saved,      \* the rows in the table
  made,       \* what each row was made from, kept after its deletion
  parent,     \* the experiment, or the conversation, that a row joins
  req         \* the request each worker serves

vars == <<saved, made, parent, req>>

Origin == [key: Keys \cup {NoKey}, settings: Settings \cup {NoSettings}]
Nothing == [key |-> NoKey, settings |-> NoSettings]

Steps == {"idle", "lookup", "check", "insert", "again", "answered"}
Results == Ids \cup {"none", "refused", "error"}

Request ==
  [pc: Steps, origin: Origin,
   due: Ids \cup {NoId},     \* the row its key and settings had when it came
   result: Results]

NoRequest == [pc |-> "idle", origin |-> Nothing, due |-> NoId, result |-> "none"]

TypeOK ==
  /\ saved \subseteq Ids
  /\ made \in [Ids -> Origin]
  /\ parent \in {"open", "frozen", "deleted"}
  /\ req \in [Workers -> Request]

Init ==
  /\ saved = {}
  /\ made = [i \in Ids |-> Nothing]
  /\ parent = "open"
  /\ req = [w \in Workers |-> NoRequest]

----------------------------------------------------------------------------
At(w, step) == req[w].pc = step
Goto(w, step) == req' = [req EXCEPT ![w].pc = step]
Reply(w, result) == req' = [req EXCEPT ![w].pc = "answered", ![w].result = result]

Rows(k) == {i \in saved : made[i].key = k}

Receive(w, k, s) ==
  /\ At(w, "idle")
  /\ \E due \in Ids \cup {NoId} :
       /\ IF due = NoId THEN \A i \in Rows(k) : made[i].settings # s
          ELSE due \in Rows(k) /\ made[due].settings = s
       /\ req' = [req EXCEPT ![w] =
            [pc |-> "lookup", origin |-> [key |-> k, settings |-> s], due |-> due, result |-> "none"]]
  /\ UNCHANGED <<saved, made, parent>>

\* Mutant: the row of the key is returned whatever it was made from.
AnyRowOf(w, i) == i

\* The row that holds the key, unless it was made from other settings.
RowOf(w, i) == IF made[i] = req[w].origin THEN i ELSE "refused"

\* Mutant: a request is refused as soon as nothing can be created any more.
LookupOpen(w) ==
  /\ At(w, "lookup")
  /\ IF parent = "frozen" THEN Reply(w, "refused")
     ELSE IF Rows(req[w].origin.key) = {} THEN Goto(w, "check")
     ELSE \E i \in Rows(req[w].origin.key) : Reply(w, RowOf(w, i))
  /\ UNCHANGED <<saved, made, parent>>

\* existing_creation, at the head of each handler.
Lookup(w) ==
  /\ At(w, "lookup")
  /\ IF Rows(req[w].origin.key) = {} THEN Goto(w, "check")
     ELSE \E i \in Rows(req[w].origin.key) : Reply(w, RowOf(w, i))
  /\ UNCHANGED <<saved, made, parent>>

\* What the row joins exists and may still grow; other payload errors count too.
Check(w) ==
  /\ At(w, "check")
  /\ \/ (req[w].origin.key \in Roots \/ parent = "open") /\ Goto(w, "insert")
     \/ Reply(w, "refused")
  /\ UNCHANGED <<saved, made, parent>>

\* IntegrityError: the unique constraint, or the foreign key to the parent.
InsertIsRefused(w) ==
  \/ Rows(req[w].origin.key) # {}
  \/ req[w].origin.key \notin Roots /\ parent = "deleted"

Insert(w, i) ==
  /\ At(w, "insert")
  /\ ~InsertIsRefused(w)
  /\ made[i] = Nothing
  /\ saved' = saved \cup {i}
  /\ made' = [made EXCEPT ![i] = req[w].origin]
  /\ Reply(w, i)
  /\ UNCHANGED parent

RollBack(w) ==
  /\ At(w, "insert")
  /\ InsertIsRefused(w)
  /\ Goto(w, "again")
  /\ UNCHANGED <<saved, made, parent>>

\* Mutant: the refused insert is raised.
RaiseAgain(w) ==
  /\ At(w, "again")
  /\ Reply(w, "error")
  /\ UNCHANGED <<saved, made, parent>>

\* The second existing_creation; without a row the IntegrityError is raised.
LookupAgain(w) ==
  /\ At(w, "again")
  /\ IF Rows(req[w].origin.key) = {} THEN Reply(w, "error")
     ELSE \E i \in Rows(req[w].origin.key) : Reply(w, RowOf(w, i))
  /\ UNCHANGED <<saved, made, parent>>

\* The reply is read, or lost on its way; or the process dies before it.
Finish(w) ==
  /\ ~At(w, "idle")
  /\ req' = [req EXCEPT ![w] = NoRequest]
  /\ UNCHANGED <<saved, made, parent>>

----------------------------------------------------------------------------
\* The shared suite is generated, or the experiment ends.
Freeze ==
  /\ parent = "open"
  /\ parent' = "frozen"
  /\ UNCHANGED <<saved, made, req>>

\* delete_conversation_data: a conversation, or the parent with all that joined it.
DeleteRoot(i) ==
  /\ i \in saved /\ made[i].key \in Roots
  /\ saved' = saved \ {i}
  /\ UNCHANGED <<made, parent, req>>

DeleteParent ==
  /\ parent # "deleted"
  /\ parent' = "deleted"
  /\ saved' = {i \in saved : made[i].key \in Roots}
  /\ UNCHANGED <<made, req>>

Next ==
  \/ \E w \in Workers :
       \/ \E k \in Keys, s \in Settings : Receive(w, k, s)
       \/ Lookup(w) \/ Check(w) \/ RollBack(w) \/ LookupAgain(w) \/ Finish(w)
       \/ \E i \in Ids : Insert(w, i)
  \/ Freeze \/ DeleteParent \/ \E i \in Ids : DeleteRoot(i)

Spec == Init /\ [][Next]_vars

----------------------------------------------------------------------------
\* However requests with one key race, one row is made for it at a time.
OneRowPerKey == \A i, j \in saved : made[i].key = made[j].key => i = j

\* A request that is answered with a row gets a row made from its own key and
\* settings, its own or an earlier request's, never another payload's row.
AnswerIsOwn == \A w \in Workers : req[w].result \in Ids => made[req[w].result] = req[w].origin

\* A request that repeats one whose row was saved is answered with that row, even
\* when nothing can be created any more, unless the row is deleted meanwhile.
ReplayIsAnswered ==
  \A w \in Workers : At(w, "answered") /\ req[w].due \in saved => req[w].result = req[w].due

\* The error of a refused insert reaches the client only after a deletion: two
\* requests that race never cost either of them its answer.
Deleted(k) == (k \notin Roots /\ parent = "deleted") \/ \E i \in Ids \ saved : made[i].key = k

ErrorsAreDeletions == \A w \in Workers : req[w].result = "error" => Deleted(req[w].origin.key)

=============================================================================
