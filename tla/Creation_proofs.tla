--------------------------- MODULE Creation_proofs ---------------------------
(* What repeated creation requests get, for any number of requests, keys and *)
(* rows.                                                                     *)
EXTENDS Creation, TLAPS

\* A row that is saved was made from a request, and so was the row that was there
\* when a repeated request came.
RowsHaveOrigins ==
  /\ \A i \in saved : made[i] # Nothing
  /\ \A w \in Workers : req[w].due # NoId => made[req[w].due] = req[w].origin

\* A request is past its first lookup only when the row it repeats is gone; it
\* has a result only when it is answered, and never one that is not its own.
Progress ==
  \A w \in Workers :
    /\ req[w].pc \in {"check", "insert", "again"} => req[w].due \notin saved
    /\ req[w].pc # "answered" => req[w].result = "none"
    /\ req[w].pc # "idle" => req[w].origin.key \in Keys
    /\ req[w].pc = "idle" => req[w].due = NoId

\* The inductive invariant.
CreationInv ==
  TypeOK /\ RowsHaveOrigins /\ Progress /\ OneRowPerKey /\ AnswerIsOwn /\ ReplayIsAnswered

USE DEF At, Goto, Reply, Rows

\* Nothing is saved and nobody is served at the start.
LEMMA InitInv == Init => CreationInv
BY NullAssumption, ResultAssumption
DEF Init, CreationInv, TypeOK, RowsHaveOrigins, Progress, OneRowPerKey, AnswerIsOwn, ReplayIsAnswered,
    Request, NoRequest, Origin, Nothing, Steps, Results

\* A reply with the row of the key, at either lookup: the row is the request's own
\* or it is refused; when the row it repeats is still there, it is that one.
LEMMA FoundInv ==
  ASSUME NEW w \in Workers, NEW i \in Rows(req[w].origin.key), CreationInv,
         req[w].pc \in {"lookup", "again"},
         Reply(w, RowOf(w, i)), UNCHANGED <<saved, made, parent>>
  PROVE  CreationInv'
<1> DEFINE result == RowOf(w, i)
<1>1. i \in saved /\ i \in Ids /\ made[i].key = req[w].origin.key
  BY DEF CreationInv, TypeOK
<1>2. result \in Results /\ (result \in Ids => result = i /\ made[i] = req[w].origin)
  BY <1>1, ResultAssumption DEF RowOf, Results
<1>3. req' = [req EXCEPT ![w].pc = "answered", ![w].result = result]
  OBVIOUS
<1> HIDE DEF result
<1>4. TypeOK'
  <2>1. req' \in [Workers -> Request]
    BY <1>2, <1>3 DEF CreationInv, TypeOK, Request, Steps
  <2> QED
    BY <2>1 DEF CreationInv, TypeOK
<1>5. RowsHaveOrigins' /\ OneRowPerKey'
  BY <1>3 DEF CreationInv, TypeOK, Request, RowsHaveOrigins, OneRowPerKey
<1>6. Progress'
  BY <1>3 DEF CreationInv, TypeOK, Request, Progress
<1>7. AnswerIsOwn'
  BY <1>2, <1>3 DEF CreationInv, TypeOK, Request, AnswerIsOwn
<1>8. ASSUME req[w].due \in saved PROVE result = req[w].due
  <2>1. made[req[w].due] = req[w].origin
    BY <1>8, NullAssumption DEF CreationInv, TypeOK, RowsHaveOrigins
  <2>2. req[w].due = i
    BY <1>1, <1>8, <2>1 DEF CreationInv, OneRowPerKey
  <2> QED
    BY <2>1, <2>2 DEF result, RowOf
<1>9. ReplayIsAnswered'
  BY <1>3, <1>8 DEF CreationInv, TypeOK, Request, ReplayIsAnswered
<1> QED
  BY <1>4, <1>5, <1>6, <1>7, <1>9 DEF CreationInv

\* Every step keeps the invariant.
LEMMA NextInv == CreationInv /\ [Next]_vars => CreationInv'
<1> SUFFICES ASSUME CreationInv, [Next]_vars PROVE CreationInv'
  OBVIOUS
<1> USE DEF CreationInv
<1>1. ASSUME NEW w \in Workers, NEW k \in Keys, NEW s \in Settings, Receive(w, k, s)
      PROVE  CreationInv'
  <2>1. PICK due \in Ids \cup {NoId} :
          /\ IF due = NoId THEN \A i \in Rows(k) : made[i].settings # s
             ELSE due \in Rows(k) /\ made[due].settings = s
          /\ req' = [req EXCEPT ![w] =
               [pc |-> "lookup", origin |-> [key |-> k, settings |-> s], due |-> due, result |-> "none"]]
    BY <1>1 DEF Receive
  <2>2. due # NoId => made[due] = [key |-> k, settings |-> s]
    BY <2>1 DEF TypeOK, Origin
  <2>3. TypeOK'
    BY <1>1, <2>1 DEF Receive, TypeOK, Request, Origin, Steps, Results
  <2>4. RowsHaveOrigins' /\ OneRowPerKey'
    BY <1>1, <2>1, <2>2 DEF Receive, TypeOK, RowsHaveOrigins, OneRowPerKey
  <2>5. Progress' /\ AnswerIsOwn' /\ ReplayIsAnswered'
    BY <1>1, <2>1, ResultAssumption DEF Receive, TypeOK, Progress, AnswerIsOwn, ReplayIsAnswered
  <2> QED
    BY <2>3, <2>4, <2>5
<1>2. ASSUME NEW w \in Workers, Lookup(w) PROVE CreationInv'
  <2>1. CASE Rows(req[w].origin.key) = {}
    <3>1. /\ req[w].pc = "lookup"
          /\ req' = [req EXCEPT ![w].pc = "check"] /\ UNCHANGED <<saved, made, parent>>
      BY <1>2, <2>1 DEF Lookup
    <3>2. req[w].due \notin saved
      <4> SUFFICES ASSUME req[w].due \in saved PROVE FALSE
        OBVIOUS
      <4>1. made[req[w].due] = req[w].origin
        BY NullAssumption DEF TypeOK, RowsHaveOrigins
      <4> QED
        BY <2>1, <4>1
    <3> QED
      <4>1. TypeOK'
        BY <3>1 DEF TypeOK, Request, Steps
      <4>2. RowsHaveOrigins' /\ OneRowPerKey'
        BY <3>1 DEF TypeOK, Request, RowsHaveOrigins, OneRowPerKey
      <4>3. Progress'
        BY <3>1, <3>2 DEF TypeOK, Request, Progress
      <4>4. AnswerIsOwn' /\ ReplayIsAnswered'
        BY <3>1 DEF TypeOK, Request, AnswerIsOwn, ReplayIsAnswered
      <4> QED
        BY <4>1, <4>2, <4>3, <4>4
  <2>2. CASE Rows(req[w].origin.key) # {}
    BY <1>2, <2>2, FoundInv DEF Lookup
  <2> QED
    BY <2>1, <2>2
<1>3. ASSUME NEW w \in Workers, Check(w) PROVE CreationInv'
  BY <1>3, ResultAssumption
  DEF Check, TypeOK, Request, Steps, Results, RowsHaveOrigins, Progress, OneRowPerKey, AnswerIsOwn, ReplayIsAnswered
<1>4. ASSUME NEW w \in Workers, RollBack(w) PROVE CreationInv'
  BY <1>4
  DEF RollBack, TypeOK, Request, Steps, RowsHaveOrigins, Progress, OneRowPerKey, AnswerIsOwn, ReplayIsAnswered
<1>5. ASSUME NEW w \in Workers, LookupAgain(w) PROVE CreationInv'
  <2>1. CASE Rows(req[w].origin.key) = {}
    <3>1. /\ req[w].pc = "again"
          /\ req' = [req EXCEPT ![w].pc = "answered", ![w].result = "error"]
          /\ UNCHANGED <<saved, made, parent>>
      BY <1>5, <2>1 DEF LookupAgain
    <3> QED
      <4>1. TypeOK'
        BY <3>1 DEF TypeOK, Request, Steps, Results
      <4>2. RowsHaveOrigins' /\ OneRowPerKey'
        BY <3>1 DEF TypeOK, Request, RowsHaveOrigins, OneRowPerKey
      <4>3. Progress'
        BY <3>1 DEF TypeOK, Request, Progress
      <4>4. AnswerIsOwn'
        BY <3>1, ResultAssumption DEF TypeOK, Request, AnswerIsOwn
      <4>5. ReplayIsAnswered'
        BY <3>1 DEF TypeOK, Request, Progress, ReplayIsAnswered
      <4> QED
        BY <4>1, <4>2, <4>3, <4>4, <4>5
  <2>2. CASE Rows(req[w].origin.key) # {}
    BY <1>5, <2>2, FoundInv DEF LookupAgain
  <2> QED
    BY <2>1, <2>2
<1>6. ASSUME NEW w \in Workers, NEW i \in Ids, Insert(w, i) PROVE CreationInv'
  <2>1. /\ req' = [req EXCEPT ![w].pc = "answered", ![w].result = i]
        /\ made' = [made EXCEPT ![i] = req[w].origin]
        /\ saved' = saved \cup {i}
        /\ made[i] = Nothing /\ i \notin saved
        /\ req[w].pc = "insert"
    BY <1>6 DEF Insert, RowsHaveOrigins
  <2>2. \A j \in saved : made[j].key # req[w].origin.key
    BY <1>6 DEF Insert, InsertIsRefused
  <2>3. req[w].origin \in Origin /\ req[w].origin # Nothing
    BY <1>6, NullAssumption DEF Insert, TypeOK, Request, Progress, Nothing
  <2>4. \A v \in Workers : req[v].due # i
    <3> SUFFICES ASSUME NEW v \in Workers, req[v].due = i PROVE FALSE
      OBVIOUS
    <3>1. made[i] = req[v].origin /\ req[v].origin = Nothing
      BY <2>1, NullAssumption DEF RowsHaveOrigins
    <3>2. req[v].pc = "idle"
      BY <3>1, NullAssumption DEF Progress, Nothing
    <3> QED
      BY <3>2, NullAssumption DEF Progress
  <2>5. /\ \A v \in Workers : req'[v].due = req[v].due /\ req'[v].origin = req[v].origin
        /\ \A v \in Workers \ {w} : req'[v] = req[v]
        /\ req'[w].pc = "answered" /\ req'[w].result = i
    BY <2>1 DEF TypeOK, Request
  <2>6. TypeOK'
    <3>1. req' \in [Workers -> Request]
      BY <2>1 DEF TypeOK, Request, Steps, Results
    <3>2. made' \in [Ids -> Origin]
      BY <2>1, <2>3 DEF TypeOK
    <3> QED
      BY <1>6, <2>1, <3>1, <3>2 DEF Insert, TypeOK
  <2>7. RowsHaveOrigins'
    BY <2>1, <2>3, <2>4 DEF TypeOK, Request, RowsHaveOrigins
  <2>8. Progress'
    BY <2>1, <2>4, <2>5 DEF TypeOK, Request, Progress
  <2>9. OneRowPerKey'
    BY <2>1, <2>2 DEF TypeOK, OneRowPerKey
  <2>10. AnswerIsOwn'
    BY <2>1 DEF TypeOK, Request, AnswerIsOwn
  <2>11. ReplayIsAnswered'
    BY <1>6, <2>1, <2>4 DEF Insert, TypeOK, Request, Progress, ReplayIsAnswered
  <2> QED
    BY <2>6, <2>7, <2>8, <2>9, <2>10, <2>11
<1>7. ASSUME NEW w \in Workers, Finish(w) PROVE CreationInv'
  BY <1>7, NullAssumption, ResultAssumption
  DEF Finish, NoRequest, Nothing, Origin, TypeOK, Request, Steps, Results, RowsHaveOrigins, Progress,
      OneRowPerKey, AnswerIsOwn, ReplayIsAnswered
<1>8. CASE Freeze
  BY <1>8 DEF Freeze, TypeOK, RowsHaveOrigins, Progress, OneRowPerKey, AnswerIsOwn, ReplayIsAnswered
<1>9. CASE DeleteParent
  BY <1>9 DEF DeleteParent, TypeOK, RowsHaveOrigins, Progress, OneRowPerKey, AnswerIsOwn, ReplayIsAnswered
<1>10. ASSUME NEW i \in Ids, DeleteRoot(i) PROVE CreationInv'
  BY <1>10 DEF DeleteRoot, TypeOK, RowsHaveOrigins, Progress, OneRowPerKey, AnswerIsOwn, ReplayIsAnswered
<1>11. CASE UNCHANGED vars
  BY <1>11 DEF vars, TypeOK, RowsHaveOrigins, Progress, OneRowPerKey, AnswerIsOwn, ReplayIsAnswered
<1> QED
  BY <1>1, <1>2, <1>3, <1>4, <1>5, <1>6, <1>7, <1>8, <1>9, <1>10, <1>11 DEF Next

\* The invariant holds in every reachable state.
THEOREM CreationInvariant == Spec => []CreationInv
BY InitInv, NextInv, PTL DEF Spec

\* Every variable keeps its type.
THEOREM TypeCorrect == Spec => []TypeOK
BY CreationInvariant, PTL DEF CreationInv

\* Requests with one key never leave two rows of it.
THEOREM RowsAreUnique == Spec => []OneRowPerKey
BY CreationInvariant, PTL DEF CreationInv

\* No request is answered with a row of another key or other settings.
THEOREM AnswersAreOwn == Spec => []AnswerIsOwn
BY CreationInvariant, PTL DEF CreationInv

\* A repeated request finds the row of the first, unless it was deleted.
THEOREM RepeatsAreAnswered == Spec => []ReplayIsAnswered
BY CreationInvariant, PTL DEF CreationInv

----------------------------------------------------------------------------
\* A request whose insert was refused met a row of its key, or its parent was
\* gone; the row may have been deleted since.
RefusedInsert == \A w \in Workers : req[w].pc = "again" =>
  Rows(req[w].origin.key) # {} \/ Deleted(req[w].origin.key)

FailureInv == CreationInv /\ RefusedInsert /\ ErrorsAreDeletions

\* No insert is refused and no error is raised at the start.
LEMMA InitFailure == Init => FailureInv
BY InitInv DEF Init, FailureInv, RefusedInsert, ErrorsAreDeletions, NoRequest

\* What was deleted stays deleted, and a row of a key is there until then.
LEMMA KeysStayKnown ==
  ASSUME CreationInv, [Next]_vars, NEW k \in Keys
  PROVE  /\ Deleted(k) => Deleted(k)'
         /\ Rows(k) # {} => Rows(k)' # {} \/ Deleted(k)'
<1>1. \A i \in Ids : made[i].key = k => made'[i] = made[i] /\ (i \notin saved => i \notin saved')
  <2>1. CASE \E w \in Workers, i \in Ids : Insert(w, i)
    BY <2>1, NullAssumption DEF Insert, CreationInv, TypeOK, Nothing
  <2>2. CASE UNCHANGED made /\ saved' \subseteq saved
    BY <2>2
  <2> QED
    BY <2>1, <2>2 DEF Next, vars, Receive, Lookup, Check, RollBack, LookupAgain, Finish, Freeze,
                      DeleteParent, DeleteRoot
<1>2. parent = "deleted" => parent' = "deleted"
  BY DEF Next, vars, Receive, Lookup, Check, RollBack, LookupAgain, Finish, Freeze, Insert,
         DeleteParent, DeleteRoot
<1> QED
  BY <1>1, <1>2 DEF Deleted, CreationInv, TypeOK

\* Every step keeps the invariant.
LEMMA NextFailure == FailureInv /\ [Next]_vars => FailureInv'
<1> SUFFICES ASSUME FailureInv, [Next]_vars PROVE FailureInv'
  OBVIOUS
<1>1. CreationInv /\ CreationInv'
  BY NextInv DEF FailureInv
<1>2. SUFFICES ASSUME NEW w \in Workers, NEW k, k = req'[w].origin.key
               PROVE  /\ req'[w].pc = "again" => Rows(k)' # {} \/ Deleted(k)'
                      /\ req'[w].result = "error" => Deleted(k)'
  BY <1>1 DEF FailureInv, RefusedInsert, ErrorsAreDeletions, Deleted
<1>3. CASE req'[w] = req[w]
  <2>1. req[w].pc = "again" \/ req[w].result = "error" => k \in Keys
    BY <1>1, <1>2, <1>3 DEF CreationInv, Progress
  <2>2. /\ req[w].pc = "again" => Rows(k) # {} \/ Deleted(k)
        /\ req[w].result = "error" => Deleted(k)
    BY <1>2, <1>3 DEF FailureInv, RefusedInsert, ErrorsAreDeletions
  <2> QED
    BY <1>1, <1>3, <2>1, <2>2, KeysStayKnown
<1>4. CASE RollBack(w)
  <2>1. req'[w].origin = req[w].origin /\ req'[w].result = "none" /\ UNCHANGED <<saved, made, parent>>
    BY <1>1, <1>4 DEF RollBack, CreationInv, TypeOK, Request, Progress
  <2> QED
    BY <1>2, <1>4, <2>1 DEF RollBack, InsertIsRefused, Deleted
<1>5. CASE LookupAgain(w)
  <2>1. req'[w].origin = req[w].origin /\ req'[w].pc = "answered" /\ UNCHANGED <<saved, made, parent>>
    BY <1>1, <1>5 DEF LookupAgain, CreationInv, TypeOK, Request
  <2>2. req'[w].result = "error" => Rows(k) = {}
    BY <1>1, <1>2, <1>5, <2>1, ResultAssumption DEF LookupAgain, RowOf, CreationInv, TypeOK, Request
  <2>3. Rows(k) = {} => Deleted(k)
    BY <1>2, <1>5, <2>1 DEF LookupAgain, FailureInv, RefusedInsert
  <2> QED
    BY <2>1, <2>2, <2>3 DEF Deleted
<1>6. CASE req'[w].pc # "again" /\ req'[w].result # "error"
  BY <1>6
<1>7. req'[w] = req[w] \/ RollBack(w) \/ LookupAgain(w) \/ (req'[w].pc # "again" /\ req'[w].result # "error")
  <2>1. /\ req \in [Workers -> Request]
        /\ made \in [Ids -> Origin]
        /\ req[w].pc # "answered" => req[w].result = "none"
        /\ \A i \in Ids : i # "error"
    BY <1>1, ResultAssumption DEF CreationInv, TypeOK, Progress
  <2>2. \A i : RowOf(w, i) # "error" \/ RowOf(w, i) = i
    BY DEF RowOf
  <2>3. \A i \in Rows(req[w].origin.key) : RowOf(w, i) # "error"
    BY <1>1, <2>1, <2>2 DEF Rows, CreationInv, TypeOK
  <2>4. ASSUME NEW kk \in Keys, NEW s \in Settings, Receive(w, kk, s)
        PROVE  req'[w].pc # "again" /\ req'[w].result # "error"
    BY <2>1, <2>4 DEF Receive
  <2>5. CASE Lookup(w)
    BY <2>1, <2>3, <2>5 DEF Lookup, At, Goto, Reply, Request
  <2>6. CASE Check(w)
    BY <2>1, <2>6 DEF Check, At, Goto, Reply, Request
  <2>7. CASE Finish(w)
    BY <2>1, <2>7 DEF Finish, NoRequest
  <2>8. ASSUME NEW i \in Ids, Insert(w, i) PROVE req'[w].pc # "again" /\ req'[w].result # "error"
    BY <2>1, <2>8 DEF Insert, At, Reply, Request
  <2>9. ASSUME NEW v \in Workers, v # w,
               \/ \E kk \in Keys, s \in Settings : Receive(v, kk, s)
               \/ Lookup(v) \/ Check(v) \/ RollBack(v) \/ LookupAgain(v) \/ Finish(v)
               \/ \E i \in Ids : Insert(v, i)
        PROVE  req'[w] = req[w]
    BY <2>1, <2>9 DEF Receive, Lookup, Check, RollBack, LookupAgain, Finish, Insert, Goto, Reply
  <2>10. CASE UNCHANGED req
    BY <2>10
  <2> QED
    BY <2>4, <2>5, <2>6, <2>7, <2>8, <2>9, <2>10 DEF Next, vars, Freeze, DeleteParent, DeleteRoot
<1> QED
  BY <1>3, <1>4, <1>5, <1>6, <1>7

\* Racing requests alone never make a client see the error of an insert.
THEOREM ErrorsNeedDeletions == Spec => []ErrorsAreDeletions
BY InitFailure, NextFailure, PTL DEF Spec, FailureInv

=============================================================================
