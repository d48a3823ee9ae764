-------------------------- MODULE RecordingsProofs --------------------------
(***************************************************************************)
(* Theorems about Recordings, for any number of rooms, keys, egresses,     *)
(* rows and concurrent requests, with and without failures.                *)
(***************************************************************************)
EXTENDS Recordings, TLAPS

USE KeysAssumption, FaultsAssumption

LEMMA StopShape ==
  ASSUME NEW x \in Stop \cup {Idle}, x # Idle
  PROVE  /\ x.take \in Takes /\ x.key \in Keys /\ x.status \in Status
         /\ x.live \in SUBSET Takes
         /\ x \in Stop
BY SMT DEF Stop, Idle

LEMMA SyncShape ==
  ASSUME NEW x \in Sync \cup {Idle}, x.pc # "idle"
  PROVE  /\ x.due \in SUBSET Keys /\ x.seen \in SUBSET Keys
         /\ x.pc = "create" => x.key \in Keys
BY SMT DEF Sync, Idle

LEMMA RenameShape ==
  ASSUME NEW x \in Rename \cup {Idle}, x # Idle
  PROVE  x.id \in Ids /\ x.link \in Keys /\ x.pc = "save"
BY SMT DEF Rename, Idle

LEMMA AfterIsStatus == \A t \in Takes: After(t) \subseteq Status
BY SMT DEF After, Status, Live, Final, Over

LEMMA EgressShape ==
  ASSUME NEW x \in Egress \cup {NoEgress}, x.status # "none"
  PROVE  x \in Egress
BY SMT DEF Egress, NoEgress

\* Setting the status of an egress that exists keeps the table of egresses typed.
LEMMA StatusSet ==
  ASSUME TypeOK, NEW t \in Takes, egress[t].status # "none", NEW status \in Status,
         egress' = [egress EXCEPT ![t].status = status]
  PROVE  egress' \in [Takes -> Egress \cup {NoEgress}]
<1>1. egress[t] \in Egress
  BY EgressShape DEF TypeOK
<1>2. [egress[t] EXCEPT !.status = status] \in Egress
  BY <1>1, SMT DEF Egress
<1> QED
  BY <1>2 DEF TypeOK

LEMMA CreateType ==
  ASSUME TypeOK, NEW k \in Keys, Create(k)
  PROVE  records' \in [Ids -> Keys \cup {None}]
BY SMT DEF TypeOK, Create

LEMMA TypeStep == TypeOK /\ [Next]_vars => TypeOK'
<1> SUFFICES ASSUME TypeOK, [Next]_vars PROVE TypeOK'
  OBVIOUS
<1>1. ASSUME NEW t \in Takes, NEW r \in Rooms, NEW prefix \in Keys \cup {NoPrefix},
             StartRecording(t, r, prefix)
      PROVE  TypeOK'
  <2>1. PlaylistKey(r, prefix) \in Keys
    BY DEF PlaylistKey
  <2> QED
    BY <1>1, <2>1, SMT DEF StartRecording, TypeOK, Egress, Status, Live
<1>2. ASSUME NEW t \in Takes, EgressMoves(t) PROVE TypeOK'
  <2>1. PICK status \in After(t): egress' = [egress EXCEPT ![t].status = status]
    BY <1>2 DEF EgressMoves
  <2>2. egress[t].status # "none"
    BY <2>1, SMT DEF After
  <2>3. egress' \in [Takes -> Egress \cup {NoEgress}]
    BY <2>1, <2>2, AfterIsStatus, StatusSet
  <2> QED
    BY <1>2, <2>3 DEF EgressMoves, TypeOK
<1>3. ASSUME NEW t \in Takes, Upload(t) PROVE TypeOK'
  BY <1>3, EgressShape, SMT DEF Upload, TypeOK, Egress
<1>4. ASSUME NEW t \in Takes, Forget(t) PROVE TypeOK'
  BY <1>4, SMT DEF Forget, TypeOK
<1>5. ASSUME NEW i \in Ids, DeleteRecord(i) PROVE TypeOK'
  BY <1>5, SMT DEF DeleteRecord, TypeOK
<1>6. ASSUME NEW i \in Ids, NEW n \in Renames, RenameRead(n, i) PROVE TypeOK'
  BY <1>6, SMT DEF RenameRead, TypeOK, Rename
<1>7. ASSUME NEW n \in Renames, RenameSave(n) PROVE TypeOK'
  BY <1>7, RenameShape, SMT DEF RenameSave, TypeOK
<1>8. ASSUME NEW s \in Stops, NEW r \in Rooms, StopList(s, r) PROVE TypeOK'
  <2>1. PICK t \in IF LiveIn(r) # {} THEN LiveIn(r) ELSE Listed(r):
          stop' = [stop EXCEPT ![s] =
            [pc |-> IF egress[t].status \in Final THEN "answer" ELSE "stop",
             take |-> t, key |-> egress[t].key, status |-> egress[t].status, live |-> LiveIn(r)]]
    BY <1>8 DEF StopList
  <2>2. t \in Takes /\ egress[t] # NoEgress /\ LiveIn(r) \in SUBSET Takes
    BY <2>1, SMT DEF LiveIn, Listed
  <2>3. egress[t].key \in Keys /\ egress[t].status \in Status
    BY <2>2, SMT DEF TypeOK, Egress
  <2>4. stop'[s] \in Stop
    BY <2>1, <2>2, <2>3, SMT DEF TypeOK, Stop
  <2> QED
    BY <1>8, <2>1, <2>4, SMT DEF StopList, TypeOK
<1>9. ASSUME NEW s \in Stops, StopCall(s) PROVE TypeOK'
  <2>1. stop[s].pc = "stop"
    BY <1>9 DEF StopCall
  <2>2. stop[s] \in Stop
    BY <2>1, StopShape DEF TypeOK, Idle
  <2>3. PICK t \in Takes: t = stop[s].take
    BY <2>2 DEF Stop
  <2>4. \A key \in Keys, status \in Status: Answer(s, key, status) \in Stop
    BY <2>2, SMT DEF Stop, Answer
  <2>5. ASSUME NEW status \in {"ending"} \cup (After(t) \ Live),
               egress[t].status \in Live,
               egress' = [egress EXCEPT ![t].status = status],
               stop' = [stop EXCEPT ![s] = Answer(s, egress[t].key, status)]
        PROVE  TypeOK'
    <3>1. status \in Status /\ egress[t].status # "none"
      BY <2>5, AfterIsStatus, SMT DEF Status, Final, Over, Live
    <3>2. egress' \in [Takes -> Egress \cup {NoEgress}]
      BY <2>5, <3>1, StatusSet
    <3>3. egress[t].key \in Keys
      BY <3>1, EgressShape, SMT DEF TypeOK, Egress
    <3>4. stop' \in [Stops -> Stop \cup {Idle}]
      BY <2>4, <2>5, <3>1, <3>3 DEF TypeOK
    <3> QED
      BY <1>9, <3>2, <3>4 DEF StopCall, TypeOK
  <2>6. CASE stop' = [stop EXCEPT ![s] = Answer(s, stop[s].key, stop[s].status)] /\ UNCHANGED egress
    <3>1. stop[s].key \in Keys /\ stop[s].status \in Status
      BY <2>2 DEF Stop
    <3>2. stop' \in [Stops -> Stop \cup {Idle}]
      BY <2>4, <2>6, <3>1 DEF TypeOK
    <3> QED
      BY <1>9, <2>6, <3>2 DEF StopCall, TypeOK
  <2>7. CASE stop' = [stop EXCEPT ![s] = Idle] /\ UNCHANGED egress
    BY <1>9, <2>7 DEF StopCall, TypeOK
  <2> QED
    BY <1>9, <2>3, <2>5, <2>6, <2>7 DEF StopCall
<1>10. ASSUME NEW s \in Stops, StopAnswer(s) PROVE TypeOK'
  <2>1. stop[s].key \in Keys
    BY <1>10, StopShape DEF StopAnswer, TypeOK, Idle
  <2>2. records' \in [Ids -> Keys \cup {None}]
    BY <1>10, <2>1, CreateType DEF StopAnswer, TypeOK
  <2> QED
    BY <1>10, <2>2 DEF StopAnswer, TypeOK
<1>11. ASSUME NEW y \in Syncs, SyncBegin(y) PROVE TypeOK'
  BY <1>11, SMT DEF SyncBegin, TypeOK, Sync
<1>12. ASSUME NEW y \in Syncs, NEW k \in Keys, SyncCheck(y, k) PROVE TypeOK'
  <2>1. sync[y] \in [pc: {"next"}, due: SUBSET Keys, seen: SUBSET Keys]
    BY <1>12, SMT DEF SyncCheck, TypeOK, Sync, Idle
  <2>2. sync' \in [Syncs -> Sync \cup {Idle}]
    BY <1>12, <2>1, SMT DEF SyncCheck, TypeOK, Sync
  <2> QED
    BY <1>12, <2>2 DEF SyncCheck, TypeOK
<1>13. ASSUME NEW y \in Syncs, SyncCreate(y) PROVE TypeOK'
  <2>1. sync[y].key \in Keys /\ sync[y].due \in SUBSET Keys /\ sync[y].seen \in SUBSET Keys
    BY <1>13, SyncShape DEF SyncCreate, TypeOK
  <2>2. records' \in [Ids -> Keys \cup {None}]
    BY <1>13, <2>1, CreateType DEF SyncCreate, TypeOK
  <2>3. sync' \in [Syncs -> Sync \cup {Idle}]
    BY <1>13, <2>1, SMT DEF SyncCreate, TypeOK, Sync
  <2> QED
    BY <1>13, <2>2, <2>3 DEF SyncCreate, TypeOK
<1>14. ASSUME NEW y \in Syncs, SyncEnd(y) PROVE TypeOK'
  BY <1>14, SMT DEF SyncEnd, TypeOK
<1>15. CASE Crash
  BY <1>15, SMT DEF Crash, TypeOK
<1>16. CASE UNCHANGED vars
  BY <1>16 DEF vars, TypeOK
<1> QED
  BY <1>1, <1>2, <1>3, <1>4, <1>5, <1>6, <1>7, <1>8, <1>9, <1>10, <1>11, <1>12, <1>13,
     <1>14, <1>15, <1>16
     DEF Next, SyncStep

\* Every variable keeps its type.
THEOREM RecordingsTypeCorrect == Spec => []TypeOK
<1>1. Init => TypeOK
  BY SMT DEF Init, TypeOK
<1> QED
  BY <1>1, TypeStep, PTL DEF Spec

-----------------------------------------------------------------------------
(* Records point to storage *)

\* A row that is new, or changed, by the creation of a record has its link.
LEMMA CreateLinks ==
  ASSUME TypeOK, NEW k \in Keys, Create(k), NEW i \in Ids
  PROVE  records'[i] \in {records[i], k}
BY SMT DEF TypeOK, Create

\* The bucket only grows, and records are left alone or get links of it.
LEMMA StorageStep == TypeOK /\ StorageInv /\ [Next]_vars => StorageInv'
<1> SUFFICES ASSUME TypeOK, StorageInv, [Next]_vars PROVE StorageInv'
  OBVIOUS
<1> USE DEF StorageInv, RecordsPointToStorage, RemembersStorage
<1>1. ASSUME NEW t \in Takes, NEW r \in Rooms, NEW prefix \in Keys \cup {NoPrefix},
             StartRecording(t, r, prefix)
      PROVE  StorageInv'
  <2>1. \A u \in Takes: egress'[u].status = "complete" => egress'[u] = egress[u]
    BY <1>1, SMT DEF StartRecording, TypeOK
  <2> QED
    BY <1>1, <2>1 DEF StartRecording
<1>2. ASSUME NEW t \in Takes, EgressMoves(t) PROVE StorageInv'
  <2>1. PICK status \in After(t): egress' = [egress EXCEPT ![t].status = status]
    BY <1>2 DEF EgressMoves
  <2>2. status = "complete" => egress[t].key \in bucket
    BY <2>1, SMT DEF After
  <2>3. \A u \in Takes: egress'[u].status = "complete" => egress'[u].key \in bucket
    <3>1. \A u \in Takes: u # t => egress'[u] = egress[u]
      BY <2>1 DEF TypeOK
    <3>2. egress'[t] = [egress[t] EXCEPT !.status = status]
      BY <2>1 DEF TypeOK
    <3>3. egress[t] \in Egress
      BY <2>1, SMT DEF After, TypeOK, NoEgress
    <3>4. egress'[t].status = status /\ egress'[t].key = egress[t].key
      BY <3>2, <3>3, SMT DEF Egress
    <3> QED
      BY <2>2, <3>1, <3>4
  <2> QED
    BY <1>2, <2>3 DEF EgressMoves
<1>3. ASSUME NEW t \in Takes, Upload(t) PROVE StorageInv'
  BY <1>3 DEF Upload
<1>4. ASSUME NEW t \in Takes, Forget(t) PROVE StorageInv'
  BY <1>4, SMT DEF Forget, TypeOK, NoEgress
<1>5. ASSUME NEW i \in Ids, DeleteRecord(i) PROVE StorageInv'
  BY <1>5, SMT DEF DeleteRecord, TypeOK
<1>6. ASSUME NEW i \in Ids, NEW n \in Renames, RenameRead(n, i) PROVE StorageInv'
  BY <1>6, SMT DEF RenameRead, TypeOK
<1>7. ASSUME NEW n \in Renames, RenameSave(n) PROVE StorageInv'
  <2>1. rename[n].pc = "save" /\ rename[n].link \in bucket
    BY <1>7, RenameShape DEF RenameSave, TypeOK
  <2>2. \A i \in Ids: records'[i] \in {records[i], rename[n].link}
    BY <1>7, SMT DEF RenameSave, TypeOK
  <2>3. \A m \in Renames: rename'[m].pc = "save" => rename'[m] = rename[m]
    BY <1>7, SMT DEF RenameSave, TypeOK, Idle
  <2> QED
    BY <1>7, <2>1, <2>2, <2>3 DEF RenameSave
<1>8. ASSUME NEW s \in Stops, NEW r \in Rooms, StopList(s, r) PROVE StorageInv'
  <2>1. PICK t \in IF LiveIn(r) # {} THEN LiveIn(r) ELSE Listed(r):
          stop' = [stop EXCEPT ![s] =
            [pc |-> IF egress[t].status \in Final THEN "answer" ELSE "stop",
             take |-> t, key |-> egress[t].key, status |-> egress[t].status, live |-> LiveIn(r)]]
    BY <1>8 DEF StopList
  <2>2. t \in Takes
    BY <2>1, SMT DEF LiveIn, Listed
  <2>3. /\ stop'[s].status = egress[t].status /\ stop'[s].key = egress[t].key
        /\ stop'[s].pc = "stop" => egress[t].status \notin Final
    BY <2>1, SMT DEF TypeOK
  <2>4. \A p \in Stops: p # s => stop'[p] = stop[p]
    BY <2>1 DEF TypeOK
  <2> QED
    BY <1>8, <2>2, <2>3, <2>4, SMT DEF StopList, Final
<1>9. ASSUME NEW s \in Stops, StopCall(s) PROVE StorageInv'
  <2>1. stop[s].pc = "stop" /\ stop[s].status # "complete"
    BY <1>9 DEF StopCall
  <2>2. stop[s] \in Stop
    BY <2>1, StopShape DEF TypeOK, Idle
  <2>3. PICK t \in Takes: t = stop[s].take
    BY <2>2 DEF Stop
  <2>4. ASSUME NEW key, NEW status, stop' = [stop EXCEPT ![s] = Answer(s, key, status)]
        PROVE  /\ \A p \in Stops: p # s => stop'[p] = stop[p]
               /\ stop'[s].pc = "answer" /\ stop'[s].key = key /\ stop'[s].status = status
    BY <2>4 DEF TypeOK, Answer
  <2>5. ASSUME NEW status \in {"ending"} \cup (After(t) \ Live),
               egress[t].status \in Live,
               egress' = [egress EXCEPT ![t].status = status],
               stop' = [stop EXCEPT ![s] = Answer(s, egress[t].key, status)]
        PROVE  StorageInv'
    <3>1. status = "complete" => egress[t].key \in bucket
      BY <2>5, SMT DEF After
    <3>2. egress[t] \in Egress
      BY <2>5, SMT DEF TypeOK, NoEgress, Live
    <3>3. \A u \in Takes: u # t => egress'[u] = egress[u]
      BY <2>5 DEF TypeOK
    <3>4. egress'[t] = [egress[t] EXCEPT !.status = status]
      BY <2>5 DEF TypeOK
    <3>5. egress'[t].status = status /\ egress'[t].key = egress[t].key
      BY <3>2, <3>4, SMT DEF Egress
    <3>6. \A u \in Takes: egress'[u].status = "complete" => egress'[u].key \in bucket
      BY <3>1, <3>3, <3>5
    <3>7. /\ \A p \in Stops: p # s => stop'[p] = stop[p]
          /\ stop'[s].pc = "answer" /\ stop'[s].key = egress[t].key /\ stop'[s].status = status
      BY <2>4, <2>5
    <3> QED
      BY <1>9, <3>1, <3>6, <3>7 DEF StopCall
  <2>6. CASE stop' = [stop EXCEPT ![s] = Answer(s, stop[s].key, stop[s].status)] /\ UNCHANGED egress
    <3>1. /\ \A p \in Stops: p # s => stop'[p] = stop[p]
          /\ stop'[s].pc = "answer" /\ stop'[s].status = stop[s].status
      BY <2>4, <2>6
    <3> QED
      BY <1>9, <2>1, <2>6, <3>1 DEF StopCall
  <2>7. CASE stop' = [stop EXCEPT ![s] = Idle] /\ UNCHANGED egress
    <3>1. stop'[s].pc = "idle" /\ \A p \in Stops: p # s => stop'[p] = stop[p]
      BY <2>7 DEF TypeOK, Idle
    <3> QED
      BY <1>9, <2>7, <3>1 DEF StopCall
  <2> QED
    BY <1>9, <2>3, <2>5, <2>6, <2>7 DEF StopCall
<1>10. ASSUME NEW s \in Stops, StopAnswer(s) PROVE StorageInv'
  <2>1. stop[s].key \in Keys
    BY <1>10, StopShape DEF StopAnswer, TypeOK, Idle
  <2>2. \A i \in Ids: records'[i] = records[i] \/ records'[i] \in bucket
    BY <1>10, <2>1, CreateLinks DEF StopAnswer
  <2>3. \A p \in Stops: stop'[p].pc \in {"stop", "answer"} => stop'[p] = stop[p]
    BY <1>10, SMT DEF StopAnswer, TypeOK, Idle
  <2> QED
    BY <1>10, <2>2, <2>3 DEF StopAnswer
<1>11. ASSUME NEW y \in Syncs, SyncBegin(y) PROVE StorageInv'
  BY <1>11, SMT DEF SyncBegin, TypeOK
<1>12. ASSUME NEW y \in Syncs, NEW k \in Keys, SyncCheck(y, k) PROVE StorageInv'
  <2>1. sync[y].pc = "next" /\ k \in bucket
    BY <1>12 DEF SyncCheck
  <2>2. CASE sync' = [sync EXCEPT ![y] = [pc |-> "create", due |-> sync[y].due,
                                           seen |-> sync[y].seen \cup {k}, key |-> k]]
    BY <1>12, <2>1, <2>2 DEF SyncCheck, TypeOK
  <2>3. CASE sync' = [sync EXCEPT ![y].seen = sync[y].seen \cup {k}]
    <3>1. sync'[y].pc = "next"
      BY <2>1, <2>3, SMT DEF TypeOK
    <3>2. \A z \in Syncs: z # y => sync'[z] = sync[z]
      BY <2>3 DEF TypeOK
    <3> QED
      BY <1>12, <3>1, <3>2 DEF SyncCheck
  <2> QED
    BY <1>12, <2>2, <2>3 DEF SyncCheck
<1>13. ASSUME NEW y \in Syncs, SyncCreate(y) PROVE StorageInv'
  <2>1. sync[y].key \in Keys
    BY <1>13, SyncShape DEF SyncCreate, TypeOK
  <2>2. \A i \in Ids: records'[i] = records[i] \/ records'[i] \in bucket
    BY <1>13, <2>1, CreateLinks DEF SyncCreate
  <2>3. \A p \in Syncs: sync'[p].pc = "create" => sync'[p] = sync[p]
    BY <1>13, SMT DEF SyncCreate, TypeOK
  <2> QED
    BY <1>13, <2>2, <2>3 DEF SyncCreate
<1>14. ASSUME NEW y \in Syncs, SyncEnd(y) PROVE StorageInv'
  BY <1>14, SMT DEF SyncEnd, TypeOK, Idle
<1>15. CASE Crash
  BY <1>15, SMT DEF Crash, Idle
<1>16. CASE UNCHANGED vars
  BY <1>16 DEF vars
<1> QED
  BY <1>1, <1>2, <1>3, <1>4, <1>5, <1>6, <1>7, <1>8, <1>9, <1>10, <1>11, <1>12, <1>13,
     <1>14, <1>15, <1>16
     DEF Next, SyncStep

\* In every behaviour every row of the table leads to a stored playlist.
THEOREM AlwaysStorage == Spec => []StorageInv
<1>1. Init => StorageInv
  BY SMT DEF Init, StorageInv, RecordsPointToStorage, RemembersStorage, NoEgress, Idle
<1> QED
  BY <1>1, TypeStep, StorageStep, RecordingsTypeCorrect, PTL DEF Spec

-----------------------------------------------------------------------------
(* A stop request makes progress *)

\* The egress a stop request picked stays on LiveKit's list while it is held, is
\* one of the live ones if there were any, and is over when the answer is given.
HoldsTake(s) ==
  stop[s] # Idle =>
    /\ egress[stop[s].take].status # "none"
    /\ stop[s].live # {} => stop[s].take \in stop[s].live
    /\ stop[s].pc = "answer" /\ stop[s].live # {} => egress[stop[s].take].status \notin Live

\* An egress that some request holds is not forgotten, and never starts again.
LEMMA HeldEgress ==
  ASSUME TypeOK, [Next]_vars, NEW t \in Takes, egress[t].status # "none",
         NEW s \in Stops, stop[s] # Idle, stop[s].take = t
  PROVE  /\ egress'[t].status # "none"
         /\ egress[t].status \notin Live => egress'[t].status \notin Live
<1>1. ASSUME NEW u \in Takes, NEW r \in Rooms, NEW prefix \in Keys \cup {NoPrefix},
             StartRecording(u, r, prefix)
      PROVE  egress'[t] = egress[t]
  BY <1>1, SMT DEF StartRecording, TypeOK, NoEgress
<1>2. ASSUME NEW u \in Takes, NEW status, egress' = [egress EXCEPT ![u].status = status],
             egress[u].status # "none",
             status \in Status, egress[u].status \notin Live => status \notin Live
      PROVE  /\ egress'[t].status # "none"
             /\ egress[t].status \notin Live => egress'[t].status \notin Live
  <2>1. CASE u # t
    BY <1>2, <2>1 DEF TypeOK
  <2>2. CASE u = t
    <3>1. egress[t] \in Egress
      BY EgressShape DEF TypeOK
    <3>2. egress'[t] = [egress[t] EXCEPT !.status = status]
      BY <1>2, <2>2 DEF TypeOK
    <3>3. egress'[t].status = status
      BY <3>1, <3>2, SMT DEF Egress
    <3> QED
      BY <1>2, <2>2, <3>3, SMT DEF Status, Live, Final, Over
  <2> QED
    BY <2>1, <2>2
<1>3. \A u \in Takes: \A status \in After(u):
        /\ status \in Status /\ egress[u].status # "none"
        /\ egress[u].status \notin Live => status \notin Live
  BY SMT DEF After, Status, Live, Final, Over
<1>4. ASSUME NEW u \in Takes, EgressMoves(u)
      PROVE  /\ egress'[t].status # "none"
             /\ egress[t].status \notin Live => egress'[t].status \notin Live
  BY <1>2, <1>3, <1>4 DEF EgressMoves
<1>5. ASSUME NEW u \in Takes, Forget(u) PROVE egress'[t] = egress[t]
  BY <1>5 DEF Forget, TypeOK
<1>6. ASSUME NEW p \in Stops, StopCall(p)
      PROVE  /\ egress'[t].status # "none"
             /\ egress[t].status \notin Live => egress'[t].status \notin Live
  <2>1. stop[p] # Idle
    BY <1>6 DEF StopCall, Idle
  <2>2. PICK u \in Takes: u = stop[p].take
    BY <2>1, StopShape DEF TypeOK
  <2>3. ASSUME NEW status \in {"ending"} \cup (After(u) \ Live), egress[u].status \in Live,
               egress' = [egress EXCEPT ![u].status = status]
        PROVE  /\ egress'[t].status # "none"
               /\ egress[t].status \notin Live => egress'[t].status \notin Live
    <3>1. status \in Status /\ egress[u].status # "none"
      BY <2>3, AfterIsStatus, SMT DEF Status, Live, Final, Over
    <3> QED
      BY <1>2, <2>3, <3>1
  <2> QED
    BY <1>6, <2>2, <2>3 DEF StopCall
<1>7. CASE UNCHANGED egress
  BY <1>7
<1> QED
  BY <1>1, <1>4, <1>5, <1>6, <1>7 DEF Next, vars, Upload, DeleteRecord, RenameRead, RenameSave,
     StopAnswer, StopList, SyncBegin, SyncStep, SyncCheck, SyncCreate, SyncEnd, Crash

\* What a step can do to the slot of a stop request.
Lists(s) ==
  \E t \in Takes:
    /\ stop'[s].take = t /\ egress[t].status # "none"
    /\ stop'[s].live # {} => t \in stop'[s].live
    /\ stop'[s].pc = "answer" => egress[t].status \notin Live
    /\ UNCHANGED egress

Calls(s) ==
  /\ stop[s] # Idle
  /\ stop'[s].take = stop[s].take /\ stop'[s].live = stop[s].live
  /\ egress'[stop[s].take].status \notin Live

LEMMA StopSlotStep ==
  ASSUME TypeOK, [Next]_vars, NEW s \in Stops
  PROVE  stop'[s] = Idle \/ stop'[s] = stop[s] \/ Lists(s) \/ Calls(s)
<1>1. ASSUME NEW p \in Stops, NEW r \in Rooms, StopList(p, r)
      PROVE  stop'[s] = stop[s] \/ Lists(s)
  <2>1. PICK t \in IF LiveIn(r) # {} THEN LiveIn(r) ELSE Listed(r):
          stop' = [stop EXCEPT ![p] =
            [pc |-> IF egress[t].status \in Final THEN "answer" ELSE "stop",
             take |-> t, key |-> egress[t].key, status |-> egress[t].status, live |-> LiveIn(r)]]
    BY <1>1 DEF StopList
  <2>2. t \in Takes /\ egress[t].status # "none" /\ (LiveIn(r) # {} => t \in LiveIn(r))
    BY <2>1, SMT DEF LiveIn, Listed, TypeOK, Egress, Status, Live, Final, Over
  <2>3. CASE p # s
    BY <2>1, <2>3 DEF TypeOK
  <2>4. CASE p = s
    <3>1. stop'[s].take = t /\ stop'[s].live = LiveIn(r)
      BY <2>1, <2>4 DEF TypeOK
    <3>2. stop'[s].pc = "answer" => egress[t].status \in Final
      BY <2>1, <2>4, SMT DEF TypeOK
    <3> QED
      BY <1>1, <2>2, <3>1, <3>2, SMT DEF Lists, StopList, Live, Final
  <2> QED
    BY <2>3, <2>4
<1>2. ASSUME NEW p \in Stops, StopCall(p)
      PROVE  stop'[s] = Idle \/ stop'[s] = stop[s] \/ Calls(s)
  <2>1. CASE p # s
    BY <1>2, <2>1 DEF StopCall, TypeOK
  <2>2. CASE p = s
    <3>1. stop[s] # Idle
      BY <1>2, <2>2 DEF StopCall, Idle
    <3>2. PICK t \in Takes: t = stop[s].take
      BY <3>1, StopShape DEF TypeOK
    <3>3. ASSUME NEW key, NEW status, stop' = [stop EXCEPT ![s] = Answer(s, key, status)]
          PROVE  stop'[s].take = t /\ stop'[s].live = stop[s].live
      BY <3>2, <3>3 DEF TypeOK, Answer
    <3>4. ASSUME NEW status \in {"ending"} \cup (After(t) \ Live), egress[t].status \in Live,
                 egress' = [egress EXCEPT ![t].status = status],
                 stop' = [stop EXCEPT ![s] = Answer(s, egress[t].key, status)]
          PROVE  Calls(s)
      <4>1. egress[t] \in Egress
        BY <3>4, EgressShape, SMT DEF TypeOK, Live
      <4>2. egress'[t] = [egress[t] EXCEPT !.status = status]
        BY <3>4 DEF TypeOK
      <4>3. egress'[t].status = status
        BY <4>1, <4>2, SMT DEF Egress
      <4>4. status \notin Live
        BY <3>4, SMT DEF Live, Final
      <4> QED
        BY <3>1, <3>2, <3>3, <3>4, <4>3, <4>4 DEF Calls
    <3>5. CASE /\ egress[t].status \notin Live
               /\ stop' = [stop EXCEPT ![s] = Answer(s, stop[s].key, stop[s].status)]
               /\ UNCHANGED egress
      BY <3>1, <3>2, <3>3, <3>5 DEF Calls
    <3>6. CASE stop' = [stop EXCEPT ![s] = Idle]
      BY <3>6 DEF TypeOK
    <3> QED
      BY <1>2, <2>2, <3>2, <3>4, <3>5, <3>6 DEF StopCall
  <2> QED
    BY <2>1, <2>2
<1>3. ASSUME NEW p \in Stops, StopAnswer(p) PROVE stop'[s] = Idle \/ stop'[s] = stop[s]
  BY <1>3 DEF StopAnswer, TypeOK
<1>4. CASE Crash
  BY <1>4 DEF Crash
<1>5. CASE UNCHANGED stop
  BY <1>5
<1> QED
  BY <1>1, <1>2, <1>3, <1>4, <1>5
     DEF Next, vars, StartRecording, EgressMoves, Upload, Forget, DeleteRecord, RenameRead,
         RenameSave, SyncBegin, SyncStep, SyncCheck, SyncCreate, SyncEnd

LEMMA HoldsStep ==
  ASSUME TypeOK, [Next]_vars, NEW s \in Stops, HoldsTake(s)
  PROVE  HoldsTake(s)'
<1>1. CASE stop'[s] = Idle
  BY <1>1 DEF HoldsTake
<1>2. CASE stop'[s] = stop[s] /\ stop[s] # Idle
  <2>1. stop[s].take \in Takes
    BY <1>2, StopShape DEF TypeOK
  <2> QED
    BY <1>2, <2>1, HeldEgress DEF HoldsTake
<1>3. CASE Lists(s)
  BY <1>3 DEF Lists, HoldsTake
<1>4. CASE Calls(s)
  <2>1. stop[s].take \in Takes
    BY <1>4, StopShape DEF Calls, TypeOK
  <2> QED
    BY <1>4, <2>1, HeldEgress DEF Calls, HoldsTake
<1> QED
  BY <1>1, <1>2, <1>3, <1>4, StopSlotStep

\* In every behaviour a stop request that is answered 200 has ended one of the
\* recordings that were live when it listed them, or found it ended.
THEOREM StopAlwaysProgresses == Spec => []StopMakesProgress
<1> DEFINE Inv == \A s \in Stops: HoldsTake(s)
<1>1. Init => Inv
  BY DEF Init, HoldsTake
<1>2. TypeOK /\ Inv /\ [Next]_vars => Inv'
  BY HoldsStep
<1>3. TypeOK /\ Inv => StopMakesProgress
  BY SMT DEF HoldsTake, StopMakesProgress, Idle
<1> QED
  BY <1>1, <1>2, <1>3, RecordingsTypeCorrect, PTL DEF Spec

\* "recording stopped" is true of a room that is recorded once: a stop request ends
\* whatever was live when it listed, unless that was more than one egress.
LoneEgressEnds ==
  \A s \in Stops:
    stop[s].pc = "answer" /\ (\A t, u \in stop[s].live: t = u) =>
      \A t \in stop[s].live: egress[t].status \notin Live

\* So StopEndsRecording, which does not hold, fails for nothing but a second egress
\* of the room, whatever stop requests race the end of the first one.
THEOREM LoneEgressAlwaysEnds ==
  /\ Spec => []LoneEgressEnds
  /\ Spec => [](~StopEndsRecording =>
       \E s \in Stops: \E t, u \in stop[s].live: t # u)
<1>1. StopMakesProgress => LoneEgressEnds
  BY DEF StopMakesProgress, LoneEgressEnds
<1>2. LoneEgressEnds => (~StopEndsRecording => \E s \in Stops: \E t, u \in stop[s].live: t # u)
  BY DEF LoneEgressEnds, StopEndsRecording
<1> QED
  BY <1>1, <1>2, StopAlwaysProgresses, PTL

-----------------------------------------------------------------------------
(* A lone sync imports each playlist once *)

\* What a lone sync found missing is missing until it creates it: only the sync
\* itself adds rows.
Missing == \A y \in Syncs: sync[y].pc = "create" => ~Exists(sync[y].key)

LEMMA LoneSyncStep ==
  ASSUME Stops = {}, Renames = {}, NEW y \in Syncs, Syncs = {y},
         TypeOK, UniqueLinks, Missing, [Next]_vars
  PROVE  UniqueLinks' /\ Missing'
<1> USE DEF UniqueLinks, Missing, Exists
<1>1. ASSUME NEW i \in Ids, DeleteRecord(i) PROVE UniqueLinks' /\ Missing'
  <2>1. \A j \in Ids: records'[j] \in {records[j], None} /\ (records'[j] # None => records'[j] = records[j])
    BY <1>1, SMT DEF DeleteRecord, TypeOK
  <2>2. sync[y].pc = "create" => sync[y].key \in Keys
    BY SyncShape DEF TypeOK
  <2> QED
    BY <1>1, <2>1, <2>2 DEF DeleteRecord
<1>2. CASE SyncBegin(y)
  BY <1>2 DEF SyncBegin, TypeOK
<1>3. ASSUME NEW k \in Keys, SyncCheck(y, k) PROVE UniqueLinks' /\ Missing'
  <2>1. CASE /\ ~Exists(k)
             /\ sync' = [sync EXCEPT ![y] = [pc |-> "create", due |-> sync[y].due,
                                             seen |-> sync[y].seen \cup {k}, key |-> k]]
    BY <1>3, <2>1 DEF SyncCheck, TypeOK
  <2>2. CASE sync' = [sync EXCEPT ![y].seen = sync[y].seen \cup {k}]
    <3>1. sync'[y].pc = "next"
      BY <1>3, <2>2, SMT DEF SyncCheck, TypeOK
    <3> QED
      BY <1>3, <3>1 DEF SyncCheck
  <2> QED
    BY <1>3, <2>1, <2>2 DEF SyncCheck
<1>4. CASE SyncCreate(y)
  <2>1. sync[y].key \in Keys /\ \A j \in Ids: records[j] # sync[y].key
    BY <1>4, SyncShape DEF SyncCreate, TypeOK
  <2>2. sync'[y].pc = "next"
    BY <1>4 DEF SyncCreate, TypeOK
  <2>3. CASE Create(sync[y].key)
    <3>1. PICK i \in Ids: records' = [records EXCEPT ![i] = sync[y].key]
      BY <2>3 DEF Create
    <3>2. records'[i] = sync[y].key /\ \A j \in Ids: j # i => records'[j] = records[j]
      BY <3>1 DEF TypeOK
    <3> QED
      BY <2>1, <2>2, <3>2
  <2>4. CASE UNCHANGED records
    BY <2>2, <2>4
  <2> QED
    BY <1>4, <2>3, <2>4 DEF SyncCreate
<1>5. CASE SyncEnd(y)
  BY <1>5 DEF SyncEnd, TypeOK, Idle
<1>6. CASE Crash
  BY <1>6 DEF Crash, Idle
<1>7. CASE UNCHANGED <<records, sync>>
  BY <1>7
<1> QED
  BY <1>1, <1>2, <1>3, <1>4, <1>5, <1>6, <1>7
     DEF Next, vars, StartRecording, EgressMoves, Upload, Forget, SyncStep

\* With one sync at a time and no stop request or rename beside it, no link is
\* ever in the table twice, whatever is recorded and deleted meanwhile.
THEOREM LoneSyncKeepsUnique ==
  ASSUME Stops = {}, Renames = {}, NEW y \in Syncs, Syncs = {y}
  PROVE  Spec => []UniqueLinks
<1>1. Init => UniqueLinks /\ Missing
  BY DEF Init, UniqueLinks, Missing, Idle
<1>2. TypeOK /\ (UniqueLinks /\ Missing) /\ [Next]_vars => (UniqueLinks /\ Missing)'
  BY LoneSyncStep
<1> QED
  BY <1>1, <1>2, RecordingsTypeCorrect, PTL DEF Spec

-----------------------------------------------------------------------------
(* The catalogue of recordings *)

\* A rename finds its row as it read it, or deleted, and renames of one row agree
\* on its link: links are written once.
RenamesKeepLinks ==
  /\ \A n \in Renames: rename[n] # Idle => records[rename[n].id] \in {None, rename[n].link}
  /\ \A m, n \in Renames:
       rename[m] # Idle /\ rename[n] # Idle /\ rename[m].id = rename[n].id =>
         rename[m].link = rename[n].link

\* A new row of the table is one that no row had and no rename remembers.
LEMMA CreateFresh ==
  ASSUME TypeOK, NEW k \in Keys, Create(k)
  PROVE  \E i \in Ids:
           /\ records[i] = None
           /\ \A n \in Renames: rename[n] # Idle => rename[n].id # i
           /\ records' = [records EXCEPT ![i] = k]
BY Zenon DEF Create, Fresh

LEMMA CreateKeepsLinks ==
  ASSUME TypeOK, RenamesKeepLinks, NEW k \in Keys, Create(k), UNCHANGED rename
  PROVE  RenamesKeepLinks'
<1>1. PICK i \in Ids:
        /\ records[i] = None
        /\ \A n \in Renames: rename[n] # Idle => rename[n].id # i
        /\ records' = [records EXCEPT ![i] = k]
  BY CreateFresh
<1>2. \A j \in Ids: j # i => records'[j] = records[j]
  BY <1>1 DEF TypeOK
<1>3. \A n \in Renames: rename[n] # Idle => rename[n].id \in Ids
  BY RenameShape DEF TypeOK
<1> QED
  BY <1>1, <1>2, <1>3 DEF RenamesKeepLinks

LEMMA RenamesStep == TypeOK /\ RenamesKeepLinks /\ [Next]_vars => RenamesKeepLinks'
<1> SUFFICES ASSUME TypeOK, RenamesKeepLinks, [Next]_vars PROVE RenamesKeepLinks'
  OBVIOUS
<1>1. \A n \in Renames: rename[n] # Idle => rename[n].id \in Ids /\ rename[n].link \in Keys
  BY RenameShape DEF TypeOK
<1>2. ASSUME NEW i \in Ids, DeleteRecord(i) PROVE RenamesKeepLinks'
  <2>1. \A j \in Ids: records'[j] \in {None, records[j]}
    BY <1>2 DEF DeleteRecord, TypeOK
  <2> QED
    BY <1>1, <1>2, <2>1 DEF DeleteRecord, RenamesKeepLinks
<1>3. ASSUME NEW i \in Ids, NEW n \in Renames, RenameRead(n, i) PROVE RenamesKeepLinks'
  <2>1. \A m \in Renames: m # n => rename'[m] = rename[m]
    BY <1>3 DEF RenameRead, TypeOK
  <2>2. rename'[n].id = i /\ rename'[n].link = records[i]
    BY <1>3 DEF RenameRead, TypeOK
  <2> QED
    BY <1>3, <2>1, <2>2 DEF RenameRead, RenamesKeepLinks
<1>4. ASSUME NEW n \in Renames, RenameSave(n) PROVE RenamesKeepLinks'
  <2>1. \A m \in Renames: rename'[m] # Idle => rename'[m] = rename[m]
    BY <1>4 DEF RenameSave, TypeOK
  <2>2. CASE records' = [records EXCEPT ![rename[n].id] = rename[n].link]
    <3>1. \A j \in Ids: records'[j] = IF j = rename[n].id THEN rename[n].link ELSE records[j]
      BY <2>2 DEF TypeOK
    <3>2. rename[n] # Idle
      BY <1>4 DEF RenameSave
    <3>3. ASSUME NEW m \in Renames, rename[m] # Idle
          PROVE  records'[rename[m].id] \in {None, rename[m].link}
      <4>1. CASE rename[m].id # rename[n].id
        BY <1>1, <3>1, <3>3, <4>1 DEF RenamesKeepLinks
      <4>2. CASE rename[m].id = rename[n].id
        BY <1>1, <3>1, <3>2, <3>3, <4>2 DEF RenamesKeepLinks
      <4> QED
        BY <4>1, <4>2
    <3> QED
      BY <2>1, <3>3 DEF RenamesKeepLinks
  <2>3. CASE UNCHANGED records
    BY <2>1, <2>3 DEF RenamesKeepLinks
  <2> QED
    BY <1>4, <2>2, <2>3 DEF RenameSave
<1>5. ASSUME NEW s \in Stops, StopAnswer(s) PROVE RenamesKeepLinks'
  <2>1. stop[s].key \in Keys
    BY <1>5, StopShape DEF StopAnswer, TypeOK, Idle
  <2> QED
    BY <1>5, <2>1, CreateKeepsLinks DEF StopAnswer, RenamesKeepLinks
<1>6. ASSUME NEW y \in Syncs, SyncCreate(y) PROVE RenamesKeepLinks'
  <2>1. sync[y].key \in Keys
    BY <1>6, SyncShape DEF SyncCreate, TypeOK
  <2> QED
    BY <1>6, <2>1, CreateKeepsLinks DEF SyncCreate, RenamesKeepLinks
<1>7. CASE Crash
  BY <1>7 DEF Crash, RenamesKeepLinks
<1>8. CASE UNCHANGED <<records, rename>>
  BY <1>8 DEF RenamesKeepLinks
<1> QED
  BY <1>2, <1>3, <1>4, <1>5, <1>6, <1>7, <1>8
     DEF Next, vars, StartRecording, EgressMoves, Upload, Forget, StopList, StopCall,
         SyncBegin, SyncStep, SyncCheck, SyncEnd

\* Making a record from a stored playlist is an entry of the catalogue.
LEMMA CreateLists ==
  ASSUME TypeOK, NEW k \in bucket, Create(k), UNCHANGED bucket
  PROVE  Listing!CatalogueNext
<1>1. k \in Keys
  BY DEF TypeOK
<1>2. PICK i \in Ids: records[i] = None /\ records' = [records EXCEPT ![i] = k]
  BY <1>1, CreateFresh
<1> QED
  BY <1>1, <1>2 DEF Listing!CatalogueNext, Listing!List

LEMMA CatalogueStep ==
  ASSUME TypeOK, StorageInv, RenamesKeepLinks, [Next]_vars
  PROVE  [Listing!CatalogueNext]_(Listing!catalogueVars)
<1> USE DEF Listing!CatalogueNext, Listing!catalogueVars
<1>1. ASSUME NEW t \in Takes, Upload(t) PROVE Listing!CatalogueNext
  <2>1. egress[t].key \in Keys
    BY <1>1, EgressShape, SMT DEF Upload, TypeOK, Egress
  <2> QED
    BY <1>1, <2>1 DEF Upload, Listing!Store
<1>2. ASSUME NEW i \in Ids, DeleteRecord(i) PROVE Listing!CatalogueNext
  BY <1>2 DEF DeleteRecord, Listing!Unlist
<1>3. ASSUME NEW n \in Renames, RenameSave(n) PROVE Listing!CatalogueNext \/ UNCHANGED <<bucket, records>>
  <2>1. /\ rename[n].id \in Ids /\ rename[n].link \in bucket /\ rename[n].link \in Keys
        /\ records[rename[n].id] \in {None, rename[n].link}
    BY <1>3, RenameShape DEF RenameSave, TypeOK, RenamesKeepLinks, StorageInv, RemembersStorage
  <2>2. CASE records[rename[n].id] = None
    BY <1>3, <2>1, <2>2 DEF RenameSave, Listing!List
  <2>3. CASE records[rename[n].id] = rename[n].link
    BY <1>3, <2>3 DEF RenameSave, TypeOK
  <2> QED
    BY <2>1, <2>2, <2>3
<1>4. ASSUME NEW s \in Stops, StopAnswer(s) PROVE Listing!CatalogueNext \/ UNCHANGED <<bucket, records>>
  BY <1>4, CreateLists DEF StopAnswer, StorageInv, RemembersStorage
<1>5. ASSUME NEW y \in Syncs, SyncCreate(y) PROVE Listing!CatalogueNext \/ UNCHANGED <<bucket, records>>
  BY <1>5, CreateLists DEF SyncCreate, StorageInv, RemembersStorage
<1>6. CASE UNCHANGED <<bucket, records>>
  BY <1>6
<1> QED
  BY <1>1, <1>2, <1>3, <1>4, <1>5, <1>6
     DEF Next, vars, StartRecording, EgressMoves, Forget, RenameRead, StopList, StopCall,
         SyncBegin, SyncStep, SyncCheck, SyncEnd, Crash

\* Recordings implements the catalogue: whatever requests, egresses, failures and
\* crashes do, a step makes or removes one entry, and none is led elsewhere.
THEOREM RecordingsKeepCatalogue == Spec => KeepsCatalogue
<1>1. Init => Listing!CatalogueInit
  BY DEF Init, Listing!CatalogueInit
<1>2. Init => RenamesKeepLinks
  BY DEF Init, RenamesKeepLinks
<1>3. Spec => []RenamesKeepLinks
  BY <1>2, RenamesStep, RecordingsTypeCorrect, PTL DEF Spec
<1> QED
  BY <1>1, <1>3, CatalogueStep, RecordingsTypeCorrect, AlwaysStorage, PTL
     DEF Spec, KeepsCatalogue, Listing!CatalogueSpec
=============================================================================
