-------------------------- MODULE SyncHistoryProofs --------------------------
(***************************************************************************)
(* SyncCovers for any number of keys, rows, egresses and requests that run *)
(* beside a sync.                                                          *)
(***************************************************************************)
EXTENDS SyncHistory, RecordingsProofs

\* A sync that looks at the object k; one that saves what it found missing.
Looks(y, k) ==
  /\ sync[y].pc = "next"
  /\ sync'[y] # Idle
  /\ sync'[y].seen = sync[y].seen \cup {k}
  /\ Exists(k) \/ (sync'[y].pc = "create" /\ sync'[y].key = k)
  /\ UNCHANGED records

Saves(y) ==
  /\ sync[y].pc = "create"
  /\ sync'[y] # Idle
  /\ sync'[y].seen = sync[y].seen
  /\ \E i \in Ids: records'[i] = sync[y].key

Ends(y) ==
  /\ sync[y].pc = "next"
  /\ sync[y].due \subseteq sync[y].seen
  /\ sync'[y] = Idle

\* A record that is created is there afterwards.
LEMMA CreateExists ==
  ASSUME TypeOK, NEW k \in Keys, Create(k)
  PROVE  \E i \in Ids: records'[i] = k
<1>1. PICK i \in Ids: records' = [records EXCEPT ![i] = k]
  BY DEF Create
<1>2. records'[i] = k
  BY <1>1 DEF TypeOK
<1> QED
  BY <1>2

\* All that a step can do to one sync while no call fails.
LEMMA SyncSlotStep ==
  ASSUME TypeOK, [Next]_vars, ~Faults, NEW y \in Syncs
  PROVE  \/ sync'[y] = sync[y]
         \/ sync[y] = Idle /\ sync'[y].seen = {}
         \/ \E k \in Keys: Looks(y, k)
         \/ Saves(y)
         \/ Ends(y)
<1>1. ASSUME NEW z \in Syncs, SyncBegin(z)
      PROVE  sync'[y] = sync[y] \/ (sync[y] = Idle /\ sync'[y].seen = {})
  BY <1>1 DEF SyncBegin, TypeOK
<1>2. ASSUME NEW z \in Syncs, NEW k \in Keys, SyncCheck(z, k)
      PROVE  sync'[y] = sync[y] \/ Looks(y, k)
  <2>1. CASE z # y
    BY <1>2, <2>1 DEF SyncCheck, TypeOK
  <2>2. CASE z = y
    <3>1. sync[y] \in [pc: {"next"}, due: SUBSET Keys, seen: SUBSET Keys]
      BY <1>2, <2>2, SMT DEF SyncCheck, TypeOK, Sync, Idle
    <3>2. CASE /\ ~Exists(k)
               /\ sync' = [sync EXCEPT ![y] = [pc |-> "create", due |-> sync[y].due,
                                               seen |-> sync[y].seen \cup {k}, key |-> k]]
      BY <1>2, <2>2, <3>2 DEF SyncCheck, Looks, TypeOK, Idle
    <3>3. CASE Exists(k) /\ sync' = [sync EXCEPT ![y].seen = sync[y].seen \cup {k}]
      <4>1. sync'[y] = [sync[y] EXCEPT !.seen = sync[y].seen \cup {k}]
        BY <3>3 DEF TypeOK
      <4>2. sync'[y].seen = sync[y].seen \cup {k} /\ sync'[y].pc = "next"
        BY <3>1, <4>1
      <4> QED
        BY <1>2, <2>2, <3>1, <3>3, <4>2 DEF SyncCheck, Looks, Idle
    <3> QED
      BY <1>2, <2>2, <3>2, <3>3 DEF SyncCheck
  <2> QED
    BY <2>1, <2>2
<1>3. ASSUME NEW z \in Syncs, SyncCreate(z) PROVE sync'[y] = sync[y] \/ Saves(y)
  <2>1. CASE z # y
    BY <1>3, <2>1 DEF SyncCreate, TypeOK
  <2>2. CASE z = y
    <3>1. sync[y].key \in Keys
      BY <1>3, <2>2, SyncShape DEF SyncCreate, TypeOK
    <3>2. \E i \in Ids: records'[i] = sync[y].key
      BY <1>3, <2>2, <3>1, CreateExists DEF SyncCreate
    <3> QED
      BY <1>3, <2>2, <3>2 DEF SyncCreate, Saves, TypeOK, Idle
  <2> QED
    BY <2>1, <2>2
<1>4. ASSUME NEW z \in Syncs, SyncEnd(z) PROVE sync'[y] = sync[y] \/ Ends(y)
  BY <1>4 DEF SyncEnd, Ends, TypeOK
<1>5. CASE UNCHANGED sync
  BY <1>5
<1> QED
  BY <1>1, <1>2, <1>3, <1>4, <1>5
     DEF Next, vars, StartRecording, EgressMoves, Upload, Forget, DeleteRecord, RenameRead,
         RenameSave, StopList, StopCall, StopAnswer, SyncStep, Crash

\* What a sync has seen stays covered while it runs: a playlist that is listed
\* either stays so or is counted as lost.
LEMMA CoveredStep ==
  ASSUME TypeOK, HTypeOK, HNext, ~Faults, NEW y \in Syncs, SeenCovered(y)
  PROVE  SeenCovered(y)'
<1>1. CASE sync'[y] = Idle
  BY <1>1 DEF SeenCovered
<1>2. CASE sync[y] = Idle /\ sync'[y].seen = {}
  BY <1>2 DEF SeenCovered
<1>3. CASE sync[y] # Idle /\ sync'[y] # Idle
  <2>1. lost'[y] = lost[y] \cup {k \in Keys: Exists(k) /\ ~Exists(k)'}
    BY <1>3 DEF HNext, Lost
  <2>2. \A k \in Keys: Exists(k) \/ k \in lost[y] => Exists(k)' \/ k \in lost'[y]
    BY <2>1
  <2>3. sync[y].seen \in SUBSET Keys
    BY <1>3, SyncShape DEF TypeOK, Sync, Idle
  <2>4. CASE sync'[y] = sync[y]
    BY <1>3, <2>2, <2>3, <2>4 DEF SeenCovered
  <2>5. ASSUME NEW k \in Keys, Looks(y, k) PROVE SeenCovered(y)'
    <3>1. \A j \in sync[y].seen: Exists(j)' \/ j \in lost'[y]
      BY <1>3, <2>2, <2>3, <2>5 DEF SeenCovered, Looks
    <3>2. Exists(k)' \/ (sync'[y].pc = "create" /\ sync'[y].key = k)
      BY <2>5 DEF Looks, Exists
    <3> QED
      BY <2>5, <3>1, <3>2 DEF Looks, SeenCovered
  <2>6. CASE Saves(y)
    <3>1. \A j \in sync[y].seen: j = sync[y].key \/ Exists(j)' \/ j \in lost'[y]
      BY <1>3, <2>2, <2>3 DEF SeenCovered
    <3>2. \A j \in sync[y].seen: j = sync[y].key => Exists(j)'
      BY <2>6 DEF Saves, Exists
    <3> QED
      BY <2>6, <3>1, <3>2 DEF Saves, SeenCovered
  <2> QED
    BY <1>1, <1>2, <2>4, <2>5, <2>6, SyncSlotStep DEF HNext, Ends
<1>4. CASE sync[y] = Idle /\ sync'[y] # Idle
  <2>1. sync[y].pc = "idle"
    BY <1>4 DEF Idle
  <2> QED
    BY <1>2, <1>4, <2>1, SyncSlotStep DEF HNext, Looks, Saves, Ends
<1> QED
  BY <1>1, <1>3, <1>4

LEMMA HTypeStep == HTypeOK /\ [HNext]_hvars => HTypeOK'
<1>1. HTypeOK /\ HNext => HTypeOK'
  BY DEF HTypeOK, HNext, Lost
<1> QED
  BY <1>1 DEF HTypeOK, hvars

\* A sync that is answered without a failure has left no playlist behind that was
\* there when it began, whatever ran beside it.
THEOREM SyncAlwaysCovers == HSpec => SyncCovers
<1> DEFINE Inv == ~Faults => \A y \in Syncs: SeenCovered(y)
<1> DEFINE Covers == ~Faults => \A y \in Syncs: sync[y] # Idle /\ sync'[y] = Idle =>
                       \A k \in sync[y].due: Exists(k) \/ k \in lost[y]
<1>1. HInit => Init /\ HTypeOK /\ Inv
  BY DEF HInit, HTypeOK, Init, SeenCovered
<1>2. [HNext]_hvars => [Next]_vars
  BY DEF HNext, hvars
<1>3. TypeOK /\ HTypeOK /\ Inv /\ [HNext]_hvars => Inv'
  <2>1. TypeOK /\ HTypeOK /\ Inv /\ HNext => Inv'
    BY CoveredStep
  <2>2. Inv /\ UNCHANGED hvars => Inv'
    BY Zenon DEF SeenCovered, Exists, hvars, vars
  <2> QED
    BY <2>1, <2>2
<1>4. TypeOK /\ Inv /\ [HNext]_hvars => Covers
  <2> SUFFICES ASSUME TypeOK, Inv, [Next]_vars, ~Faults, NEW y \in Syncs,
                      sync[y] # Idle, sync'[y] = Idle, NEW k \in sync[y].due
               PROVE  Exists(k) \/ k \in lost[y]
    BY <1>2
  <2>1. Ends(y)
    BY SyncSlotStep DEF Looks, Saves
  <2>2. SeenCovered(y)
    OBVIOUS
  <2> QED
    BY <2>1, <2>2 DEF Ends, SeenCovered
<1>5. HSpec => [][Covers]_hvars
  <2>1. HSpec => []TypeOK
    BY <1>1, <1>2, RecordingsTypeCorrect, PTL DEF HSpec, Spec
  <2> QED
    BY <1>1, <1>3, <1>4, <2>1, HTypeStep, PTL DEF HSpec
<1> QED
  BY <1>5 DEF SyncCovers
=============================================================================
