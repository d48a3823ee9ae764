----------------------------- MODULE Recordings -----------------------------
(***************************************************************************)
(* Recordings: starting and stopping LiveKit egresses, the playlists they  *)
(* leave in the bucket, and the table records that lists them.             *)
(*                                                                         *)
(* Three writers fill the table and none of them holds a lock or a         *)
(* transaction: POST .../recordings/stop saves a record when the egress it *)
(* finds is complete, POST /recordings/sync imports the playlists of the   *)
(* bucket, and PATCH /recordings/:id writes back a row it read before.     *)
(* LiveKit's egress service and the bucket are external.                   *)
(***************************************************************************)
EXTENDS Naturals, FiniteSets

CONSTANTS
  Rooms,        \* room names
  Keys,         \* object keys of HLS playlists (.../index.m3u8)
  Synced,       \* the keys below "recordings/", the prefix that Sync lists
  DefaultKey,   \* where a recording of a room goes when no prefix is given
  Takes,        \* egress ids; an id that LiveKit has forgotten is used again
  Ids,          \* record ids (a bound on the rows of the table)
  Stops,        \* slots for stop requests in progress
  Syncs,        \* slots for sync requests in progress
  Renames,      \* slots for rename requests in progress
  NoPrefix,     \* the request names no filename_prefix
  None,         \* no egress, no record
  Faults        \* may calls fail and the server crash?

ASSUME KeysAssumption ==
  /\ Synced \subseteq Keys
  /\ DefaultKey \in [Rooms -> Keys]
  /\ NoPrefix \notin Keys /\ None \notin Keys
ASSUME FaultsAssumption == Faults \in BOOLEAN

VARIABLES
  egress,     \* LiveKit: the egresses it lists
  bucket,     \* MinIO: the playlists stored
  records,    \* table records: the link of each row
  stop,       \* StopRecording: the requests in progress
  sync,       \* SyncFromMinio: the requests in progress
  rename      \* UpdateRecordName: the requests in progress

vars == <<egress, bucket, records, stop, sync, rename>>

Live == {"starting", "active"}
\* What StopRoomRecording takes to be over: EGRESS_LIMIT_REACHED is not among it.
Final == {"complete", "failed", "aborted"}
Over == Final \cup {"limit"}
Status == Live \cup {"ending"} \cup Over

Egress == [room: Rooms, key: Keys, status: Status]
NoEgress == [status |-> "none"]
Idle == [pc |-> "idle"]

\* A stop request: the egress it picked, the status it has of it, and the live
\* egresses of the room in the list it picked from.
Stop == [pc: {"stop", "answer"}, take: Takes, key: Keys, status: Status, live: SUBSET Takes]
\* A sync request: the objects it must still see, those it has seen, and the one
\* it found missing in the table.
Sync == [pc: {"next"}, due: SUBSET Keys, seen: SUBSET Keys]
          \cup [pc: {"create"}, due: SUBSET Keys, seen: SUBSET Keys, key: Keys]
\* A rename request: the row it read.
Rename == [pc: {"save"}, id: Ids, link: Keys]

TypeOK ==
  /\ egress \in [Takes -> Egress \cup {NoEgress}]
  /\ bucket \subseteq Keys
  /\ records \in [Ids -> Keys \cup {None}]
  /\ stop \in [Stops -> Stop \cup {Idle}]
  /\ sync \in [Syncs -> Sync \cup {Idle}]
  /\ rename \in [Renames -> Rename \cup {Idle}]

Init ==
  /\ egress = [t \in Takes |-> NoEgress]
  /\ bucket = {}
  /\ records = [i \in Ids |-> None]
  /\ stop = [s \in Stops |-> Idle]
  /\ sync = [y \in Syncs |-> Idle]
  /\ rename = [n \in Renames |-> Idle]

-----------------------------------------------------------------------------
(* StartRecording, and what LiveKit makes of it *)

\* index.m3u8 goes next to the segments: where the prefix of the request points to,
\* or <room>/<room>, which is the same for every recording of the room.
PlaylistKey(r, prefix) == IF prefix = NoPrefix THEN DefaultKey[r] ELSE prefix

\* Nothing looks whether the room is being recorded already.
StartRecording(t, r, prefix) ==
  /\ egress[t] = NoEgress
  /\ egress' = [egress EXCEPT ![t] =
       [room |-> r, key |-> PlaylistKey(r, prefix), status |-> "starting"]]
  /\ UNCHANGED <<bucket, records, stop, sync, rename>>

\* How an egress goes on by itself; only one that wrote its playlist completes.
After(t) ==
  CASE egress[t].status = "starting" -> {"active", "failed", "aborted"}
    [] egress[t].status \in {"active", "ending"} ->
         {"failed", "aborted", "limit"} \cup {c \in {"complete"}: egress[t].key \in bucket}
    [] OTHER -> {}

EgressMoves(t) ==
  /\ \E status \in After(t): egress' = [egress EXCEPT ![t].status = status]
  /\ UNCHANGED <<bucket, records, stop, sync, rename>>

Upload(t) ==
  /\ egress[t].status \in {"active", "ending"}
  /\ bucket' = bucket \cup {egress[t].key}
  /\ UNCHANGED <<egress, records, stop, sync, rename>>

\* LiveKit drops an egress that ended from its list.
Forget(t) ==
  /\ egress[t].status \in Over
  /\ \A s \in Stops: stop[s] # Idle => stop[s].take # t
  /\ egress' = [egress EXCEPT ![t] = NoEgress]
  /\ UNCHANGED <<bucket, records, stop, sync, rename>>

-----------------------------------------------------------------------------
(* The table records *)

\* Ids are serial and never used again; one that no row has and no request
\* remembers stands for the next.
Fresh(i) ==
  /\ records[i] = None
  /\ \A n \in Renames: rename[n] # Idle => rename[n].id # i

Create(link) == \E i \in Ids: Fresh(i) /\ records' = [records EXCEPT ![i] = link]

Exists(link) == \E i \in Ids: records[i] = link

\* A slip: the playlist goes with the row, whoever else lists it.
DeleteRecordAndPlaylist(i) ==
  /\ records[i] # None
  /\ records' = [records EXCEPT ![i] = None]
  /\ bucket' = bucket \ {records[i]}
  /\ UNCHANGED <<egress, stop, sync, rename>>

DeleteRecord(i) ==
  /\ records[i] # None
  /\ records' = [records EXCEPT ![i] = None]
  /\ UNCHANGED <<egress, bucket, stop, sync, rename>>

\* A slip: a row that is not found is not noticed.
RenameReadUnchecked(n, i) ==
  /\ rename[n] = Idle
  /\ rename' = [rename EXCEPT ![n] = [pc |-> "save", id |-> i, link |-> records[i]]]
  /\ UNCHANGED <<egress, bucket, records, stop, sync>>

\* UpdateName loads the row; a missing one ends the request.
RenameRead(n, i) ==
  /\ rename[n] = Idle
  /\ records[i] # None
  /\ rename' = [rename EXCEPT ![n] = [pc |-> "save", id |-> i, link |-> records[i]]]
  /\ UNCHANGED <<egress, bucket, records, stop, sync>>

\* gorm's Save updates every column, and inserts the row if it is gone.
RenameSave(n) ==
  /\ rename[n] # Idle
  /\ rename' = [rename EXCEPT ![n] = Idle]
  /\ \/ records' = [records EXCEPT ![rename[n].id] = rename[n].link]
     \/ Faults /\ UNCHANGED records
  /\ UNCHANGED <<egress, bucket, stop, sync>>

-----------------------------------------------------------------------------
(* StopRecording *)

Listed(r) == {t \in Takes: egress[t] # NoEgress /\ egress[t].room = r}
LiveIn(r) == {t \in Listed(r): egress[t].status \in Live}

\* A slip: the first egress of the list is picked, live or not.
StopListFirst(s, r) ==
  /\ stop[s] = Idle
  /\ \E t \in Listed(r):
       stop' = [stop EXCEPT ![s] =
         [pc |-> IF egress[t].status \in Final THEN "answer" ELSE "stop",
          take |-> t, key |-> egress[t].key, status |-> egress[t].status, live |-> LiveIn(r)]]
  /\ UNCHANGED <<egress, bucket, records, sync, rename>>

\* ListEgress of the room; an empty list is answered 409.  A live egress is
\* picked if there is one (the order of the list is LiveKit's), else an ended or
\* ending one; one whose status is known to be final needs no further call.
StopList(s, r) ==
  /\ stop[s] = Idle
  /\ \E t \in IF LiveIn(r) # {} THEN LiveIn(r) ELSE Listed(r):
       stop' = [stop EXCEPT ![s] =
         [pc |-> IF egress[t].status \in Final THEN "answer" ELSE "stop",
          take |-> t, key |-> egress[t].key, status |-> egress[t].status, live |-> LiveIn(r)]]
  /\ UNCHANGED <<egress, bucket, records, sync, rename>>

Answer(s, key, status) ==
  [pc |-> "answer", take |-> stop[s].take, key |-> key, status |-> status, live |-> stop[s].live]

\* StopEgress ends a live egress and returns what became of it.  LiveKit refuses
\* when it is not live any more ("cannot be stopped"), as it does for one that ran
\* into its limit: the handler then goes on with the status that was listed.  Any
\* other failure is answered 500.
StopCall(s) ==
  /\ stop[s].pc = "stop"
  /\ LET t == stop[s].take
     IN \/ /\ egress[t].status \in Live
           /\ \E status \in {"ending"} \cup (After(t) \ Live):
                /\ egress' = [egress EXCEPT ![t].status = status]
                /\ stop' = [stop EXCEPT ![s] = Answer(s, egress[t].key, status)]
        \/ /\ egress[t].status \notin Live
           /\ stop' = [stop EXCEPT ![s] = Answer(s, stop[s].key, stop[s].status)]
           /\ UNCHANGED egress
        \/ /\ Faults
           /\ stop' = [stop EXCEPT ![s] = Idle]
           /\ UNCHANGED egress
  /\ UNCHANGED <<bucket, records, sync, rename>>

\* A slip: an egress that is still ending gets its record already.
StopAnswerEarly(s) ==
  /\ stop[s].pc = "answer"
  /\ stop' = [stop EXCEPT ![s] = Idle]
  /\ \/ stop[s].status \in {"ending", "complete"} /\ Create(stop[s].key)
     \/ stop[s].status \notin {"ending", "complete"} /\ UNCHANGED records
  /\ UNCHANGED <<egress, bucket, sync, rename>>

\* A complete egress gets a record, whether or not it has one; when saving it
\* fails the request is answered 200 all the same.
StopAnswer(s) ==
  /\ stop[s].pc = "answer"
  /\ stop' = [stop EXCEPT ![s] = Idle]
  /\ \/ stop[s].status = "complete" /\ Create(stop[s].key)
     \/ stop[s].status # "complete" /\ UNCHANGED records
     \/ Faults /\ UNCHANGED records
  /\ UNCHANGED <<egress, bucket, sync, rename>>

-----------------------------------------------------------------------------
(* SyncFromMinio *)

\* The listing is streamed while the loop runs: it has every object that was
\* there at the start, and may have later ones.
SyncBegin(y) ==
  /\ sync[y] = Idle
  /\ sync' = [sync EXCEPT ![y] = [pc |-> "next", due |-> bucket \cap Synced, seen |-> {}]]
  /\ UNCHANGED <<egress, bucket, records, stop, rename>>

\* A slip: nothing asks whether a record has the link.
SyncCheckBlind(y, k) ==
  /\ sync[y].pc = "next"
  /\ k \in (bucket \cap Synced) \ sync[y].seen
  /\ sync' = [sync EXCEPT ![y] =
       [pc |-> "create", due |-> sync[y].due, seen |-> sync[y].seen \cup {k}, key |-> k]]
  /\ UNCHANGED <<egress, bucket, records, stop, rename>>

\* A slip: the loop ends at an object that has its record, instead of going on.
SyncCheckBreaks(y, k) ==
  /\ sync[y].pc = "next"
  /\ k \in (bucket \cap Synced) \ sync[y].seen
  /\ \/ /\ ~Exists(k)
        /\ sync' = [sync EXCEPT ![y] =
             [pc |-> "create", due |-> sync[y].due, seen |-> sync[y].seen \cup {k}, key |-> k]]
     \/ /\ Exists(k)
        /\ sync' = [sync EXCEPT ![y] = Idle]
  /\ UNCHANGED <<egress, bucket, records, stop, rename>>

\* The next object: skipped if a record has its link, or if the question fails.
SyncCheck(y, k) ==
  /\ sync[y].pc = "next"
  /\ k \in (bucket \cap Synced) \ sync[y].seen
  /\ LET seen == sync[y].seen \cup {k}
     IN \/ /\ ~Exists(k)
           /\ sync' = [sync EXCEPT ![y] =
                [pc |-> "create", due |-> sync[y].due, seen |-> seen, key |-> k]]
        \/ /\ Exists(k) \/ Faults
           /\ sync' = [sync EXCEPT ![y].seen = seen]
  /\ UNCHANGED <<egress, bucket, records, stop, rename>>

\* The record is created; a failure is logged and the loop goes on.
SyncCreate(y) ==
  /\ sync[y].pc = "create"
  /\ sync' = [sync EXCEPT ![y] = [pc |-> "next", due |-> sync[y].due, seen |-> sync[y].seen]]
  /\ \/ Create(sync[y].key)
     \/ Faults /\ UNCHANGED records
  /\ UNCHANGED <<egress, bucket, stop, rename>>

\* The listing is at its end; when it breaks off, the request succeeds as well.
SyncEnd(y) ==
  /\ sync[y].pc = "next"
  /\ sync[y].due \subseteq sync[y].seen \/ Faults
  /\ sync' = [sync EXCEPT ![y] = Idle]
  /\ UNCHANGED <<egress, bucket, records, stop, rename>>

SyncStep(y) == (\E k \in Keys: SyncCheck(y, k)) \/ SyncCreate(y) \/ SyncEnd(y)

-----------------------------------------------------------------------------
Crash ==
  /\ Faults
  /\ stop' = [s \in Stops |-> Idle]
  /\ sync' = [y \in Syncs |-> Idle]
  /\ rename' = [n \in Renames |-> Idle]
  /\ UNCHANGED <<egress, bucket, records>>

Next ==
  \/ \E t \in Takes, r \in Rooms, prefix \in Keys \cup {NoPrefix}: StartRecording(t, r, prefix)
  \/ \E t \in Takes: EgressMoves(t) \/ Upload(t) \/ Forget(t)
  \/ \E i \in Ids: DeleteRecord(i) \/ \E n \in Renames: RenameRead(n, i)
  \/ \E n \in Renames: RenameSave(n)
  \/ \E s \in Stops: StopCall(s) \/ StopAnswer(s) \/ \E r \in Rooms: StopList(s, r)
  \/ \E y \in Syncs: SyncBegin(y) \/ SyncStep(y)
  \/ Crash

Spec == Init /\ [][Next]_vars

\* A sync that runs is scheduled until it ends.
LiveSpec == Spec /\ \A y \in Syncs: WF_vars(SyncStep(y))

-----------------------------------------------------------------------------
(* Properties *)

\* Every row of the table leads to a playlist in the bucket, also a row that was
\* saved from a status listed earlier, imported after a check that is out of
\* date, or brought back by a rename that met its deletion.
RecordsPointToStorage == \A i \in Ids: records[i] # None => records[i] \in bucket

\* What makes it inductive: whatever a request remembers, or LiveKit calls
\* complete, is in the bucket, which only grows.
RemembersStorage ==
  /\ \A t \in Takes: egress[t].status = "complete" => egress[t].key \in bucket
  /\ \A s \in Stops: stop[s].pc = "answer" /\ stop[s].status = "complete" => stop[s].key \in bucket
  /\ \A s \in Stops: stop[s].pc = "stop" => stop[s].status # "complete"
  /\ \A y \in Syncs: sync[y].pc = "create" => sync[y].key \in bucket
  /\ \A n \in Renames: rename[n].pc = "save" => rename[n].link \in bucket

StorageInv == RecordsPointToStorage /\ RemembersStorage

\* A stop request that is answered 200 has done something if there was something
\* to do: of the egresses that were live when it listed them, at least the one it
\* picked is not live any more, whatever other stop requests, LiveKit and new
\* recordings did in between.
StopMakesProgress ==
  \A s \in Stops:
    stop[s].pc = "answer" /\ stop[s].live # {} =>
      \E t \in stop[s].live: egress[t].status \notin Live

\* No two rows of the table have the same link ("Check if exists").  Sync alone
\* keeps this, whatever is deleted and recorded while it runs; two syncs do not.
UniqueLinks ==
  \A i, j \in Ids: records[i] # None /\ records[i] = records[j] => i = j

\* The table as those who list recordings see it.
Listing == INSTANCE Catalogue WITH
  Entries <- Ids, Playlists <- Keys, NoEntry <- None, stored <- bucket, entry <- records

\* Stop requests that race each other and the end of an egress, syncs, renames of
\* rows that are deleted meanwhile, failures and crashes implement the catalogue:
\* a step makes or removes one entry, an entry that is made leads to a stored
\* playlist, and no entry is ever led elsewhere.
KeepsCatalogue == Listing!CatalogueSpec

Catalogued(k) == \E i \in Ids: records[i] = k

\* As long as syncs keep being run, every playlist below recordings/ is listed in
\* the table sooner or later, and again after its row was deleted.
SyncImports ==
  \A k \in Synced:
    ([]<>\E y \in Syncs: sync[y] # Idle) => (k \in bucket ~> Catalogued(k))

\* "recording stopped (or already finished/aborted)": when a stop request is
\* answered 200, no recording that was live when it began still runs.
StopEndsRecording ==
  \A s \in Stops: stop[s].pc = "answer" =>
    \A t \in stop[s].live: egress[t].status \notin Live
=============================================================================
