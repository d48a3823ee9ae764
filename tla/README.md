# Verification of video-conference-be

TLA+ models of the server of a video conference application (Go, gin, gorm on
PostgreSQL, Redis, LiveKit, MinIO), checked with TLC and, for the theorems listed
below, proved with TLAPS. Every definition is translated from the source under
`src/`; `PROJECT.json` maps each to its lines.

The server is a set of HTTP handlers. It keeps no state of its own that a wired
handler uses: every request reads and writes PostgreSQL, Redis, LiveKit and MinIO
in a sequence of calls, without locks and almost without transactions. What can go
wrong is therefore what happens *between* two calls of one request, and the models
take every such call as a step of its own.

## 1. Inventory

| component | state | operations | interacts with |
|---|---|---|---|
| Access policy (`livekit_handler.go`, `room_service.go`) | none: decides on a room row, a user, `group_members` | rule of the token handler (Go), rule of the room list (SQL) | tables of the directory |
| Admission and presence (`livekit_handler.go`, `livekit_service.go`) | Redis keys `user_presence:<identity>` with a time to live; LiveKit tokens, connections and webhooks | token request, webhook, leave, kick, removal of a participant, closing of a room | reads rooms and members; drives LiveKit; is driven by its webhooks, and by what anybody posts to their route |
| Recordings (`recording_handler.go`, `livekit_client.go`, `record_service.go`) | table `records`; egresses in LiveKit; objects in MinIO | start, stop, list, rename, delete | LiveKit egress writes the bucket |
| Import (`recording_service.go`) | none: a loop over the bucket | sync | bucket, `records` |
| Directory (`user_`, `group_`, `room_service.go`, `repository/`) | tables `users`, `groups`, `group_members`, `rooms` | create, update, delete of accounts, groups and rooms; add and remove members | read by admission |
| Accounts and sessions (`auth_service.go`, `middleware.go`, `jwt.go`) | JWTs held by clients | register, login, authentication of each request | `users` |
| Seeder (`cmd/seeder`) | none: a program of its own over the tables | make accounts, groups with members, rooms | the tables, beside the server |
| Service-level recording (`recording_service.go`, `activeByRoom`) | a map under a mutex | start, stop | reached by no route |
| Mute-all and metadata, polls, link previews, start-up | none | | LiveKit, logs, the web |

Hard behaviours, and what makes each component correct:

- **Admission.** Two requests of one user overlap; webhooks come late, twice, out of
  order or not at all, and not only from LiveKit: their route is public and the handler
  does not verify the sender; keys expire; every failure of Redis is swallowed; rooms and
  memberships are edited, and the clock goes on, while a request decides on them; kicks
  fail half way. Correct: nobody is given a token for or connected to a room without
  having passed its access check; nobody is shown in one without that or an event that
  says so; a key does not outlive its cause, counted from the cause and not from the
  last write to Redis; a decision is justified although it reads its two tables and the
  clock at different times; the two statements of the access rule agree.
- **Recordings.** Stop requests race each other, the end of the egress and new
  recordings; a rename races a deletion; a sync runs while objects and rows come and
  go. Correct: each record leads to a playlist that exists, and to the same one for as
  long as it is there; a stop request that is answered has stopped something; the sync
  imports everything once, and says so only when it has.
- **Directory.** Updates are read-modify-write with gorm's `Save`, which writes every
  column and inserts the row again if it is gone; deletions are several statements.
  Correct: windows of rooms stay ordered; nobody is in a group they were not added to;
  an account that was deleted comes back through no request but those that had read
  it; an id stands for one username; no statement changes a room and memberships at once.
- **Accounts and sessions.** A JWT says what was true at login and is believed for 24
  hours; the id of a request is looked up by a username that is not unique and may be
  registered anew; a login signs a role it read before it compared the password.
  Correct: a role that was taken away is gone within the lifetime of a JWT; who acts
  as the creator of a room goes by the name it was created under.
- **Seeder.** Look-ups and insertions without a transaction or a unique index behind
  them, in a program that is cut off, fails in part, is run again and runs beside the
  server, with rows it read earlier. Correct: one account of a name; a run that nothing
  disturbs leaves everything in place; no id gets another name.

The hazards, each at its line and with the properties that watch it, are in
`PROJECT.json` ("hazards").

## 2. Modules

| module | what it is |
|---|---|
| `AccessPolicy` | the two access rules as operators |
| `Admission` (EXTENDS `AccessPolicy`) | tokens, presence, webhooks, kicks, and the edits of the tables around them |
| `EntryLedger` | the abstract specification of admission: admit, then connect; admit or report, then show |
| `AdmissionHistory` (EXTENDS `Admission`) | a history variable that records what each request could have decided at every instant |
| `PresenceHistory` (EXTENDS `Admission`) | a history variable that counts time from the causes of a presence key |
| `AdmissionProofs`, `AdmissionHistoryProofs` | theorems; the second about both histories |
| `Recordings`, `RecordingsProofs` | recordings and import, theorems |
| `Catalogue` | the abstract specification of recordings: playlists are stored, entries that lead to them come and go |
| `SyncHistory` (EXTENDS `Recordings`), `SyncHistoryProofs` | a history variable for the playlists that lost a record while a sync ran, theorem |
| `Directory`, `DirectoryProofs` | accounts, groups, members, rooms, theorems |
| `Tables` | the abstract specification of edits: a row of `rooms`, or memberships, at a time; what the directory provides and admission covers |
| `Sessions` (EXTENDS `Directory`), `SessionsProofs` | logins, JWTs, the middleware, who edits and who kicks; theorems |
| `Seeder` (EXTENDS `Directory`), `SeederProofs`, `SeederRunProofs` | the seeder, any number of times, beside the server; theorems |
| `MC*` with their `.cfg` | instances for TLC |

### Correspondence with the code

*Admission.* `req[q]` is one running `GenerateToken`: `LoadRoom` (the row by its code),
`CheckWindow` (`time.Now()` against the window of that row), `CheckPresence` (`GET` of
the key), `Authorise` (the rule, with the query of `group_members`, and the signing),
`MarkOnline` (`SET` with 2 minutes) and `Respond`. `kick[k]` is one `KickParticipant`:
`BeginKick`, `KickRemove`, `KickOffline`. The one-call handlers are single actions. A
room row keeps what a decision reads: `start_date` and `end_date`, `assigned_to`, and
its group. `now` is the clock; it only goes forward, by any step. A presence key is a
room and a number of ticks: 2 minutes and 24 hours are two constants with
`PendingTTL < JoinedTTL`; they count by themselves (`Tick`), not by `now`. `EditRoom`
and `ChangeMembers` are what the directory does to the tables, in the coarsest form: any
row, any memberships, any time.

`POST /livekit/webhook` is a public route (`router.go:57`), and `Webhook`
(`livekit_handler.go:204`) binds the body without verifying who sent it. `hooks` holds
what is on its way there: what LiveKit reports, and, by `Post`, any event of the constant
`Posted` that somebody else sends. The handler treats them alike, so presence is worth
no more than the events: `Traced` and `KeepsLedger` say that a key names a room whose
access check the user has passed *or* that a posted event has named (`reported`), and
that tokens and connections depend on the access check alone.

`AdmissionHistory` adds `trail`: for a request between the load of its row and the access
check, how often what the decision depends on has changed (the room, the user's
memberships, whether the clock is inside the window that was loaded), and whether some
instant would have let the user in.

`PresenceHistory` adds `due`: for a user and a room, the ticks for which a presence key
may still say so. It is set by what causes a key (a `participant_joined` webhook in
flight, whoever sent it, a token request past the access check) and runs down with `Tick`; no write to
Redis touches it.

External: LiveKit (`Join`, `GrantExpires`, `Disconnect`, the webhooks in `hooks`, an
unordered set) and the expiry of Redis (`Tick`). `Faults` lets any call fail and the
server crash; `LossyHooks` lets a webhook be lost or delivered again.

*Recordings.* `stop[s]` is one stop request between `ListEgress`, `StopEgress` and the
insert of the record; `sync[y]` is one `SyncFromMinio` in its loop; `rename[n]` one
`UpdateName` between its read and its `Save`. An object is the key of its playlist and
a record is its link. External: the life of an egress (`After`, `EgressMoves`,
`Upload`, `Forget`); an egress only completes after its playlist is stored, it may
run into its limit (`EGRESS_LIMIT_REACHED`, a final status that the check of
`StopRoomRecording` does not list), and
nothing deletes objects, since no code of the server does.

*Catalogue.* `stored` is the bucket and `entry` the table `records`. An insert of a stop
request or a sync, and a `Save` of a rename that inserts a deleted row again, is `List`;
`DeleteRecord` is `Unlist`; an upload is `Store`; every other step, and a rename of a row
that is there, changes nothing of it. `SyncHistory` adds `lost`: the playlists whose last
record was deleted since a sync began.

*Directory.* `task[s]` is one request between two of its statements: the row that
`UpdateUserRole`, `UpdateGroup` or `UpdateRoom` carries, the user that `AddMember` has
found, the second half of `DeleteUser`. Requests of one statement, and those whose
earlier look-up the foreign keys repeat (`RemoveMember`, `DeleteGroup`, the group of
`AddMember`), are single steps. Unique indexes and foreign keys, created by
`AutoMigrate`, are guards; a refused statement ends the request. The Save of a group
also inserts the members loaded with it, as gorm does for a many2many field.

*Tables.* `Directory` implements it (`KeepsTables`), and every edit it allows, of rows
that admission knows, is a step of `Admission` (`PolicyCoversTables`): together, what is
proved of admission holds beside the directory.

*Sessions.* The composition of `Directory` with the middleware: `call[s]` is who the
request in slot `s` is made by, `task[s]`, from `Directory`, how far it is. `LoginRead`
and `LoginSign` are the two halves of `Login`; `Authenticate` is `JWTAuthMiddleware`,
which takes the id of the first account of the name of the JWT, or 0 when there is none
or the look-up fails (any error of the database, with `Faults`); `Edit` is
`AdminOnly` and the first statement of any administrative request, `Finish` the
second. `creator` is `created_by_id`, `MayKick` the check of `KickParticipant`. A JWT
is a name, a role and the hours it has left. `author` and `recent` are history
variables: the name behind each room, and how long ago a name was an admin's.

*Seeder.* `seed` is the place the program has reached, with the rows it carries along;
every look-up and every statement is a step. What is in its source as literal lists
are constants: the accounts, who joins the groups, the groups and the rooms. `code`
is the column `room_code`. Beside it, `Serve` is any step of `Directory`; `RefuseCode`
is the unique index of `room_code` against the `Save` of a deleted room. `run` is
history: whether anybody else has written, and which groups this run has made. It
leaves out `created_by_id` and `assigned_to` of the rooms it makes.

Definitions under a comment "A slip" are variants with a plausible mistake. No
specification uses them; `PROJECT.json` ("mutants") names the property that each
breaks, as a test of the properties.

## 3. Runs

| run | bounds | what it shows |
|---|---|---|
| `admission_presence` | 1 user, 2 rooms, 2 token requests, times to live 1 and 2, all faults, events about one of the rooms posted by others | `Traced`: the chain access check - request - token - connection - webhook - key has no gap, and posted events get into it at the webhook only; `PresenceDue`: a key is gone in time, counted from its causes |
| `admission_kicks` | as above, 1 token request, 1 kick; the rooms belong to a group whose members change, and their windows open once | `StalePresenceClears` (liveness), `KeepsLedger` (refinement of `EntryLedger`) |
| `admission_policy` | 1 user, 1 room, 18 kinds of row (2 windows, 3 lists, 2 groups or none), 3 moments, tables edited at any time | `EnterableIsListed`, `GrantEntitled` |
| `admission_reload` | 1 user, 2 rooms, no faults, no lost webhooks | finding: `ElsewhereDetected` fails |
| `recordings_storage` | 2 egresses, 2 keys, 2 stop requests, 1 sync, 1 rename, all faults | `StorageInv`, `StopMakesProgress`, `KeepsCatalogue` (refinement of `Catalogue`) |
| `recordings_sync` | 1 sync at a time, 2 keys below `recordings/` | `UniqueLinks`, `SyncImports` (liveness), `SyncCovers` (what a sync that ends has done) |
| `recordings_two_syncs` | 2 syncs | finding: `UniqueLinks` fails |
| `recordings_stop` | 2 egresses of a room, 1 stop request | finding: `StopEndsRecording` fails |
| `directory_edits` | 1 account, 1 group, 2 rooms, 2 dates, 2 requests, faults | `WindowsOrdered`, `MembershipsAdded`, `DeletedStaysGone`, `KeepsTables` (refinement of `Tables`) |
| `directory_delete` | 1 account, 1 group, 2 requests | finding: `DeletionUnhindered` fails |
| `sessions_jwts` | 2 accounts, 2 usernames, 1 room, 1 JWT at a time, good for 2 ticks, 2 requests, faults | `AdminRecently`, `CreatorKicks` |
| `seeder_runs` | 2 accounts to be made, 1 group that both join, 1 room of the group; 1 request beside the program, faults, crashes, any number of runs | `SeedOnce`, `SeedComplete`, `SeederNamesKept`, `SeederStaysGone` |

*Why the bounds are enough.* Presence keys, tokens, connections and webhooks of
different users have nothing in common: they meet only in the tables, which admission
does not write. One user with two rooms and two requests has every race for a key.
Events are posted about one of the rooms, so that the other shows what LiveKit's own
events do. The windows of `admission_policy` are two single moments and the clock starts
anywhere from before the first: a window can be ahead, open or over, and an edit can
move it either way. Two ticks separate a short time to live from a long one;
`admission_reload` takes 12 so that the short one runs out first. The stop path has a
race of two because a stop request names one egress: two egresses and two requests give
every order. Records are bounded by the ids; when all are taken, an insert waits, which
only removes behaviours. In `sessions_jwts` the constraint `FewSessions` keeps one JWT
at a time: `AdminRecently` and `CreatorKicks` speak of one JWT, and the others only act
through the tables, which an account may come to be in either way. Two ids and two names
have an account replaced by one of the same name and by one of another. It has no
groups, so an account without a name does not occur in it; the theorem covers that case.
`seeder_runs` has no account with the role "admin" (`FewRoles`), for the program never
looks at roles. There and in `directory_edits` the states with two rows of rooms are
checked but not followed further (`FewRooms`): rooms meet in their unique names only,
and for that a row and one that a request remembers are enough. Two members of one group
are enough for a group that is left half filled and for a row that is carried over the
next append. The theorems hold without these bounds.

*Symmetry* is used for interchangeable slots, ids, accounts and rooms in runs without
liveness properties, and nowhere else. Deadlock is checked in every run but
`admission_reload`, where the world ends when all webhooks are delivered and the user
does nothing.

*Fairness.* `WF_vars(Tick)`: Redis expires keys whatever the clients do; nothing is
assumed of clients, webhooks or kicks. `WF_vars(SyncStep(y))`: a running request is
scheduled; that syncs are started again and again is a premise of `SyncImports`.

## 4. Findings

1. **A token request shortens the presence key of a connected participant**
   (`livekit_handler.go:131`, run `admission_reload`).
2. **Two syncs import a playlist twice** (`recording_service.go:219`, run
   `recordings_two_syncs`).
3. **A stop request leaves the second egress of a room recording**
   (`livekit_client.go:162`, run `recordings_stop`).
4. **The deletion of a user can still meet a foreign key**
   (`user_service.go:95`, run `directory_delete`).

For three of them a theorem says what has to happen at once: two syncs (or a sync and
a stop or rename request), two egresses of a room, two administrative requests.

## 5. Proofs

All for every value of the constants, from the named assumptions of the modules
(`TTLAssumption`, `RowsAssumption`, `KeysAssumption`, `MarksAssumption`, ...), which
TLC evaluates in the runs.

| theorem | statement | argument |
|---|---|---|
| `TypeCorrect` | `Spec => []TypeOK` (Admission) | by action |
| `AlwaysTraced` | `Spec => []Traced` | `Traced` is inductive with `TypeOK`: a key alone is not, so it is joined by the same statement about tokens and connections, webhooks in flight and requests past the check; a posted event enters the history as it enters the webhooks |
| `AdmissionKeepsLedger` | `Spec => KeepsLedger` | `Traced` gives the guard of each abstract step: `MarkOnline` shows and `Join` connects only for admitted pairs, `Webhook` shows for admitted or reported ones, `Post` reports |
| `AlwaysListed` | `Spec => []EnterableIsListed` | from `TypeOK`: both rules are looked at case by case |
| `AlwaysGrantEntitled` | `HSpec => []GrantEntitled` | `DecisionJustified`: until the first change the row carried by a request is the room's row, and open once the window was checked; up to one change, a decision on that row and the present members (and, before the check, the present time) is one that some instant justified, since a step changes the room, the memberships or the clock, and only one of them (`OneCause`) |
| `AlwaysPresenceDue` | `PSpec => []PresenceDue` | strengthened by `CausesDue`: a joined webhook in flight has its full day before it, a request that is about to write a key its two minutes; `Tick` takes as much from `due` as from the keys, and a webhook or a request that is used up leaves its time behind |
| `RecordingsTypeCorrect` | `Spec => []TypeOK` (Recordings) | by action |
| `AlwaysStorage` | `Spec => []StorageInv` | whatever a request remembers, or LiveKit calls complete, is in the bucket, which only grows |
| `StopAlwaysProgresses` | `Spec => []StopMakesProgress` | the egress that was picked was live when listed; it leaves that state before the request is answered, and its id is not given to a new recording meanwhile |
| `RecordingsKeepCatalogue` | `Spec => KeepsCatalogue` | `StorageInv` gives the guard of `List`; `RenamesKeepLinks`: the row a rename has read is the row that is there or that was deleted, so its `Save` changes nothing or lists the same playlist again |
| `SyncAlwaysCovers` | `HSpec => SyncCovers` | `SeenCovered`: a playlist that the loop has passed has a record, has lost it, or is the one being created; by step of the sync and of everything beside it |
| `LoneEgressAlwaysEnds` | `Spec => []LoneEgressEnds`: `StopEndsRecording` fails only where two egresses of a room were live | from `StopMakesProgress` |
| `LoneSyncKeepsUnique` | one sync, no stop or rename: `Spec => []UniqueLinks` | the link that is to be created is in no row, and nothing else adds rows |
| `DirectoryTypeCorrect` | `Spec => []TypeOK` (Directory) | by operation |
| `AlwaysOrdered` | `Spec => []WindowsOrdered` | the invariant includes the rows that wait to be saved; each was checked after merging, and `Save` writes it whole |
| `AlwaysAdded` | `Spec => []MembershipsAdded` | a request loads only memberships that are there, and each of those was added |
| `AlwaysNamesKept` | `Spec => []NamesKept` | a row that is saved or written back was read under its id, and an id is given out once, above all others |
| `AlwaysReferences` | `Spec => []ReferencesHold` | only two statements take a row away, and both look at what refers to it (`RowsStay`); what is added refers to rows that are there (`NewReferences`), though the request may have read them long before |
| `DeletedAlwaysGone` | `Spec => DeletedStaysGone` | `Sound`: what a request begins to remember is there when it begins, so no request can come to remember an account that is gone; ids are not used again; `AlwaysReferences` for the memberships |
| `LoneDeletionUnhindered` | one administrative request at a time: `Spec => []DeletionUnhindered` | memberships are only added by the last statement of a request that was found in progress, and there is no other |
| `DirectoryKeepsTables` | `Spec => KeepsTables` (Directory) | statement by statement |
| `PolicyCoversTables` | an edit that `Tables` allows, of rows that Admission knows, is a step of its `Policy` | by kind of edit |
| `SessionsKeepDirectory` | `SessionsSpec => Spec` | each step is a step of `Directory` or leaves its variables alone |
| `SessionsInherit` | `SessionsSpec => DeletedStaysGone /\ KeepsTables /\ ...` | through `SessionsKeepDirectory` |
| `SessionsTypeCorrect` | `SessionsSpec => []SessionsTypeOK` | by action, on top of `DirectoryTypeCorrect` |
| `AlwaysAdminRecently` | `SessionsSpec => []AdminRecently` | the clock takes as much from a JWT as from the memory of its name, and a login that signs "admin" vouches for the name until then |
| `AlwaysCreatorKicks` | `SessionsSpec => []CreatorKicks` | an id has one name for ever (`AlwaysNamesKept`), so the id of a request and the id of a creator, if they are the same and not 0, have the same name behind them, or the account has lost its name |
| `SeederTypeCorrect` | `SeederSpec => [](TypeOK /\ SeederTypeOK)` | by step; the number of rows read follows the place |
| `SeederAlwaysNamesKept` | `SeederSpec => []SeederNamesKept` | the rows the program carries along stand for the names of their ids |
| `SeederKeepsTables`, `SeederKeepsDirectory` | `SeederSpec => KeepsTables`, and `WindowsOrdered`, `MembershipsAdded` and `ReferencesHold` always | the program's statements only add (`OnlyAdds`), each to one table and with rows that are there (`SeederWrites`) |
| `SeederDeletedAlwaysGone` | `SeederSpec => SeederStaysGone` | as `DeletedAlwaysGone`, with the rows that the program carries along: it only comes to carry accounts that are there (`CarriesStep`) |
| `SeederAlwaysOnce` | `SeederSpec => []SeedOnce` | strengthened by: the name about to be inserted is still free, and the accounts of the rows carried along are still there, so that an append inserts nobody |
| `SeederAlwaysComplete` | `SeederSpec => []SeedComplete` | `Progress`: what the program has passed is there, whoever is to join has been found, and a group it has made is full or being filled; its own statements only add, so nothing that is there is lost |

Only model-checked: `StalePresenceClears` and `SyncImports`, since liveness under
fairness is beyond the prover. What they rest on is proved: `PresenceDue` says that a
key has no more time left than its last cause has given it, so that it clears when
time passes; `SyncCovers` says that a sync which ends has imported what it saw, so that
everything is imported when syncs end. Every other property of a passing run is a
theorem.

`PresenceDue` counts from the causes because the key does not: a bound on the time to
live of a key alone holds of any write. `DeletedStaysGone` needs its premise: a request
that has read an account before the deletion may insert it again (`SaveUser`,
`SaveGroup`, `AppendMember`). `SyncCovers` is about syncs without faults, for a
statement that fails is skipped and the sync goes on. The references of the directory
(`ReferencesHold`) are a lemma and not a property of a run: the database would enforce
them whatever the code did, and what is shown is that the guards of the model are
those of the foreign keys.

`GrantEntitled` allows for one change and not for two: if an edit moves the window away
after the row was loaded, and the clock then reaches the window that was loaded, the token
is signed for a user who was entitled to it at no instant. The premise counts that as two
changes.

`CreatorKicks` is stated with the cases in which it does not hold: a room created by a
caller whose account was gone, or could not be looked up, has creator 0, and every other
such caller passes for its creator; and an account that `AddMember` inserts by its id
alone has no name.

What the properties do not promise: that a user with a token has a presence key (the key
is written after the token is signed, and a failure is dropped), that two requests of one
user are not both answered (both can pass the presence check), that a kick leaves the key
of a newer session alone, or that a posted event is true. `PROJECT.json` notes this at the
hazards.

## 6. Not modelled, and why

- Contents: names, descriptions, times of records, the text of tokens and answers.
- `max_participants`: stored and listed, but no handler decides anything by it.
- The service-level recording with `activeByRoom`: no route reaches it.
- Mute-all and room metadata: calls to LiveKit that leave nothing behind in the server.
- The lists of rooms, participants, groups, accounts and records: reads.
- Polls (logged only), link previews (a page is fetched and its metadata extracted),
  configuration and start-up.
- That a recording without a prefix goes to a path that every recording of the room
  shares, outside `recordings/`: the contents of objects are not modelled.

## 7. Plan

The order follows the importance of the behaviour.

1. Access policy, admission, its abstract specification and history (done).
2. Recordings and import (done).
3. Directory (done).
4. Sessions (done).
5. Composition of `Directory` with `Admission` through `Tables` (done).
6. Seeder, and accounts that `AddMember` inserts without a name (done).
7. `Recordings`: the service-level start and stop with `activeByRoom`, once a route
   reaches them.
8. The catalogue of recordings; time counted from the causes of a presence key; what
   a sync that ends has done; deleted accounts stay gone; references; the directory
   beside the seeder (done).
9. More proofs: a bound on how long a user is connected to one room and has a key
   for another (`ElsewhereDetected` does not hold, and a key that runs out after a day
   is enough for that, so no condition on reloads alone repairs it).
