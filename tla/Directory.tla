------------------------------ MODULE Directory ------------------------------
(***************************************************************************)
(* What administrators edit: accounts, groups, memberships and rooms.      *)
(*                                                                         *)
(* Every operation of /admin/users, /admin/groups and /admin/rooms is a    *)
(* request of its own; several run at once and none holds a transaction    *)
(* across its statements.  Updates read a row, change it in memory and     *)
(* hand it to gorm's Save, which writes every column and inserts the row   *)
(* again if it is gone.  The tables keep their unique indexes and foreign  *)
(* keys (refs of group_members and rooms), which may refuse a statement.   *)
(***************************************************************************)
EXTENDS Naturals

CONSTANTS
  UserIds, GroupIds, RoomIds,   \* ids: serial, used for one row only
  Usernames,                    \* names of accounts
  Names,                        \* names of groups and rooms
  Blank,                        \* the empty name
  Dates,                        \* start_date and end_date
  NoGroup,                      \* group_id NULL (0 in a request)
  Keep,                         \* a request leaves the column out
  None,                         \* no row
  Seeded,                       \* the accounts at the start
  Slots,                        \* requests in progress
  Faults                        \* may a statement fail and the server crash?

\* A row inserted with nothing but an id has no username, no role and no password.
Roles == {"user", "admin", "unset"}
Account == [name: Usernames \cup {Blank}, role: Roles, password: BOOLEAN]
Ghost == [name |-> Blank, role |-> "unset", password |-> FALSE]

ASSUME IdsAssumption == UserIds \subseteq Nat \ {0} /\ Dates \subseteq Nat
ASSUME MarksAssumption ==
  /\ Blank \notin Names \cup Usernames
  /\ None \notin Names \cup Usernames \cup {Blank} \cup Account
  /\ NoGroup \notin GroupIds
  /\ Keep \notin Dates \cup GroupIds \cup {NoGroup}
ASSUME SeededAssumption == Seeded \in [UserIds -> Account \cup {None}]
ASSUME FaultsAssumption == Faults \in BOOLEAN

VARIABLES
  users,      \* table users
  groups,     \* table groups: the name of each group
  members,    \* table group_members
  rooms,      \* table rooms
  task,       \* the requests between two of their statements
  owner,      \* history: the username that an id of users was given out with
  added       \* history: the pairs that AddMember has inserted

vars == <<users, groups, members, rooms, task, owner, added>>

RoomRow == [name: Names \cup {Blank}, group: GroupIds \cup {NoGroup}, start: Dates, end: Dates]

\* The body of PATCH /admin/rooms/:id.  description, max_participants and
\* assigned_to are written as name is: as they come, left out or not.
RoomPatch ==
  [name: Names \cup {Blank}, group: GroupIds \cup {NoGroup, Keep},
   start: Dates \cup {Keep}, end: Dates \cup {Keep}]

Idle == [op |-> "idle"]

\* role: UpdateUserRole has the new row.  delete: DeleteUser has removed the
\* memberships.  member: AddMember has found the user.  group: UpdateGroup has
\* the row and the rows of its members.  room: UpdateRoom has the merged row.
Task ==
  [op: {"role"}, user: UserIds, row: Account]
    \cup [op: {"delete"}, user: UserIds]
    \cup [op: {"member"}, user: UserIds, group: GroupIds]
    \cup [op: {"group"}, group: GroupIds, name: Names, loaded: [UserIds -> Account \cup {None}]]
    \cup [op: {"room"}, room: RoomIds, row: RoomRow]

TypeOK ==
  /\ users \in [UserIds -> Account \cup {None}]
  /\ groups \in [GroupIds -> Names \cup {None}]
  /\ members \subseteq GroupIds \X UserIds
  /\ rooms \in [RoomIds -> RoomRow \cup {None}]
  /\ task \in [Slots -> Task \cup {Idle}]
  /\ owner \in [UserIds -> Usernames \cup {Blank, None}]
  /\ added \subseteq GroupIds \X UserIds

Init ==
  /\ users = Seeded
  /\ owner = [u \in UserIds |-> IF Seeded[u] = None THEN None ELSE Seeded[u].name]
  /\ groups = [g \in GroupIds |-> None]
  /\ members = {} /\ added = {}
  /\ rooms = [r \in RoomIds |-> None]
  /\ task = [s \in Slots |-> Idle]

Begin(s, t) == task[s] = Idle /\ task' = [task EXCEPT ![s] = t]
End(s) == task' = [task EXCEPT ![s] = Idle]

\* The sequence of users.id only goes up.
FreshUser(u) == \A v \in UserIds: owner[v] # None => v < u

\* Serial ids are not used again: the next id is one that no row, no request and
\* no past membership knows.
FreshGroup(g) ==
  /\ groups[g] = None
  /\ \A u \in UserIds: <<g, u>> \notin added
  /\ \A s \in Slots: task[s].op \in {"group", "member"} => task[s].group # g

FreshRoom(r) ==
  /\ rooms[r] = None
  /\ \A s \in Slots: task[s].op = "room" => task[s].room # r

-----------------------------------------------------------------------------
(* Accounts *)

Named(u, name) == users[u] # None /\ users[u].name = name

\* First: of the accounts of a name, the one with the lowest id.
FirstNamed(u, name) ==
  Named(u, name) /\ \A v \in UserIds: Named(v, name) => u <= v

\* Usernames are not unique.
InsertUser(u, row) ==
  /\ FreshUser(u)
  /\ users' = [users EXCEPT ![u] = row]
  /\ owner' = [owner EXCEPT ![u] = row.name]
  /\ UNCHANGED <<groups, members, rooms, task, added>>

\* Anybody may register, under any name, the empty one included.
Register(u, name) ==
  InsertUser(u, [name |-> name, role |-> "user", password |-> TRUE])

\* CreateUser takes any role but "admin" for "user".
CreateUser(u, name, role) ==
  /\ name # Blank
  /\ InsertUser(u, [name |-> name, role |-> role, password |-> TRUE])

\* The row is read and its role replaced.
UpdateUserRole(s, u, role) ==
  /\ users[u] # None
  /\ Begin(s, [op |-> "role", user |-> u, row |-> [users[u] EXCEPT !.role = role]])
  /\ UNCHANGED <<users, groups, members, rooms, owner, added>>

\* Save: every column of the row is written, or it is inserted again.
SaveUser(s) ==
  /\ task[s].op = "role"
  /\ users' = [users EXCEPT ![task[s].user] = task[s].row]
  /\ End(s)
  /\ UNCHANGED <<groups, members, rooms, owner, added>>

\* "Manually delete from group_members to avoid foreign key constraint errors".
DeleteUser(s, u) ==
  /\ members' = members \ (GroupIds \X {u})
  /\ Begin(s, [op |-> "delete", user |-> u])
  /\ UNCHANGED <<users, groups, rooms, owner, added>>

\* The second statement; the foreign key refuses it if u is a member again.
DeleteUserRow(s) ==
  /\ task[s].op = "delete"
  /\ LET u == task[s].user
     IN \/ /\ \A g \in GroupIds: <<g, u>> \notin members
           /\ users' = [users EXCEPT ![u] = None]
        \/ /\ \E g \in GroupIds: <<g, u>> \in members
           /\ UNCHANGED users
  /\ End(s)
  /\ UNCHANGED <<groups, members, rooms, owner, added>>

-----------------------------------------------------------------------------
(* Groups and memberships *)

\* Names of groups are unique.
Available(g, name) == \A h \in GroupIds \ {g}: groups[h] # name

CreateGroup(g, name) ==
  /\ FreshGroup(g)
  /\ Available(g, name)
  /\ groups' = [groups EXCEPT ![g] = name]
  /\ UNCHANGED <<users, members, rooms, task, owner, added>>

\* A slip: every account is loaded as a member of the group.
UpdateGroupLoadsAll(s, g, name) ==
  /\ groups[g] # None
  /\ Begin(s, [op |-> "group", group |-> g, name |-> name, loaded |-> users])
  /\ UNCHANGED <<users, groups, members, rooms, owner, added>>

\* FindByID loads the group together with the rows of its members.
UpdateGroup(s, g, name) ==
  /\ groups[g] # None
  /\ Begin(s, [op |-> "group", group |-> g, name |-> name,
               loaded |-> [u \in UserIds |-> IF <<g, u>> \in members THEN users[u] ELSE None]])
  /\ UNCHANGED <<users, groups, members, rooms, owner, added>>

\* Save writes the group and, as part of it, inserts the members that were loaded
\* and their memberships unless they are there (ON CONFLICT DO NOTHING).  If the
\* group is gone, its loaded memberships have nothing to refer to and all is
\* rolled back; without any, the group is inserted again.
SaveGroup(s) ==
  /\ task[s].op = "group"
  /\ LET g == task[s].group
         loaded == task[s].loaded
         joined == {u \in UserIds: loaded[u] # None}
     IN IF Available(g, task[s].name) /\ (groups[g] # None \/ joined = {})
          THEN /\ groups' = [groups EXCEPT ![g] = task[s].name]
               /\ users' = [u \in UserIds |-> IF users[u] = None THEN loaded[u] ELSE users[u]]
               /\ members' = members \cup ({g} \X joined)
          ELSE UNCHANGED <<groups, users, members>>
  /\ End(s)
  /\ UNCHANGED <<rooms, owner, added>>

\* A slip: the database is asked to cascade.
DeleteGroupCascades(g) ==
  /\ groups[g] # None
  /\ members' = members \ ({g} \X UserIds)
  /\ rooms' = [r \in RoomIds |-> IF rooms[r] # None /\ rooms[r].group = g THEN None ELSE rooms[r]]
  /\ groups' = [groups EXCEPT ![g] = None]
  /\ UNCHANGED <<users, task, owner, added>>

\* The foreign keys refuse to delete a group that has members or rooms.
DeleteGroup(g) ==
  /\ groups[g] # None
  /\ \A u \in UserIds: <<g, u>> \notin members
  /\ \A r \in RoomIds: rooms[r] # None => rooms[r].group # g
  /\ groups' = [groups EXCEPT ![g] = None]
  /\ UNCHANGED <<users, members, rooms, task, owner, added>>

\* A slip: the user is not looked for.
AddMemberUnchecked(s, g, u) ==
  /\ Begin(s, [op |-> "member", user |-> u, group |-> g])
  /\ UNCHANGED <<users, groups, members, rooms, owner, added>>

AddMember(s, g, u) ==
  /\ users[u] # None
  /\ Begin(s, [op |-> "member", user |-> u, group |-> g])
  /\ UNCHANGED <<users, groups, members, rooms, owner, added>>

\* Append inserts the user by its id alone unless it is there, then the membership; a
\* group that is gone ends the request with nothing done.
AppendMember(s) ==
  /\ task[s].op = "member"
  /\ LET u == task[s].user
         g == task[s].group
     IN \/ /\ groups[g] # None
           /\ users' = [users EXCEPT ![u] = IF users[u] = None THEN Ghost ELSE users[u]]
           /\ members' = members \cup {<<g, u>>}
           /\ added' = added \cup {<<g, u>>}
        \/ /\ groups[g] = None
           /\ UNCHANGED <<users, members, owner, added>>
  /\ End(s)
  /\ UNCHANGED <<groups, rooms, owner>>

RemoveMember(g, u) ==
  /\ <<g, u>> \in members
  /\ members' = members \ {<<g, u>>}
  /\ UNCHANGED <<users, groups, rooms, task, owner, added>>

-----------------------------------------------------------------------------
(* Rooms *)

\* Names of rooms are unique, and a room belongs to a group that exists or none.
Storable(r, row) ==
  /\ \A q \in RoomIds \ {r}: rooms[q] # None => rooms[q].name # row.name
  /\ row.group # NoGroup => groups[row.group] # None

Ordered(row) == row.start <= row.end

CreateRoom(r, row) ==
  /\ FreshRoom(r)
  /\ row.name # Blank
  /\ Ordered(row)
  /\ Storable(r, row)
  /\ rooms' = [rooms EXCEPT ![r] = row]
  /\ UNCHANGED <<users, groups, members, task, owner, added>>

Or(asked, old) == IF asked = Keep THEN old ELSE asked

\* A slip: the group is taken over without looking whether the request names one.
MergedUnresolved(row, patch) ==
  [name |-> patch.name, group |-> patch.group,
   start |-> Or(patch.start, row.start), end |-> Or(patch.end, row.end)]

\* The row after a patch: the name as it comes, the other columns if they come.
Merged(row, patch) ==
  [name |-> patch.name, group |-> Or(patch.group, row.group),
   start |-> Or(patch.start, row.start), end |-> Or(patch.end, row.end)]

\* A slip: the dates of the request are compared instead of those of the row.
UpdateRoomUnmerged(s, r, patch) ==
  /\ rooms[r] # None
  /\ patch.start # Keep /\ patch.end # Keep => patch.start <= patch.end
  /\ Begin(s, [op |-> "room", room |-> r, row |-> Merged(rooms[r], patch)])
  /\ UNCHANGED <<users, groups, members, rooms, owner, added>>

\* The row is read, merged and checked.
UpdateRoom(s, r, patch) ==
  /\ rooms[r] # None
  /\ Ordered(Merged(rooms[r], patch))
  /\ Begin(s, [op |-> "room", room |-> r, row |-> Merged(rooms[r], patch)])
  /\ UNCHANGED <<users, groups, members, rooms, owner, added>>

\* Save: every column is written, or the row inserted again.
SaveRoom(s) ==
  /\ task[s].op = "room"
  /\ \/ /\ Storable(task[s].room, task[s].row)
        /\ rooms' = [rooms EXCEPT ![task[s].room] = task[s].row]
     \/ /\ ~Storable(task[s].room, task[s].row)
        /\ UNCHANGED rooms
  /\ End(s)
  /\ UNCHANGED <<users, groups, members, owner, added>>

DeleteRoom(r) ==
  /\ rooms[r] # None
  /\ rooms' = [rooms EXCEPT ![r] = None]
  /\ UNCHANGED <<users, groups, members, task, owner, added>>

-----------------------------------------------------------------------------
\* A statement fails or the server dies: the rest of the request never happens.
Abandon(s) ==
  /\ Faults
  /\ task[s] # Idle
  /\ End(s)
  /\ UNCHANGED <<users, groups, members, rooms, owner, added>>

\* The first statement of each administrative request.
Accounts(s) ==
  \E u \in UserIds:
    \/ DeleteUser(s, u)
    \/ \E role \in {"user", "admin"}:
         UpdateUserRole(s, u, role) \/ \E name \in Usernames: CreateUser(u, name, role)

Grouping(s) ==
  \E g \in GroupIds:
    \/ \E name \in Names: CreateGroup(g, name) \/ UpdateGroup(s, g, name)
    \/ \E u \in UserIds: AddMember(s, g, u) \/ RemoveMember(g, u)
    \/ DeleteGroup(g)

Schedule(s) ==
  \E r \in RoomIds:
    \/ \E row \in RoomRow: CreateRoom(r, row)
    \/ \E patch \in RoomPatch: UpdateRoom(s, r, patch)
    \/ DeleteRoom(r)

Administer(s) == Accounts(s) \/ Grouping(s) \/ Schedule(s)

\* The last statement of those that have two.
Continue(s) ==
  SaveUser(s) \/ DeleteUserRow(s) \/ SaveGroup(s) \/ AppendMember(s) \/ SaveRoom(s)

Next ==
  \/ \E u \in UserIds, name \in Usernames \cup {Blank}: Register(u, name)
  \/ \E s \in Slots: Administer(s) \/ Continue(s) \/ Abandon(s)

Spec == Init /\ [][Next]_vars

-----------------------------------------------------------------------------
(* Properties *)

\* No room ends before it starts, although UpdateRoom merges the request into a
\* row it read before, and another update, a deletion or a new row may come in
\* between: two updates that each move one date cannot cross them.
WindowsOrdered ==
  /\ \A r \in RoomIds: rooms[r] # None => Ordered(rooms[r])
  /\ \A s \in Slots: task[s].op = "room" => Ordered(task[s].row)

\* Nobody is, or is about to be put, in a group that AddMember has not put them
\* in: the memberships that UpdateGroup writes back may be out of date (a member
\* who was removed comes back) but never of another user or group.
MembershipsAdded ==
  /\ members \subseteq added
  /\ \A s \in Slots, u \in UserIds:
       task[s].op = "group" /\ task[s].loaded[u] # None => <<task[s].group, u>> \in added

\* An id of users stands for one username for ever: no stale row that is saved or
\* written back gives an account another name, it can only lose its name (when
\* AddMember inserts an account that was just deleted).
Owned(u, row) == owner[u] # None /\ row.name \in {owner[u], Blank}

Remembered(t) ==
  /\ t.op = "role" => Owned(t.user, t.row)
  /\ t.op = "group" => \A u \in UserIds: t.loaded[u] # None => Owned(u, t.loaded[u])
  /\ t.op = "member" => owner[t.user] # None

NamesKept ==
  /\ \A u \in UserIds: users[u] # None => Owned(u, users[u])
  /\ \A s \in Slots: Remembered(task[s])

\* An account that was given out and deleted, and that no request has read before.
Recalls(t, u) ==
  \/ t.op \in {"role", "member"} /\ t.user = u
  \/ t.op = "group" /\ t.loaded[u] # None

Gone(u) ==
  /\ owner[u] # None /\ users[u] = None
  /\ \A s \in Slots: ~Recalls(task[s], u)

\* What DeleteUser promises in spite of the Saves that insert a row again: once the
\* requests that had read the account are over, no request brings it, nameless or
\* not, or any membership of it back, however many run at once.
DeletedStaysGone ==
  [][\A u \in UserIds: Gone(u) => Gone(u)' /\ \A g \in GroupIds: <<g, u>> \notin members']_vars

\* Whatever an administrative request is about, each of its statements changes one
\* row of rooms, or memberships, and never both: what admission relies on when it
\* reads the two tables at different times.
Edits == INSTANCE Tables

KeepsTables == Edits!TablesSpec

\* "to avoid foreign key constraint errors": when DeleteUser comes to the row of
\* the user, no membership refers to it.
DeletionUnhindered ==
  \A s \in Slots: task[s].op = "delete" =>
    \A g \in GroupIds: <<g, task[s].user>> \notin members
=============================================================================
