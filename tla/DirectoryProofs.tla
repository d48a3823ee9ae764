--------------------------- MODULE DirectoryProofs ---------------------------
(***************************************************************************)
(* Proofs about Directory, for any number of accounts, groups, rooms and   *)
(* requests at a time.                                                     *)
(***************************************************************************)
EXTENDS Directory, TLAPS

USE IdsAssumption, MarksAssumption, SeededAssumption

\* A request slot that is taken or freed stays well typed.
LEMMA SlotTyped ==
  ASSUME task \in [Slots -> Task \cup {Idle}], NEW s \in Slots, NEW t \in Task \cup {Idle},
         task' = [task EXCEPT ![s] = t]
  PROVE  task' \in [Slots -> Task \cup {Idle}]
  OBVIOUS

\* The row that an update writes is a row of the table.
LEMMA MergedTyped ==
  ASSUME NEW row \in RoomRow, NEW patch \in RoomPatch
  PROVE  Merged(row, patch) \in RoomRow
<1>1. Or(patch.group, row.group) \in GroupIds \cup {NoGroup}
  BY DEF RoomRow, RoomPatch, Or
<1>2. Or(patch.start, row.start) \in Dates /\ Or(patch.end, row.end) \in Dates
  BY DEF RoomRow, RoomPatch, Or
<1>3. patch.name \in Names \cup {Blank}
  BY DEF RoomPatch
<1> QED
  BY <1>1, <1>2, <1>3 DEF RoomRow, Merged

\* Only a row, never the mark of a missing one, is stored and carried by requests.
LEMMA TaskFields ==
  ASSUME TypeOK, NEW s \in Slots
  PROVE  /\ task[s].op = "role" => task[s].user \in UserIds /\ task[s].row \in Account
         /\ task[s].op = "delete" => task[s].user \in UserIds
         /\ task[s].op = "member" => task[s].user \in UserIds /\ task[s].group \in GroupIds
         /\ task[s].op = "group" =>
              /\ task[s].group \in GroupIds /\ task[s].name \in Names
              /\ task[s].loaded \in [UserIds -> Account \cup {None}]
         /\ task[s].op = "room" => task[s].room \in RoomIds /\ task[s].row \in RoomRow
<1>1. task[s] \in Task \cup {Idle}
  BY DEF TypeOK
<1> QED
  BY <1>1 DEF Task, Idle

-----------------------------------------------------------------------------
(* Type correctness *)

LEMMA InitTyped == Init => TypeOK
<1> SUFFICES ASSUME Init PROVE TypeOK
  OBVIOUS
<1>1. owner \in [UserIds -> Usernames \cup {Blank, None}]
  BY DEF Init, Account
<1> QED
  BY <1>1 DEF Init, TypeOK

LEMMA InsertTyped ==
  ASSUME TypeOK, NEW u \in UserIds, NEW row \in Account, InsertUser(u, row)
  PROVE  TypeOK'
<1>1. users' \in [UserIds -> Account \cup {None}]
  BY DEF InsertUser, TypeOK
<1>2. owner' \in [UserIds -> Usernames \cup {Blank, None}]
  BY DEF InsertUser, TypeOK, Account
<1> QED
  BY <1>1, <1>2 DEF InsertUser, TypeOK

LEMMA AccountsTyped ==
  ASSUME TypeOK, NEW s \in Slots, Accounts(s)
  PROVE  TypeOK'
<1>1. ASSUME NEW u \in UserIds, NEW role \in {"user", "admin"}, NEW name \in Usernames,
             CreateUser(u, name, role)
      PROVE  TypeOK'
  <2>1. [name |-> name, role |-> role, password |-> TRUE] \in Account
    BY DEF Account, Roles
  <2> QED
    BY <1>1, <2>1, InsertTyped DEF CreateUser
<1>2. ASSUME NEW u \in UserIds, NEW role \in {"user", "admin"}, UpdateUserRole(s, u, role)
      PROVE  TypeOK'
  <2> DEFINE row == [users[u] EXCEPT !.role = role]
  <2>1. users[u] \in Account
    BY <1>2 DEF UpdateUserRole, TypeOK
  <2>2. row \in Account
    BY <2>1 DEF Account, Roles
  <2>3. [op |-> "role", user |-> u, row |-> row] \in Task
    BY <2>2 DEF Task
  <2>4. task' \in [Slots -> Task \cup {Idle}]
    BY <1>2, <2>3, SlotTyped DEF UpdateUserRole, Begin, TypeOK
  <2> QED
    BY <1>2, <2>4 DEF UpdateUserRole, TypeOK
<1>3. ASSUME NEW u \in UserIds, DeleteUser(s, u) PROVE TypeOK'
  <2>1. [op |-> "delete", user |-> u] \in Task
    BY DEF Task
  <2>2. task' \in [Slots -> Task \cup {Idle}]
    BY <1>3, <2>1, SlotTyped DEF DeleteUser, Begin, TypeOK
  <2> QED
    BY <1>3, <2>2 DEF DeleteUser, TypeOK
<1> QED
  BY <1>1, <1>2, <1>3 DEF Accounts

LEMMA GroupingTyped ==
  ASSUME TypeOK, NEW s \in Slots, Grouping(s)
  PROVE  TypeOK'
<1>1. CASE \E g \in GroupIds, name \in Names: CreateGroup(g, name)
  BY <1>1 DEF CreateGroup, TypeOK
<1>2. CASE \E g \in GroupIds, name \in Names: UpdateGroup(s, g, name)
  <2>1. PICK g \in GroupIds, name \in Names: UpdateGroup(s, g, name)
    BY <1>2
  <2> DEFINE loaded == [u \in UserIds |-> IF <<g, u>> \in members THEN users[u] ELSE None]
  <2>2. loaded \in [UserIds -> Account \cup {None}]
    BY DEF TypeOK
  <2>3. [op |-> "group", group |-> g, name |-> name, loaded |-> loaded] \in Task
    BY <2>2 DEF Task
  <2>4. task' \in [Slots -> Task \cup {Idle}]
    BY <2>1, <2>3, SlotTyped DEF UpdateGroup, Begin, TypeOK
  <2> QED
    BY <2>1, <2>4 DEF UpdateGroup, TypeOK
<1>3. CASE \E g \in GroupIds, u \in UserIds: AddMember(s, g, u)
  <2>1. PICK g \in GroupIds, u \in UserIds: AddMember(s, g, u)
    BY <1>3
  <2>2. [op |-> "member", user |-> u, group |-> g] \in Task
    BY DEF Task
  <2>3. task' \in [Slots -> Task \cup {Idle}]
    BY <2>1, <2>2, SlotTyped DEF AddMember, Begin, TypeOK
  <2> QED
    BY <2>1, <2>3 DEF AddMember, TypeOK
<1>4. CASE \E g \in GroupIds, u \in UserIds: RemoveMember(g, u)
  BY <1>4 DEF RemoveMember, TypeOK
<1>5. CASE \E g \in GroupIds: DeleteGroup(g)
  BY <1>5 DEF DeleteGroup, TypeOK
<1> QED
  BY <1>1, <1>2, <1>3, <1>4, <1>5 DEF Grouping

LEMMA ScheduleTyped ==
  ASSUME TypeOK, NEW s \in Slots, Schedule(s)
  PROVE  TypeOK'
<1>1. CASE \E r \in RoomIds, row \in RoomRow: CreateRoom(r, row)
  BY <1>1 DEF CreateRoom, TypeOK
<1>2. CASE \E r \in RoomIds, patch \in RoomPatch: UpdateRoom(s, r, patch)
  <2>1. PICK r \in RoomIds, patch \in RoomPatch: UpdateRoom(s, r, patch)
    BY <1>2
  <2>2. rooms[r] \in RoomRow
    BY <2>1 DEF UpdateRoom, TypeOK
  <2>3. Merged(rooms[r], patch) \in RoomRow
    BY <2>2, MergedTyped
  <2>4. [op |-> "room", room |-> r, row |-> Merged(rooms[r], patch)] \in Task
    BY <2>3 DEF Task
  <2>5. task' \in [Slots -> Task \cup {Idle}]
    BY <2>1, <2>4, SlotTyped DEF UpdateRoom, Begin, TypeOK
  <2> QED
    BY <2>1, <2>5 DEF UpdateRoom, TypeOK
<1>3. CASE \E r \in RoomIds: DeleteRoom(r)
  BY <1>3 DEF DeleteRoom, TypeOK
<1> QED
  BY <1>1, <1>2, <1>3 DEF Schedule

LEMMA ContinueTyped ==
  ASSUME TypeOK, NEW s \in Slots, Continue(s)
  PROVE  TypeOK'
<1>1. CASE SaveUser(s)
  <2>1. task' \in [Slots -> Task \cup {Idle}]
    BY <1>1, SlotTyped DEF SaveUser, End, TypeOK
  <2>2. users' \in [UserIds -> Account \cup {None}]
    BY <1>1, TaskFields DEF SaveUser, TypeOK
  <2> QED
    BY <1>1, <2>1, <2>2 DEF SaveUser, TypeOK
<1>2. CASE DeleteUserRow(s)
  <2>1. task' \in [Slots -> Task \cup {Idle}]
    BY <1>2, SlotTyped DEF DeleteUserRow, End, TypeOK
  <2>2. users' \in [UserIds -> Account \cup {None}]
    BY <1>2 DEF DeleteUserRow, TypeOK
  <2> QED
    BY <1>2, <2>1, <2>2 DEF DeleteUserRow, TypeOK
<1>3. CASE SaveGroup(s)
  <2>1. task' \in [Slots -> Task \cup {Idle}]
    BY <1>3, SlotTyped DEF SaveGroup, End, TypeOK
  <2>2. /\ task[s].group \in GroupIds /\ task[s].name \in Names
        /\ task[s].loaded \in [UserIds -> Account \cup {None}]
    BY <1>3, TaskFields DEF SaveGroup
  <2>3. users' \in [UserIds -> Account \cup {None}]
    BY <1>3, <2>2 DEF SaveGroup, TypeOK
  <2>4. groups' \in [GroupIds -> Names \cup {None}]
    BY <1>3, <2>2 DEF SaveGroup, TypeOK
  <2>5. members' \subseteq GroupIds \X UserIds
    BY <1>3, <2>2 DEF SaveGroup, TypeOK
  <2> QED
    BY <1>3, <2>1, <2>3, <2>4, <2>5 DEF SaveGroup, TypeOK
<1>4. CASE AppendMember(s)
  <2>1. task' \in [Slots -> Task \cup {Idle}]
    BY <1>4, SlotTyped DEF AppendMember, End, TypeOK
  <2>2. task[s].user \in UserIds /\ task[s].group \in GroupIds
    BY <1>4, TaskFields DEF AppendMember
  <2>1a. Ghost \in Account
    BY DEF Account, Roles, Ghost
  <2>3. users' \in [UserIds -> Account \cup {None}]
    BY <1>4, <2>1a, <2>2 DEF AppendMember, TypeOK
  <2>4. members' \subseteq GroupIds \X UserIds /\ added' \subseteq GroupIds \X UserIds
    BY <1>4, <2>2 DEF AppendMember, TypeOK
  <2> QED
    BY <1>4, <2>1, <2>3, <2>4 DEF AppendMember, TypeOK
<1>5. CASE SaveRoom(s)
  <2>1. task' \in [Slots -> Task \cup {Idle}]
    BY <1>5, SlotTyped DEF SaveRoom, End, TypeOK
  <2>2. rooms' \in [RoomIds -> RoomRow \cup {None}]
    BY <1>5, TaskFields DEF SaveRoom, TypeOK
  <2> QED
    BY <1>5, <2>1, <2>2 DEF SaveRoom, TypeOK
<1> QED
  BY <1>1, <1>2, <1>3, <1>4, <1>5 DEF Continue

LEMMA TypeStep == TypeOK /\ [Next]_vars => TypeOK'
<1> SUFFICES ASSUME TypeOK, [Next]_vars
             PROVE  TypeOK'
  OBVIOUS
<1>1. CASE UNCHANGED vars
  BY <1>1 DEF vars, TypeOK
<1>2. ASSUME NEW u \in UserIds, NEW name \in Usernames \cup {Blank}, Register(u, name)
      PROVE  TypeOK'
  <2>1. [name |-> name, role |-> "user", password |-> TRUE] \in Account
    BY DEF Account, Roles
  <2> QED
    BY <1>2, <2>1, InsertTyped DEF Register
<1>3. ASSUME NEW s \in Slots, Administer(s) \/ Continue(s)
      PROVE  TypeOK'
  BY <1>3, AccountsTyped, GroupingTyped, ScheduleTyped, ContinueTyped DEF Administer
<1>4. ASSUME NEW s \in Slots, Abandon(s)
      PROVE  TypeOK'
  <2>1. task' \in [Slots -> Task \cup {Idle}]
    BY <1>4, SlotTyped DEF Abandon, End, TypeOK
  <2> QED
    BY <1>4, <2>1 DEF Abandon, TypeOK
<1> QED
  BY <1>1, <1>2, <1>3, <1>4 DEF Next

\* The tables only hold rows of their types, and a request only carries rows that
\* its next statement can write.
THEOREM DirectoryTypeCorrect == Spec => []TypeOK
BY InitTyped, TypeStep, PTL DEF Spec

-----------------------------------------------------------------------------
(* Windows and memberships *)

\* What a request may remember: rows and members that are there, and a room whose
\* dates were checked.
Sound(t) ==
  /\ t.op = "role" => users[t.user] # None /\ t.row.name = users[t.user].name
  /\ t.op = "member" => users[t.user] # None
  /\ t.op = "group" =>
       \A u \in UserIds: t.loaded[u] # None => <<t.group, u>> \in members /\ t.loaded[u] = users[u]
  /\ t.op = "room" => Ordered(t.row)

\* A step changes one request at most, and what it remembers is sound.
LEMMA OneTask ==
  ASSUME TypeOK, NEW s \in Slots, Administer(s) \/ Continue(s) \/ Abandon(s)
  PROVE  \/ task' = task
         \/ \E t: Sound(t) /\ task' = [task EXCEPT ![s] = t]
<1>1. Sound(Idle)
  BY DEF Sound, Idle
<1>2. ASSUME NEW u \in UserIds, NEW role \in {"user", "admin"}, UpdateUserRole(s, u, role)
      PROVE  \E t: Sound(t) /\ task' = [task EXCEPT ![s] = t]
  <2>1. users[u] \in Account
    BY <1>2 DEF UpdateUserRole, TypeOK
  <2>2. Sound([op |-> "role", user |-> u, row |-> [users[u] EXCEPT !.role = role]])
    BY <1>2, <2>1 DEF Sound, UpdateUserRole, Account
  <2> QED
    BY <1>2, <2>2 DEF UpdateUserRole, Begin
<1>3. CASE \E u \in UserIds: DeleteUser(s, u)
  <2>1. PICK u \in UserIds: DeleteUser(s, u)
    BY <1>3
  <2>2. Sound([op |-> "delete", user |-> u])
    BY DEF Sound
  <2> QED
    BY <2>1, <2>2 DEF DeleteUser, Begin
<1>4. CASE \E g \in GroupIds, u \in UserIds: AddMember(s, g, u)
  <2>1. PICK g \in GroupIds, u \in UserIds: AddMember(s, g, u)
    BY <1>4
  <2>2. Sound([op |-> "member", user |-> u, group |-> g])
    BY <2>1 DEF Sound, AddMember
  <2> QED
    BY <2>1, <2>2 DEF AddMember, Begin
<1>5. CASE \E g \in GroupIds, name \in Names: UpdateGroup(s, g, name)
  <2>1. PICK g \in GroupIds, name \in Names: UpdateGroup(s, g, name)
    BY <1>5
  <2> DEFINE loaded == [u \in UserIds |-> IF <<g, u>> \in members THEN users[u] ELSE None]
  <2>2. Sound([op |-> "group", group |-> g, name |-> name, loaded |-> loaded])
    BY DEF Sound
  <2> QED
    BY <2>1, <2>2 DEF UpdateGroup, Begin
<1>6. CASE \E r \in RoomIds, patch \in RoomPatch: UpdateRoom(s, r, patch)
  <2>1. PICK r \in RoomIds, patch \in RoomPatch: UpdateRoom(s, r, patch)
    BY <1>6
  <2>2. Sound([op |-> "room", room |-> r, row |-> Merged(rooms[r], patch)])
    BY <2>1 DEF Sound, UpdateRoom
  <2> QED
    BY <2>1, <2>2 DEF UpdateRoom, Begin
<1>7. CASE Continue(s) \/ Abandon(s)
  BY <1>1, <1>7 DEF Continue, SaveUser, DeleteUserRow, SaveGroup, AppendMember, SaveRoom, Abandon, End
<1>8. ASSUME NEW u \in UserIds, NEW role \in {"user", "admin"}, NEW name \in Usernames,
             CreateUser(u, name, role)
      PROVE  task' = task
  BY <1>8 DEF CreateUser, InsertUser
<1>9. CASE \/ \E g \in GroupIds, name \in Names: CreateGroup(g, name)
           \/ \E g \in GroupIds, u \in UserIds: RemoveMember(g, u)
           \/ \E g \in GroupIds: DeleteGroup(g)
           \/ \E r \in RoomIds, row \in RoomRow: CreateRoom(r, row)
           \/ \E r \in RoomIds: DeleteRoom(r)
  BY <1>9 DEF CreateGroup, RemoveMember, DeleteGroup, CreateRoom, DeleteRoom
<1>10. CASE Accounts(s)
  BY <1>2, <1>3, <1>8, <1>10 DEF Accounts
<1> QED
  BY <1>4, <1>5, <1>6, <1>7, <1>9, <1>10 DEF Administer, Grouping, Schedule

\* Accounts write neither rooms nor memberships that were not there.
LEMMA AccountsFrame ==
  ASSUME NEW s \in Slots, Accounts(s)
  PROVE  rooms' = rooms /\ added' = added /\ members' \subseteq members
BY DEF Accounts, DeleteUser, UpdateUserRole, CreateUser, InsertUser

\* Only CreateRoom and SaveRoom write rooms, and both write a row that was checked
\* as a whole.
LEMMA WindowsStep == TypeOK /\ WindowsOrdered /\ [Next]_vars => WindowsOrdered'
<1> SUFFICES ASSUME TypeOK, WindowsOrdered, [Next]_vars
             PROVE  WindowsOrdered'
  OBVIOUS
<1>1. CASE UNCHANGED vars
  BY <1>1 DEF vars, WindowsOrdered
<1>2. CASE \E u \in UserIds, name \in Usernames \cup {Blank}: Register(u, name)
  BY <1>2 DEF Register, InsertUser, WindowsOrdered
<1>3. ASSUME NEW s \in Slots, Administer(s) \/ Continue(s) \/ Abandon(s)
      PROVE  WindowsOrdered'
  <2>1. \A z \in Slots: task'[z].op = "room" => Ordered(task'[z].row)
    <3>1. CASE task' = task
      BY <3>1 DEF WindowsOrdered
    <3>2. CASE \E t: Sound(t) /\ task' = [task EXCEPT ![s] = t]
      BY <3>2 DEF Sound, WindowsOrdered, TypeOK
    <3> QED
      BY <1>3, <3>1, <3>2, OneTask
  <2>2. \A r \in RoomIds: rooms'[r] # None => Ordered(rooms'[r])
    <3>1. CASE rooms' = rooms
      BY <3>1 DEF WindowsOrdered
    <3>2. CASE SaveRoom(s)
      BY <3>2, TaskFields DEF SaveRoom, WindowsOrdered, TypeOK
    <3>3. CASE \E r \in RoomIds: DeleteRoom(r)
      BY <3>3 DEF DeleteRoom, WindowsOrdered, TypeOK
    <3>4. CASE \E r \in RoomIds, row \in RoomRow: CreateRoom(r, row)
      BY <3>4 DEF CreateRoom, WindowsOrdered, TypeOK
    <3>5. CASE \/ Grouping(s) \/ Abandon(s)
               \/ \E r \in RoomIds, patch \in RoomPatch: UpdateRoom(s, r, patch)
               \/ SaveUser(s) \/ DeleteUserRow(s) \/ SaveGroup(s) \/ AppendMember(s)
      BY <3>1, <3>5 DEF Grouping, Abandon, SaveUser, DeleteUserRow, CreateGroup, UpdateGroup,
        SaveGroup, DeleteGroup, AddMember, AppendMember, RemoveMember, UpdateRoom
    <3>6. CASE Accounts(s)
      BY <3>1, <3>6, AccountsFrame
    <3> QED
      BY <1>3, <3>2, <3>3, <3>4, <3>5, <3>6 DEF Administer, Schedule, Continue
  <2> QED
    BY <2>1, <2>2 DEF WindowsOrdered
<1> QED
  BY <1>1, <1>2, <1>3 DEF Next

\* No room ever ends before it starts, however many updates are merged and saved
\* at once: the invariant also covers the rows that wait to be saved.
THEOREM AlwaysOrdered == Spec => []WindowsOrdered
<1>1. Init => WindowsOrdered
  BY DEF Init, WindowsOrdered, Idle
<1> QED
  BY <1>1, WindowsStep, DirectoryTypeCorrect, PTL DEF Spec

\* Only AppendMember adds a membership of its own; SaveGroup adds those that the
\* request has loaded, and a request only loads what was there.
LEMMA MembershipsStep == TypeOK /\ MembershipsAdded /\ [Next]_vars => MembershipsAdded'
<1> SUFFICES ASSUME TypeOK, MembershipsAdded, [Next]_vars
             PROVE  MembershipsAdded'
  OBVIOUS
<1>1. CASE UNCHANGED vars
  BY <1>1 DEF vars, MembershipsAdded
<1>2. CASE \E u \in UserIds, name \in Usernames \cup {Blank}: Register(u, name)
  BY <1>2 DEF Register, InsertUser, MembershipsAdded
<1>3. ASSUME NEW s \in Slots, Administer(s) \/ Continue(s) \/ Abandon(s)
      PROVE  MembershipsAdded'
  <2>1. members' \subseteq added' /\ added \subseteq added'
    <3>1. CASE AppendMember(s)
      BY <3>1 DEF AppendMember, MembershipsAdded
    <3>2. CASE SaveGroup(s)
      <4> DEFINE joined == {u \in UserIds: task[s].loaded[u] # None}
      <4>1. added' = added /\ members' \subseteq members \cup ({task[s].group} \X joined)
        BY <3>2 DEF SaveGroup
      <4>2. ASSUME NEW u \in joined PROVE <<task[s].group, u>> \in added
        BY <3>2 DEF SaveGroup, MembershipsAdded
      <4> HIDE DEF joined
      <4>3. ASSUME NEW g \in {task[s].group}, NEW u \in joined PROVE <<g, u>> \in added
        BY <4>2
      <4> QED
        BY <4>1, <4>3, SMT DEF MembershipsAdded
    <3>3. CASE ~AppendMember(s) /\ ~SaveGroup(s)
      <4>1. added' = added /\ members' \subseteq members
        BY <1>3, <3>3, AccountsFrame DEF Administer, Continue, Grouping, Schedule, Abandon, SaveUser,
          DeleteUserRow, CreateGroup, UpdateGroup, DeleteGroup, AddMember, RemoveMember, CreateRoom,
          UpdateRoom, SaveRoom, DeleteRoom
      <4> QED
        BY <4>1 DEF MembershipsAdded
    <3> QED
      BY <3>1, <3>2, <3>3
  <2>2. \A z \in Slots, u \in UserIds:
          task'[z].op = "group" /\ task'[z].loaded[u] # None => <<task'[z].group, u>> \in added
    <3>1. CASE task' = task
      BY <3>1 DEF MembershipsAdded
    <3>2. CASE \E t: Sound(t) /\ task' = [task EXCEPT ![s] = t]
      BY <3>2 DEF Sound, MembershipsAdded, TypeOK
    <3> QED
      BY <1>3, <3>1, <3>2, OneTask
  <2> QED
    BY <2>1, <2>2 DEF MembershipsAdded
<1> QED
  BY <1>1, <1>2, <1>3 DEF Next

\* Nobody is ever in a group that AddMember has not put them in, whatever stale
\* memberships renames of the group write back.
THEOREM AlwaysAdded == Spec => []MembershipsAdded
<1>1. Init => MembershipsAdded
  BY DEF Init, MembershipsAdded, Idle
<1> QED
  BY <1>1, MembershipsStep, DirectoryTypeCorrect, PTL DEF Spec
-----------------------------------------------------------------------------
(* Usernames *)

\* An id that is given out was not given out before.
LEMMA FreshId ==
  ASSUME TypeOK, NEW u \in UserIds, NEW row, InsertUser(u, row)
  PROVE  owner[u] = None
BY DEF InsertUser, FreshUser

LEMMA InsertKeepsNames ==
  ASSUME TypeOK, NamesKept, NEW u \in UserIds, NEW row \in Account, InsertUser(u, row)
  PROVE  NamesKept'
<1>1. owner[u] = None
  BY FreshId
<1>2. row.name # None
  BY DEF Account
<1>3. ASSUME NEW v \in UserIds, NEW r, Owned(v, r)
      PROVE  owner'[v] # None /\ r.name \in {owner'[v], Blank}
  BY <1>1, <1>3 DEF Owned, InsertUser, TypeOK
<1>4. \A v \in UserIds: users'[v] # None => Owned(v, users[v])'
  <2> SUFFICES ASSUME NEW v \in UserIds, users'[v] # None PROVE Owned(v, users[v])'
    OBVIOUS
  <2>1. CASE v = u
    BY <1>2, <2>1 DEF Owned, InsertUser, TypeOK
  <2>2. CASE v # u
    BY <1>3, <2>2 DEF Owned, InsertUser, TypeOK, NamesKept
  <2> QED
    BY <2>1, <2>2
<1>5. \A z \in Slots: Remembered(task[z])'
  <2> SUFFICES ASSUME NEW z \in Slots PROVE Remembered(task[z])'
    OBVIOUS
  <2>1. task'[z] = task[z] /\ Remembered(task[z])
    BY DEF InsertUser, NamesKept
  <2>2. task[z].op = "role" => Owned(task[z].user, task[z].row)'
    BY <1>3, <2>1, TaskFields DEF Remembered, Owned
  <2>3. task[z].op = "group" => \A v \in UserIds: task[z].loaded[v] # None => Owned(v, task[z].loaded[v])'
    BY <1>3, <2>1 DEF Remembered, Owned
  <2>4. task[z].op = "member" => owner'[task[z].user] # None
    BY <1>1, <2>1, TaskFields DEF Remembered, InsertUser, TypeOK
  <2> QED
    BY <2>1, <2>2, <2>3, <2>4 DEF Remembered
<1> QED
  BY <1>4, <1>5 DEF NamesKept

\* A statement that is not an insert of CreateUser or Register writes rows that are
\* there or that a request remembers, or a row with no name.
LEMMA StatementKeepsNames ==
  ASSUME TypeOK, NamesKept, NEW s \in Slots, Administer(s) \/ Continue(s) \/ Abandon(s),
         owner' = owner
  PROVE  NamesKept'
<1>1. \A v \in UserIds: users'[v] # None => Owned(v, users'[v])
  <2> SUFFICES ASSUME NEW v \in UserIds, users'[v] # None PROVE Owned(v, users'[v])
    OBVIOUS
  <2>1. CASE users' = users
    BY <2>1 DEF NamesKept
  <2>2. CASE SaveUser(s)
    BY <2>2, TaskFields DEF SaveUser, NamesKept, Remembered, TypeOK
  <2>3. CASE DeleteUserRow(s)
    BY <2>3 DEF DeleteUserRow, NamesKept, TypeOK
  <2>4. CASE SaveGroup(s)
    BY <2>1, <2>4 DEF SaveGroup, NamesKept, Remembered, TypeOK
  <2>5. CASE AppendMember(s)
    BY <2>1, <2>5, TaskFields DEF AppendMember, NamesKept, Remembered, Owned, Ghost, TypeOK
  <2>6. CASE Accounts(s)
    <3>1. ASSUME NEW u \in UserIds, NEW row \in Account, InsertUser(u, row) PROVE FALSE
      BY <3>1, FreshId DEF InsertUser, TypeOK, Account
    <3>2. ASSUME NEW u \in UserIds, NEW role \in {"user", "admin"}, NEW name \in Usernames,
                 CreateUser(u, name, role)
          PROVE  FALSE
      BY <3>1, <3>2 DEF CreateUser, Account, Roles
    <3> QED
      BY <2>1, <2>6, <3>2 DEF Accounts, DeleteUser, UpdateUserRole
  <2>7. CASE Grouping(s) \/ Schedule(s) \/ Abandon(s) \/ SaveRoom(s)
    BY <2>1, <2>7 DEF Grouping, Schedule, Abandon, SaveRoom, CreateGroup, UpdateGroup, DeleteGroup,
      AddMember, RemoveMember, CreateRoom, UpdateRoom, DeleteRoom
  <2> QED
    BY <2>2, <2>3, <2>4, <2>5, <2>6, <2>7 DEF Administer, Continue
<1>2. \A z \in Slots: Remembered(task'[z])
  <2>1. CASE task' = task
    BY <2>1 DEF NamesKept
  <2>2. ASSUME NEW t, Sound(t), task' = [task EXCEPT ![s] = t]
        PROVE  \A z \in Slots: Remembered(task'[z])
    <3>1. t \in Task \cup {Idle}
      BY <2>2, TypeStep DEF TypeOK, Next
    <3>2. t.op \in {"role", "member"} => t.user \in UserIds
      BY <3>1 DEF Task, Idle
    <3>3. Remembered(t)
      BY <2>2, <3>2 DEF Sound, Remembered, NamesKept, Owned
    <3> QED
      BY <2>2, <3>3 DEF NamesKept, TypeOK
  <2> QED
    BY <2>1, <2>2, OneTask
<1> QED
  BY <1>1, <1>2 DEF NamesKept, Remembered, Owned

LEMMA NamesStep == TypeOK /\ NamesKept /\ [Next]_vars => NamesKept'
<1> SUFFICES ASSUME TypeOK, NamesKept, [Next]_vars
             PROVE  NamesKept'
  OBVIOUS
<1>1. CASE UNCHANGED vars
  BY <1>1 DEF vars, NamesKept, Remembered, Owned
<1>2. ASSUME NEW u \in UserIds, NEW name \in Usernames \cup {Blank}, Register(u, name)
      PROVE  NamesKept'
  <2>1. [name |-> name, role |-> "user", password |-> TRUE] \in Account
    BY DEF Account, Roles
  <2> QED
    BY <1>2, <2>1, InsertKeepsNames DEF Register
<1>3. ASSUME NEW u \in UserIds, NEW role \in {"user", "admin"}, NEW name \in Usernames,
             CreateUser(u, name, role)
      PROVE  NamesKept'
  <2>1. [name |-> name, role |-> role, password |-> TRUE] \in Account
    BY DEF Account, Roles
  <2> QED
    BY <1>3, <2>1, InsertKeepsNames DEF CreateUser
<1>4. ASSUME NEW s \in Slots, Administer(s) \/ Continue(s) \/ Abandon(s)
      PROVE  NamesKept'
  <2>1. CASE owner' = owner
    BY <1>4, <2>1, StatementKeepsNames
  <2>2. CASE owner' # owner
    <3>1. Accounts(s)
      BY <1>4, <2>2 DEF Administer, Continue, Grouping, Schedule, Abandon, SaveUser, DeleteUserRow,
        SaveGroup, AppendMember, SaveRoom, CreateGroup, UpdateGroup, DeleteGroup, AddMember,
        RemoveMember, CreateRoom, UpdateRoom, DeleteRoom
    <3> QED
      BY <1>3, <2>2, <3>1 DEF Accounts, DeleteUser, UpdateUserRole
  <2> QED
    BY <2>1, <2>2
<1> QED
  BY <1>1, <1>2, <1>4 DEF Next

\* An id, once given out, keeps its name.
LEMMA OwnerKept ==
  ASSUME TypeOK, [Next]_vars, NEW v \in UserIds, owner[v] # None
  PROVE  owner'[v] = owner[v]
<1>1. ASSUME NEW u \in UserIds, NEW row, InsertUser(u, row) PROVE owner'[v] = owner[v]
  BY <1>1, FreshId DEF InsertUser, TypeOK
<1>2. CASE \E u \in UserIds, name \in Usernames \cup {Blank}: Register(u, name)
  BY <1>1, <1>2 DEF Register
<1>3. ASSUME NEW s \in Slots, Accounts(s) PROVE owner'[v] = owner[v]
  BY <1>1, <1>3 DEF Accounts, CreateUser, DeleteUser, UpdateUserRole
<1>4. ASSUME NEW s \in Slots, Grouping(s) \/ Schedule(s) \/ Continue(s) \/ Abandon(s)
      PROVE  owner'[v] = owner[v]
  BY <1>4 DEF Grouping, Schedule, Continue, Abandon, SaveUser, DeleteUserRow, SaveGroup,
    AppendMember, SaveRoom, CreateGroup, UpdateGroup, DeleteGroup, AddMember, RemoveMember,
    CreateRoom, UpdateRoom, DeleteRoom
<1>5. CASE UNCHANGED vars
  BY <1>5 DEF vars
<1> QED
  BY <1>2, <1>3, <1>4, <1>5 DEF Next, Administer

LEMMA InitNamesKept == Init => NamesKept
<1> SUFFICES ASSUME Init PROVE NamesKept
  OBVIOUS
<1>1. \A u \in UserIds: users[u] # None => Owned(u, users[u])
  BY DEF Init, Owned, Account
<1>2. \A s \in Slots: Remembered(task[s])
  BY DEF Init, Remembered, Idle
<1> QED
  BY <1>1, <1>2 DEF NamesKept

\* An id of users stands for one username for ever, whatever rows are saved or
\* written back late: what a session relies on that goes by an id it read before.
THEOREM AlwaysNamesKept == Spec => []NamesKept
BY InitNamesKept, InitTyped, TypeStep, NamesStep, PTL DEF Spec

-----------------------------------------------------------------------------
(* References, and accounts that are gone *)

\* What the foreign keys of group_members and rooms hold: nothing refers to a row
\* that is not there.
MembershipsRefer ==
  \A g \in GroupIds, u \in UserIds: <<g, u>> \in members => groups[g] # None /\ users[u] # None

RoomsRefer ==
  \A r \in RoomIds: rooms[r] # None /\ rooms[r].group # NoGroup => groups[rooms[r].group] # None

ReferencesHold == MembershipsRefer /\ RoomsRefer

\* Only two statements take a row away, and both look at what refers to it.
LEMMA RowsStay ==
  ASSUME TypeOK, ReferencesHold, [Next]_vars
  PROVE  /\ \A u \in UserIds: users[u] # None /\ users'[u] = None =>
              \A g \in GroupIds: <<g, u>> \notin members'
         /\ \A g \in GroupIds: groups[g] # None /\ groups'[g] = None =>
              /\ \A u \in UserIds: <<g, u>> \notin members'
              /\ rooms' = rooms /\ \A r \in RoomIds: rooms[r] # None => rooms[r].group # g
<1>1. CASE UNCHANGED vars
  BY <1>1 DEF vars
<1>2. ASSUME NEW u \in UserIds, NEW row \in Account, InsertUser(u, row)
      PROVE  groups' = groups /\ \A v \in UserIds: users[v] # None => users'[v] # None
  BY <1>2 DEF InsertUser, TypeOK
<1>3. CASE \E u \in UserIds, name \in Usernames \cup {Blank}: Register(u, name)
  <2>1. PICK u \in UserIds, name \in Usernames \cup {Blank}: Register(u, name)
    BY <1>3
  <2>2. [name |-> name, role |-> "user", password |-> TRUE] \in Account
    BY DEF Account, Roles
  <2> QED
    BY <1>2, <2>1, <2>2 DEF Register
<1>4. ASSUME NEW s \in Slots, Accounts(s)
      PROVE  groups' = groups /\ \A v \in UserIds: users[v] # None => users'[v] # None
  <2>1. ASSUME NEW u \in UserIds, NEW role \in {"user", "admin"}, NEW name \in Usernames,
               CreateUser(u, name, role)
        PROVE  groups' = groups /\ \A v \in UserIds: users[v] # None => users'[v] # None
    <3>1. [name |-> name, role |-> role, password |-> TRUE] \in Account
      BY DEF Account, Roles
    <3> QED
      BY <1>2, <2>1, <3>1 DEF CreateUser
  <2> QED
    BY <1>4, <2>1 DEF Accounts, DeleteUser, UpdateUserRole
<1>5. ASSUME NEW s \in Slots, SaveUser(s)
      PROVE  groups' = groups /\ \A v \in UserIds: users[v] # None => users'[v] # None
  BY <1>5, TaskFields DEF SaveUser, TypeOK
<1>6. ASSUME NEW s \in Slots, DeleteUserRow(s)
      PROVE  /\ groups' = groups /\ members' = members
             /\ \A v \in UserIds: users[v] # None /\ users'[v] = None =>
                  \A g \in GroupIds: <<g, v>> \notin members
  BY <1>6, TaskFields DEF DeleteUserRow, TypeOK
<1>7. ASSUME NEW s \in Slots, SaveGroup(s) \/ AppendMember(s)
      PROVE  /\ \A v \in UserIds: users[v] # None => users'[v] # None
             /\ \A g \in GroupIds: groups[g] # None => groups'[g] # None
  BY <1>7, TaskFields DEF SaveGroup, AppendMember, TypeOK
<1>8. ASSUME NEW g \in GroupIds, DeleteGroup(g)
      PROVE  /\ users' = users /\ members' = members /\ rooms' = rooms
             /\ \A h \in GroupIds \ {g}: groups'[h] = groups[h]
             /\ \A u \in UserIds: <<g, u>> \notin members
             /\ \A r \in RoomIds: rooms[r] # None => rooms[r].group # g
  BY <1>8 DEF DeleteGroup, TypeOK
<1>9. ASSUME NEW g \in GroupIds, NEW name \in Names, CreateGroup(g, name)
      PROVE  users' = users /\ \A h \in GroupIds: groups[h] # None => groups'[h] # None
  BY <1>9 DEF CreateGroup, TypeOK
<1>10. ASSUME NEW s \in Slots, Grouping(s), ~\E g \in GroupIds: DeleteGroup(g)
       PROVE  users' = users /\ \A h \in GroupIds: groups[h] # None => groups'[h] # None
  BY <1>9, <1>10 DEF Grouping, UpdateGroup, AddMember, RemoveMember
<1>11. ASSUME NEW s \in Slots, Schedule(s) \/ SaveRoom(s) \/ Abandon(s)
       PROVE  users' = users /\ groups' = groups
  BY <1>11 DEF Schedule, CreateRoom, UpdateRoom, DeleteRoom, SaveRoom, Abandon
<1>12. CASE \E g \in GroupIds: DeleteGroup(g)
  BY <1>8, <1>12
<1>13. CASE \E s \in Slots: DeleteUserRow(s)
  BY <1>6, <1>13
<1> QED
  BY <1>1, <1>3, <1>4, <1>5, <1>7, <1>10, <1>11, <1>12, <1>13 DEF Next, Administer, Continue

\* What becomes a member or a room of a group refers to rows that are there.
LEMMA NewReferences ==
  ASSUME TypeOK, [Next]_vars
  PROVE  /\ \A g \in GroupIds, u \in UserIds:
              <<g, u>> \in members' /\ <<g, u>> \notin members => groups'[g] # None /\ users'[u] # None
         /\ \A r \in RoomIds:
              rooms'[r] # rooms[r] /\ rooms'[r] # None /\ rooms'[r].group # NoGroup =>
                groups'[rooms'[r].group] # None
<1>1. CASE UNCHANGED vars
  BY <1>1 DEF vars
<1>2. CASE \E u \in UserIds, name \in Usernames \cup {Blank}: Register(u, name)
  BY <1>2 DEF Register, InsertUser
<1>3. ASSUME NEW s \in Slots, Accounts(s)
      PROVE  rooms' = rooms /\ members' \subseteq members
  BY <1>3, AccountsFrame
<1>4. ASSUME NEW s \in Slots, Grouping(s) \/ Abandon(s) \/ SaveUser(s) \/ DeleteUserRow(s)
      PROVE  rooms' = rooms /\ members' \subseteq members
  BY <1>4 DEF Grouping, CreateGroup, UpdateGroup, DeleteGroup, AddMember, RemoveMember, Abandon,
    SaveUser, DeleteUserRow
<1>5. ASSUME NEW s \in Slots, SaveGroup(s)
      PROVE  /\ rooms' = rooms
             /\ \A g \in GroupIds, u \in UserIds:
                  <<g, u>> \in members' /\ <<g, u>> \notin members =>
                    groups'[g] # None /\ users'[u] # None
  <2> DEFINE joined == {u \in UserIds: task[s].loaded[u] # None}
  <2>1. rooms' = rooms
    BY <1>5 DEF SaveGroup
  <2>2. CASE members' = members
    BY <2>1, <2>2
  <2>3. CASE members' # members
    <3>1. /\ groups' = [groups EXCEPT ![task[s].group] = task[s].name]
          /\ users' = [u \in UserIds |-> IF users[u] = None THEN task[s].loaded[u] ELSE users[u]]
          /\ members' = members \cup ({task[s].group} \X joined)
      BY <1>5, <2>3 DEF SaveGroup
    <3>2. task[s].group \in GroupIds /\ task[s].name \in Names
      BY <1>5, TaskFields DEF SaveGroup
    <3>3. groups'[task[s].group] # None
      BY <3>1, <3>2 DEF TypeOK
    <3>4. ASSUME NEW u \in joined PROVE users'[u] # None
      BY <3>1
    <3> HIDE DEF joined
    <3> QED
      BY <2>1, <3>1, <3>3, <3>4
  <2> QED
    BY <2>2, <2>3
<1>6. ASSUME NEW s \in Slots, AppendMember(s)
      PROVE  /\ rooms' = rooms
             /\ \A g \in GroupIds, u \in UserIds:
                  <<g, u>> \in members' /\ <<g, u>> \notin members =>
                    groups'[g] # None /\ users'[u] # None
  <2>1. Ghost \in Account
    BY DEF Account, Roles, Ghost
  <2>2. Ghost # None
    BY <2>1
  <2> QED
    BY <1>6, <2>2, TaskFields DEF AppendMember, TypeOK
<1>7. ASSUME NEW s \in Slots, Schedule(s) \/ SaveRoom(s)
      PROVE  /\ members' = members /\ groups' = groups
             /\ \A r \in RoomIds:
                  rooms'[r] # rooms[r] /\ rooms'[r] # None /\ rooms'[r].group # NoGroup =>
                    groups[rooms'[r].group] # None
  <2>1. CASE SaveRoom(s)
    BY <2>1, TaskFields DEF SaveRoom, Storable, TypeOK
  <2>2. ASSUME NEW r \in RoomIds, NEW row \in RoomRow, CreateRoom(r, row)
        PROVE  /\ members' = members /\ groups' = groups
               /\ \A q \in RoomIds:
                    rooms'[q] # rooms[q] /\ rooms'[q] # None /\ rooms'[q].group # NoGroup =>
                      groups[rooms'[q].group] # None
    BY <2>2 DEF CreateRoom, Storable, TypeOK
  <2>3. CASE \E r \in RoomIds: DeleteRoom(r)
    BY <2>3 DEF DeleteRoom, TypeOK
  <2>4. CASE \E r \in RoomIds, patch \in RoomPatch: UpdateRoom(s, r, patch)
    BY <2>4 DEF UpdateRoom
  <2> QED
    BY <1>7, <2>1, <2>2, <2>3, <2>4 DEF Schedule
<1> QED
  BY <1>1, <1>2, <1>3, <1>4, <1>5, <1>6, <1>7 DEF Next, Administer, Continue

LEMMA ReferencesStep == TypeOK /\ ReferencesHold /\ [Next]_vars => ReferencesHold'
<1> SUFFICES ASSUME TypeOK, ReferencesHold, [Next]_vars
             PROVE  ReferencesHold'
  OBVIOUS
<1>1. MembershipsRefer'
  <2> SUFFICES ASSUME NEW g \in GroupIds, NEW u \in UserIds, <<g, u>> \in members'
               PROVE  groups'[g] # None /\ users'[u] # None
    BY DEF MembershipsRefer
  <2>1. CASE <<g, u>> \in members
    <3>1. groups[g] # None /\ users[u] # None
      BY <2>1 DEF ReferencesHold, MembershipsRefer
    <3> QED
      BY <3>1, RowsStay
  <2>2. CASE <<g, u>> \notin members
    BY <2>2, NewReferences
  <2> QED
    BY <2>1, <2>2
<1>2. RoomsRefer'
  <2> SUFFICES ASSUME NEW r \in RoomIds, rooms'[r] # None, rooms'[r].group # NoGroup
               PROVE  groups'[rooms'[r].group] # None
    BY DEF RoomsRefer
  <2>1. CASE rooms'[r] = rooms[r]
    <3>1. groups[rooms[r].group] # None /\ rooms[r].group \in GroupIds
      BY <2>1 DEF ReferencesHold, RoomsRefer, TypeOK, RoomRow
    <3> QED
      BY <2>1, <3>1, RowsStay
  <2>2. CASE rooms'[r] # rooms[r]
    BY <2>2, NewReferences
  <2> QED
    BY <2>1, <2>2
<1> QED
  BY <1>1, <1>2 DEF ReferencesHold

LEMMA InitReferences == Init => ReferencesHold
BY DEF Init, ReferencesHold, MembershipsRefer, RoomsRefer

\* No membership is left without its group or its account, and no room without its
\* group, although Saves insert rows again that were deleted.
THEOREM AlwaysReferences == Spec => []ReferencesHold
BY InitTyped, TypeStep, InitReferences, ReferencesStep, PTL DEF Spec

\* Every statement that inserts an account takes a new id or one that its request
\* has read, and every request begins by reading.
LEMMA GoneStep ==
  ASSUME TypeOK, [Next]_vars, NEW u \in UserIds, Gone(u)
  PROVE  Gone(u)'
<1>1. owner'[u] # None
  BY OwnerKept DEF Gone
<1>2. users'[u] = None
  <2>1. ASSUME NEW v \in UserIds, NEW row, InsertUser(v, row) PROVE users'[u] = None
    BY <2>1, FreshId DEF InsertUser, Gone, TypeOK
  <2>2. CASE UNCHANGED vars
    BY <2>2 DEF vars, Gone
  <2>3. CASE \E v \in UserIds, name \in Usernames \cup {Blank}: Register(v, name)
    BY <2>1, <2>3 DEF Register
  <2>4. ASSUME NEW s \in Slots, Accounts(s) PROVE users'[u] = None
    BY <2>1, <2>4 DEF Accounts, CreateUser, DeleteUser, UpdateUserRole, Gone
  <2>5. ASSUME NEW s \in Slots, SaveUser(s) \/ AppendMember(s) PROVE users'[u] = None
    BY <2>5, TaskFields DEF SaveUser, AppendMember, Gone, Recalls, TypeOK
  <2>6. ASSUME NEW s \in Slots, SaveGroup(s) PROVE users'[u] = None
    BY <2>6 DEF SaveGroup, Gone, Recalls, TypeOK
  <2>7. ASSUME NEW s \in Slots, DeleteUserRow(s) PROVE users'[u] = None
    BY <2>7, TaskFields DEF DeleteUserRow, Gone, TypeOK
  <2>8. ASSUME NEW s \in Slots, Grouping(s) \/ Schedule(s) \/ SaveRoom(s) \/ Abandon(s)
        PROVE  users'[u] = None
    BY <2>8 DEF Grouping, Schedule, SaveRoom, Abandon, CreateGroup, UpdateGroup, DeleteGroup,
      AddMember, RemoveMember, CreateRoom, UpdateRoom, DeleteRoom, Gone
  <2> QED
    BY <2>2, <2>3, <2>4, <2>5, <2>6, <2>7, <2>8 DEF Next, Administer, Continue
<1>3. ASSUME NEW z \in Slots PROVE ~Recalls(task'[z], u)
  <2>1. CASE task' = task
    BY <2>1 DEF Gone
  <2>2. ASSUME NEW s \in Slots, NEW t, Sound(t), task' = [task EXCEPT ![s] = t]
        PROVE  ~Recalls(task'[z], u)
    <3>1. ~Recalls(t, u)
      BY <2>2 DEF Sound, Recalls, Gone
    <3> QED
      BY <2>2, <3>1 DEF Gone, TypeOK
  <2>3. CASE \E s \in Slots: Administer(s) \/ Continue(s) \/ Abandon(s)
    BY <2>1, <2>2, <2>3, OneTask
  <2>4. CASE UNCHANGED vars \/ \E v \in UserIds, name \in Usernames \cup {Blank}: Register(v, name)
    BY <2>1, <2>4 DEF vars, Register, InsertUser
  <2> QED
    BY <2>3, <2>4 DEF Next
<1> QED
  BY <1>1, <1>2, <1>3 DEF Gone

\* An account that was deleted stays deleted, with its memberships, from the moment
\* on that no request is left that had read it.
THEOREM DeletedAlwaysGone == Spec => DeletedStaysGone
<1>1. TypeOK /\ ReferencesHold /\ ReferencesHold' /\ [Next]_vars =>
        [\A u \in UserIds: Gone(u) => Gone(u)' /\ \A g \in GroupIds: <<g, u>> \notin members']_vars
  <2> SUFFICES ASSUME TypeOK, ReferencesHold', [Next]_vars, NEW u \in UserIds, Gone(u)
               PROVE  Gone(u)' /\ \A g \in GroupIds: <<g, u>> \notin members'
    OBVIOUS
  <2>1. Gone(u)'
    BY GoneStep
  <2>2. users'[u] = None
    BY <2>1 DEF Gone
  <2> QED
    BY <2>1, <2>2 DEF ReferencesHold, MembershipsRefer
<1> QED
  BY <1>1, DirectoryTypeCorrect, AlwaysReferences, PTL DEF Spec, DeletedStaysGone

\* The only writers of memberships beside AddMember's and UpdateGroup's last
\* statements take memberships away.
LEMMA MembersOnlyLeave ==
  ASSUME [Next]_vars, \A s \in Slots: ~SaveGroup(s) /\ ~AppendMember(s)
  PROVE  members' \subseteq members
BY AccountsFrame DEF Next, Administer, Continue, Grouping, Schedule, Abandon, SaveUser, DeleteUserRow,
  CreateGroup, UpdateGroup, DeleteGroup, AddMember, RemoveMember, CreateRoom, UpdateRoom, SaveRoom,
  DeleteRoom, Register, InsertUser, vars

\* With one administrative request at a time the deletion of a user never meets a
\* foreign key: that it may (DeletionUnhindered does not hold) is only because it
\* is two statements and others get in between.
THEOREM LoneDeletionUnhindered ==
  ASSUME \A s, z \in Slots: s = z
  PROVE  Spec => []DeletionUnhindered
<1>1. Init => DeletionUnhindered
  BY DEF Init, DeletionUnhindered, Idle
<1>2. TypeOK /\ DeletionUnhindered /\ [Next]_vars => DeletionUnhindered'
  <2> SUFFICES ASSUME TypeOK, DeletionUnhindered, [Next]_vars,
                      NEW s \in Slots, task'[s].op = "delete", NEW g \in GroupIds
               PROVE  <<g, task'[s].user>> \notin members'
    BY DEF DeletionUnhindered
  <2>1. CASE task'[s] = task[s]
    <3>1. \A z \in Slots: ~SaveGroup(z) /\ ~AppendMember(z)
      BY <2>1 DEF SaveGroup, AppendMember
    <3> QED
      BY <2>1, <3>1, MembersOnlyLeave DEF DeletionUnhindered
  <2>2. CASE task'[s] # task[s]
    <3>1. \E z \in Slots: Administer(z) \/ Continue(z) \/ Abandon(z)
      BY <2>2 DEF Next, Register, InsertUser, vars
    <3>2. Administer(s) \/ Continue(s) \/ Abandon(s)
      BY <3>1
    <3>3. ~Continue(s) /\ ~Abandon(s)
      BY DEF Continue, Abandon, SaveUser, DeleteUserRow, SaveGroup, AppendMember, SaveRoom, End,
        TypeOK, Idle
    <3>4. ~Grouping(s) /\ ~Schedule(s)
      <4>1. ASSUME NEW t, Begin(s, t) PROVE t.op = "delete"
        BY <4>1 DEF Begin, TypeOK
      <4>2. ~Grouping(s)
        <5>1. ASSUME NEW h \in GroupIds, NEW name \in Names, UpdateGroup(s, h, name) PROVE FALSE
          BY <4>1, <5>1 DEF UpdateGroup
        <5>2. ASSUME NEW h \in GroupIds, NEW u \in UserIds, AddMember(s, h, u) PROVE FALSE
          BY <4>1, <5>2 DEF AddMember
        <5> QED
          BY <2>2, <5>1, <5>2 DEF Grouping, CreateGroup, DeleteGroup, RemoveMember
      <4>3. ~Schedule(s)
        <5>1. ASSUME NEW r \in RoomIds, NEW patch \in RoomPatch, UpdateRoom(s, r, patch) PROVE FALSE
          BY <4>1, <5>1 DEF UpdateRoom
        <5> QED
          BY <2>2, <5>1 DEF Schedule, CreateRoom, DeleteRoom
      <4> QED
        BY <4>2, <4>3
    <3>5. PICK u \in UserIds: DeleteUser(s, u)
      BY <2>2, <3>2, <3>3, <3>4 DEF Administer, Accounts, UpdateUserRole, CreateUser, InsertUser, Begin,
        TypeOK
    <3>6. task'[s].user = u
      BY <3>5 DEF DeleteUser, Begin, TypeOK
    <3> QED
      BY <3>5, <3>6 DEF DeleteUser
  <2> QED
    BY <2>1, <2>2
<1> QED
  BY <1>1, <1>2, DirectoryTypeCorrect, PTL DEF Spec

-----------------------------------------------------------------------------
(* The tables *)

LEMMA TablesStep == TypeOK /\ TypeOK' /\ [Next]_vars => [Edits!TablesNext]_(Edits!tableVars)
<1> SUFFICES ASSUME TypeOK, TypeOK', [Next]_vars, ~UNCHANGED <<rooms, members>>
             PROVE  Edits!TablesNext
  BY DEF Edits!tableVars
<1>1. \E s \in Slots: Administer(s) \/ Continue(s)
  BY DEF Next, vars, Register, InsertUser, Abandon
<1>2. PICK s \in Slots: Administer(s) \/ Continue(s)
  BY <1>1
<1>3. ASSUME rooms' = rooms PROVE Edits!TablesNext
  BY <1>3 DEF TypeOK, Edits!TablesNext, Edits!EditMembers
<1>4. ASSUME NEW r \in RoomIds, NEW row, rooms' = [rooms EXCEPT ![r] = row], members' = members
      PROVE  Edits!TablesNext
  BY <1>4 DEF TypeOK, Edits!TablesNext, Edits!EditOneRoom
<1>5. CASE Schedule(s)
  BY <1>3, <1>4, <1>5 DEF Schedule, CreateRoom, UpdateRoom, DeleteRoom
<1>6. CASE SaveRoom(s)
  BY <1>3, <1>4, <1>6, TaskFields DEF SaveRoom
<1>7. CASE Accounts(s) \/ Grouping(s)
  BY <1>3, <1>7, AccountsFrame DEF Grouping, CreateGroup, UpdateGroup, DeleteGroup, AddMember,
    RemoveMember
<1>8. CASE SaveUser(s) \/ DeleteUserRow(s) \/ SaveGroup(s) \/ AppendMember(s)
  BY <1>3, <1>8 DEF SaveUser, DeleteUserRow, SaveGroup, AppendMember
<1> QED
  BY <1>2, <1>5, <1>6, <1>7, <1>8 DEF Administer, Continue

\* However many administrators work at once, a statement changes one row of rooms or
\* memberships, never both: admission may rely on it.
THEOREM DirectoryKeepsTables == Spec => KeepsTables
<1>1. Init => Edits!TablesInit
  BY DEF Init, Edits!TablesInit
<1> QED
  BY <1>1, DirectoryTypeCorrect, TablesStep, PTL DEF Spec, KeepsTables, Edits!TablesSpec
=============================================================================
