---------------------------- MODULE SeederRunProofs ----------------------------
(***************************************************************************)
(* Proof that a run of the seeder which nothing disturbs leaves everything *)
(* in place.                                                               *)
(*                                                                         *)
(* The argument follows the program: what it has passed is there, and its  *)
(* own statements take nothing away.                                       *)
(***************************************************************************)
EXTENDS SeederProofs

HasUser(i) == \E u \in UserIds: Named(u, SeedUsers[i].name)

HasGroup(i) == \E g \in GroupIds: groups[g] = SeedGroups[i]

HasRoom(i) ==
  \E r \in RoomIds: HasCode(r, SeedRooms[i].code) \/ (rooms[r] # None /\ rooms[r].name = SeedRooms[i].name)

Full(g) ==
  \A k \in DOMAIN Joining: \E u \in UserIds: Named(u, Joining[k]) /\ <<g, u>> \in members

InUsers == {"users", "createUser"}
InGroups == {"groups", "createGroup", "append"}
InRooms == {"rooms", "createRoom"}

\* The accounts, groups and rooms behind the place of the program are there.
UsersThere == \A i \in DOMAIN SeedUsers: (seed.pc \in InUsers /\ i >= seed.at) \/ HasUser(i)

GroupsThere ==
  \A i \in DOMAIN SeedGroups:
    \/ seed.pc \in InUsers \cup {"fetch"}
    \/ seed.pc \in {"groups", "createGroup"} /\ i >= seed.at
    \/ seed.pc = "append" /\ i > seed.at
    \/ HasGroup(i)

RoomsThere ==
  \A i \in DOMAIN SeedRooms:
    \/ seed.pc \in InUsers \cup {"fetch", "link"} \cup InGroups
    \/ seed.pc \in InRooms /\ i >= seed.at
    \/ HasRoom(i)

\* Everybody who is to join has been found, up to where the program is.
AllFound ==
  seed.pc \in {"fetch"} \cup InGroups =>
    \A k \in DOMAIN seed.loaded:
      /\ seed.loaded[k] # None
      /\ users[seed.loaded[k].id] # None
      /\ users[seed.loaded[k].id].name = Joining[k]

\* Each group that was made is full, but for the one being filled.
Filled ==
  \A g \in run.made:
    \/ Full(g)
    \/ /\ seed.pc = "append" /\ g = seed.group
       /\ \A k \in DOMAIN Joining: k < seed.next => <<g, seed.loaded[k].id>> \in members

GroupKnown ==
  /\ seed.pc = "append" => groups[seed.group] # None
  /\ seed.pc \in InRooms /\ seed.group # NoGroup => groups[seed.group] # None

Progress ==
  run.clean /\ seed # Off =>
    UsersThere /\ GroupsThere /\ RoomsThere /\ AllFound /\ Filled /\ GroupKnown

-----------------------------------------------------------------------------
\* Who is to join is one of the accounts.
LEMMA JoiningSeeded ==
  \A k \in DOMAIN Joining: \E i \in DOMAIN SeedUsers: Joining[k] = SeedUsers[i].name
<1> DEFINE S == {SeedUsers[i].name: i \in DOMAIN SeedUsers}
<1>1. Joining \in Seq(S)
  BY SeedsAssumption
<1> HIDE DEF S
<1>2. \A k \in DOMAIN Joining: Joining[k] \in S
  BY <1>1
<1> QED
  BY <1>2 DEF S

\* So what is there stays there.
LEMMA StaysThere ==
  ASSUME TypeOK, SeederTypeOK, NamesKept, SeederStep
  PROVE  /\ \A i \in DOMAIN SeedUsers: HasUser(i) => HasUser(i)'
         /\ \A i \in DOMAIN SeedGroups: HasGroup(i) => HasGroup(i)'
         /\ \A i \in DOMAIN SeedRooms: HasRoom(i) => HasRoom(i)'
         /\ \A g \in GroupIds: Full(g) => Full(g)'
<1>1. \A n: \A u \in UserIds: Named(u, n) => users'[u] # None /\ users'[u].name = n
  BY OnlyAdds DEF Named
<1>2. \A i \in DOMAIN SeedUsers: HasUser(i) => HasUser(i)'
  BY <1>1 DEF HasUser, Named
<1>3. \A i \in DOMAIN SeedGroups: HasGroup(i) => HasGroup(i)'
  <2>1. \A i \in DOMAIN SeedGroups: SeedGroups[i] # None
    BY SeedsTyped, MarksAssumption
  <2> QED
    BY <2>1, OnlyAdds DEF HasGroup
<1>4. \A i \in DOMAIN SeedRooms: HasRoom(i) => HasRoom(i)'
  BY OnlyAdds DEF HasRoom, HasCode
<1>5. \A g \in GroupIds: Full(g) => Full(g)'
  BY <1>1, OnlyAdds DEF Full, Named
<1> QED
  BY <1>2, <1>3, <1>4, <1>5

-----------------------------------------------------------------------------
(* What the places have in common *)

\* An undisturbed step of the program: nothing has failed before or fails in it.
Undisturbed ==
  /\ TypeOK /\ SeederTypeOK /\ NamesKept
  /\ Progress /\ run.clean /\ seed # Off
  /\ SeederStep /\ run'.clean

LEMMA NoFailure == Undisturbed => ~Fails /\ run \in Run
BY DEF Undisturbed, SeederTypeOK, Fails, Run

LEMMA Behind ==
  ASSUME Undisturbed
  PROVE  /\ UsersThere /\ GroupsThere /\ RoomsThere /\ AllFound /\ Filled /\ GroupKnown
         /\ \A i \in DOMAIN SeedUsers: HasUser(i) => HasUser(i)'
         /\ \A i \in DOMAIN SeedGroups: HasGroup(i) => HasGroup(i)'
         /\ \A i \in DOMAIN SeedRooms: HasRoom(i) => HasRoom(i)'
         /\ \A g \in GroupIds: Full(g) => Full(g)'
         /\ seed.pc # "append" => \A g \in run.made: Full(g)'
         /\ seed.pc \notin InUsers => \A i \in DOMAIN SeedUsers: HasUser(i)'
<1>1. UsersThere /\ Filled /\ run \in Run
  BY NoFailure DEF Undisturbed, Progress
<1>2. /\ \A i \in DOMAIN SeedUsers: HasUser(i) => HasUser(i)'
      /\ \A g \in GroupIds: Full(g) => Full(g)'
  BY StaysThere DEF Undisturbed
<1>3. seed.pc # "append" => \A g \in run.made: Full(g)'
  BY <1>1, <1>2 DEF Filled, Run
<1>4. seed.pc \notin InUsers => \A i \in DOMAIN SeedUsers: HasUser(i)'
  BY <1>1, <1>2 DEF UsersThere
<1> QED
  BY <1>3, <1>4, StaysThere DEF Undisturbed, Progress

\* On to the next account, or to the groups.
LEMMA PastUser ==
  ASSUME Undisturbed, seed.pc \in InUsers, NEW n, n = seed.at,
         seed' = AfterUser, HasUser(n)', UNCHANGED run
  PROVE  Progress'
<1>1. seed.at \in DOMAIN SeedUsers
  BY SeedFields DEF Undisturbed, InUsers
<1>2. \A i \in DOMAIN SeedUsers: i <= n => HasUser(i)'
  BY <1>1, Behind, SeedsTyped DEF UsersThere
<1>3. \/ seed'.pc = "users" /\ seed'.at = seed.at + 1
      \/ seed'.pc = "fetch" /\ seed'.loaded = <<>> /\ seed.at = Len(SeedUsers)
  BY <1>1, SeedsTyped DEF AfterUser
<1>4. UsersThere'
  BY <1>1, <1>2, <1>3, SeedsTyped DEF UsersThere, InUsers
<1>5. GroupsThere' /\ RoomsThere' /\ AllFound' /\ GroupKnown'
  BY <1>3 DEF GroupsThere, RoomsThere, AllFound, GroupKnown, InUsers, InGroups, InRooms
<1>6. Filled'
  BY Behind DEF InUsers, Filled
<1> QED
  BY <1>4, <1>5, <1>6 DEF Progress

\* Who was found is still there.
LEMMA FoundStays ==
  ASSUME Undisturbed, seed.pc \in {"fetch"} \cup InGroups
  PROVE  \A k \in DOMAIN seed.loaded:
           /\ seed.loaded[k] # None
           /\ users'[seed.loaded[k].id] # None
           /\ users'[seed.loaded[k].id].name = Joining[k]
<1>1. seed.loaded \in Loaded
  BY SeedFields DEF Undisturbed, InGroups
<1>2. \A k \in DOMAIN seed.loaded: seed.loaded[k] # None => seed.loaded[k].id \in UserIds
  BY <1>1 DEF Loaded
<1> QED
  BY <1>2, Behind, OnlyAdds DEF AllFound, Undisturbed

\* On to the next group, or to the rooms.
LEMMA PastGroup ==
  ASSUME Undisturbed, seed.pc \in InGroups, NEW n, n = seed.at,
         seed' = AfterGroup, HasGroup(n)', \A g \in run'.made: Full(g)'
  PROVE  Progress'
<1>1. seed.at \in DOMAIN SeedGroups
  BY SeedFields DEF Undisturbed, InGroups
<1>2. \A i \in DOMAIN SeedGroups: i <= n => HasGroup(i)'
  BY <1>1, Behind, SeedsTyped DEF GroupsThere, InGroups, InUsers
<1>3. \/ seed'.pc = "groups" /\ seed'.at = seed.at + 1 /\ seed'.loaded = seed.loaded
      \/ seed'.pc = "link" /\ seed.at = Len(SeedGroups)
  BY <1>1, SeedsTyped DEF AfterGroup
<1>4. UsersThere'
  BY <1>3, Behind DEF UsersThere, InUsers, InGroups
<1>5. GroupsThere'
  BY <1>1, <1>2, <1>3, SeedsTyped DEF GroupsThere
<1>6. RoomsThere' /\ GroupKnown' /\ Filled'
  BY <1>3 DEF RoomsThere, GroupKnown, Filled, InGroups, InRooms
<1>7. AllFound'
  BY <1>3, FoundStays DEF AllFound, InGroups
<1> QED
  BY <1>4, <1>5, <1>6, <1>7 DEF Progress

\* On to the next room, or to the end.
LEMMA PastRoom ==
  ASSUME Undisturbed, seed.pc \in InRooms, NEW n, n = seed.at,
         seed' = AfterRoom, HasRoom(n)', UNCHANGED run
  PROVE  Progress'
<1>1. seed.at \in DOMAIN SeedRooms /\ seed.group \in GroupIds \cup {NoGroup}
  BY SeedFields DEF Undisturbed, InRooms
<1>2. \A i \in DOMAIN SeedRooms: i <= n => HasRoom(i)'
  BY <1>1, Behind, SeedsTyped DEF RoomsThere, InRooms, InUsers, InGroups
<1>3. \/ seed'.pc = "rooms" /\ seed'.at = seed.at + 1 /\ seed'.group = seed.group
      \/ seed'.pc = "done" /\ seed.at = Len(SeedRooms)
  BY <1>1, SeedsTyped DEF AfterRoom, Done
<1>4. UsersThere' /\ GroupsThere'
  BY <1>3, Behind DEF UsersThere, GroupsThere, InUsers, InGroups, InRooms
<1>5. RoomsThere'
  BY <1>1, <1>2, <1>3, SeedsTyped DEF RoomsThere, InRooms
<1>6. AllFound' /\ Filled'
  BY <1>3, Behind DEF AllFound, Filled, InGroups, InRooms
<1>7. GroupKnown'
  BY <1>1, <1>3, Behind, OnlyAdds DEF GroupKnown, InRooms, Undisturbed
<1> QED
  BY <1>4, <1>5, <1>6, <1>7 DEF Progress

-----------------------------------------------------------------------------
(* Step by step *)

LEMMA UsersProgress ==
  ASSUME Undisturbed, LookUser \/ CreateSeedUser
  PROVE  Progress'
<1>0. PICK n: n = seed.at
  OBVIOUS
<1>1. seed.pc \in InUsers /\ n \in DOMAIN SeedUsers /\ ~Fails
  BY <1>0, SeedFields, NoFailure DEF LookUser, CreateSeedUser, InUsers, Undisturbed
<1>2. CASE LookUser
  <2>1. CASE seed' = AfterUser /\ Fine /\ HasUser(n)
    BY <1>0, <1>1, <2>1, Behind, PastUser DEF Fine
  <2>2. CASE seed' = [seed EXCEPT !.pc = "createUser"] /\ Fine
    <3>1. seed'.pc = "createUser" /\ seed'.at = seed.at
      BY <1>2, <2>2 DEF LookUser, Undisturbed, SeederTypeOK, Seed, Off, Done
    <3>2. UsersThere'
      BY <1>1, <3>1, Behind DEF UsersThere, InUsers
    <3>3. GroupsThere' /\ RoomsThere' /\ AllFound' /\ GroupKnown'
      BY <3>1 DEF GroupsThere, RoomsThere, AllFound, GroupKnown, InUsers, InGroups, InRooms
    <3>4. Filled'
      BY <1>1, <2>2, Behind DEF Filled, Fine, InUsers
    <3> QED
      BY <3>2, <3>3, <3>4 DEF Progress
  <2> QED
    BY <1>0, <1>1, <1>2, <2>1, <2>2 DEF LookUser, HasUser
<1>3. CASE CreateSeedUser
  <2> DEFINE row == [name |-> SeedUsers[n].name, role |-> SeedUsers[n].role, password |-> TRUE]
  <2>1. PICK u \in UserIds: InsertUser(u, row) /\ Fine
    BY <1>0, <1>1, <1>3 DEF CreateSeedUser
  <2>2. row.name = SeedUsers[n].name /\ row # None
    <3>1. row \in Account
      BY <1>1, SeedsTyped DEF Account, Roles
    <3> QED
      BY <3>1, MarksAssumption
  <2> HIDE DEF row
  <2>3. users'[u] = row
    BY <2>1 DEF InsertUser, Undisturbed, TypeOK
  <2>4. HasUser(n)'
    BY <2>2, <2>3 DEF HasUser, Named
  <2> QED
    BY <1>0, <1>1, <1>3, <2>1, <2>4, PastUser DEF CreateSeedUser, Fine
<1> QED
  BY <1>2, <1>3

\* Everybody who is to join is found.
LEMMA FetchProgress ==
  ASSUME Undisturbed, FetchUser
  PROVE  Progress'
<1> DEFINE k == Len(seed.loaded) + 1
<1>1. /\ seed.pc = "fetch" /\ seed.loaded \in Loaded /\ Len(seed.loaded) < Len(Joining)
      /\ ~Fails /\ k \in DOMAIN Joining
  BY SeedFields, NoFailure, SeedsTyped DEF FetchUser, Undisturbed, Loaded
<1>2. \E u \in UserIds: Named(u, Joining[k])
  BY <1>1, JoiningSeeded, Behind DEF UsersThere, HasUser, InUsers
<1>3. PICK u \in UserIds: /\ FirstNamed(u, Joining[k])
                          /\ seed' = AfterFetch(Append(seed.loaded, [id |-> u, row |-> users[u]]))
                          /\ Fine
  BY <1>1, <1>2 DEF FetchUser
<1> DEFINE e == [id |-> u, row |-> users[u]]
<1>4. e.id = u /\ e # None /\ users[u] # None /\ users[u].name = Joining[k] /\ UNCHANGED vars
      /\ e \in [id: UserIds, row: Account] \cup {None}
  <2>1. users[u] # None /\ users[u].name = Joining[k] /\ users[u] \in Account
    BY <1>3 DEF FirstNamed, Named, Undisturbed, TypeOK
  <2> QED
    BY <1>3, <2>1, SeedsAssumption DEF FetchUser, Asks
<1>5. seed' = AfterFetch(Append(seed.loaded, e))
  BY <1>3
<1> HIDE DEF e
<1>6. ASSUME NEW i \in DOMAIN Append(seed.loaded, e)
      PROVE  \/ i = k /\ Append(seed.loaded, e)[i] = e
             \/ i \in DOMAIN seed.loaded /\ Append(seed.loaded, e)[i] = seed.loaded[i]
  BY <1>1, <1>4, <1>6 DEF Loaded
<1>7. seed'.loaded = Append(seed.loaded, e)
      /\ (seed'.pc = "fetch" \/ (seed'.pc = "groups" /\ seed'.at = 1))
  BY <1>5 DEF AfterFetch
<1>8. AllFound'
  <2>1. \A i \in DOMAIN seed.loaded:
          seed.loaded[i] # None /\ users[seed.loaded[i].id] # None
          /\ users[seed.loaded[i].id].name = Joining[i]
    BY <1>1, Behind DEF AllFound
  <2>2. \A i \in DOMAIN seed'.loaded:
          seed'.loaded[i] # None /\ users[seed'.loaded[i].id] # None
          /\ users[seed'.loaded[i].id].name = Joining[i]
    BY <1>4, <1>6, <1>7, <2>1
  <2> QED
    BY <1>4, <2>2 DEF AllFound, vars
<1>9. UsersThere' /\ RoomsThere' /\ GroupKnown'
  BY <1>1, <1>7, Behind DEF UsersThere, RoomsThere, GroupKnown, InUsers, InGroups, InRooms
<1>10. GroupsThere'
  BY <1>7, SeedsTyped DEF GroupsThere, InUsers
<1>11. Filled'
  BY <1>1, <1>3, Behind DEF Filled, Fine
<1> QED
  BY <1>8, <1>9, <1>10, <1>11 DEF Progress

LEMMA GroupsProgress ==
  ASSUME Undisturbed, LookGroup \/ CreateSeedGroup
  PROVE  Progress'
<1>0. PICK n: n = seed.at
  OBVIOUS
<1>1. seed.pc \in {"groups", "createGroup"} /\ seed.pc \in InGroups /\ n \in DOMAIN SeedGroups /\ ~Fails
      /\ run \in Run
  BY <1>0, SeedFields, NoFailure DEF LookGroup, CreateSeedGroup, InGroups, Undisturbed
<1>2. CASE seed' = AfterGroup /\ Fine /\ HasGroup(n)
  BY <1>0, <1>1, <1>2, Behind, PastGroup DEF Fine
<1>3. CASE LookGroup /\ seed' = [seed EXCEPT !.pc = "createGroup"] /\ Fine
  <2>1. seed'.pc = "createGroup" /\ seed'.at = seed.at /\ seed'.loaded = seed.loaded /\ seed.pc = "groups"
    BY <1>3 DEF LookGroup, Undisturbed, SeederTypeOK, Seed, Off, Done
  <2>2. UsersThere' /\ RoomsThere' /\ GroupKnown'
    BY <1>1, <2>1, Behind DEF UsersThere, RoomsThere, GroupKnown, InUsers, InGroups, InRooms
  <2>3. GroupsThere'
    BY <2>1, Behind DEF GroupsThere, InUsers
  <2>4. AllFound'
    BY <1>1, <2>1, FoundStays DEF AllFound
  <2>5. Filled'
    BY <1>3, <2>1, Behind DEF Filled, Fine
  <2> QED
    BY <2>2, <2>3, <2>4, <2>5 DEF Progress
<1>4. ASSUME NEW g \in GroupIds, CreateGroup(g, SeedGroups[n]),
             seed' = [pc |-> "append", at |-> seed.at, loaded |-> seed.loaded,
                      group |-> g, next |-> 1],
             run' = [run EXCEPT !.made = run.made \cup {g}]
      PROVE  Progress'
  <2>1. groups'[g] = SeedGroups[n] /\ SeedGroups[n] # None
    BY <1>1, <1>4, SeedsTyped, MarksAssumption DEF CreateGroup, Undisturbed, TypeOK
  <2>2. /\ seed'.pc = "append" /\ seed'.at = n /\ seed'.loaded = seed.loaded
        /\ seed'.group = g /\ seed'.next = 1 /\ run'.made = run.made \cup {g}
    BY <1>0, <1>1, <1>4 DEF Run
  <2>3. UsersThere' /\ RoomsThere'
    BY <1>1, <2>2, Behind DEF UsersThere, RoomsThere, InUsers, InGroups
  <2>4. GroupsThere'
    BY <1>0, <1>1, <2>1, <2>2, Behind, SeedsTyped DEF GroupsThere, HasGroup, InUsers
  <2>5. AllFound'
    BY <1>1, <2>2, FoundStays DEF AllFound
  <2>6. Filled'
    BY <1>1, <2>2, Behind, SeedsTyped DEF Filled
  <2>7. GroupKnown'
    BY <2>1, <2>2 DEF GroupKnown, InRooms
  <2> QED
    BY <2>3, <2>4, <2>5, <2>6, <2>7 DEF Progress
<1>5. CASE LookGroup
  BY <1>0, <1>1, <1>2, <1>3, <1>5 DEF LookGroup, HasGroup
<1>6. CASE CreateSeedGroup
  BY <1>0, <1>1, <1>2, <1>4, <1>6 DEF CreateSeedGroup, HasGroup
<1> QED
  BY <1>5, <1>6

\* One more member joins: with the last one the group is full.
LEMMA AppendProgress ==
  ASSUME Undisturbed, AppendSeed
  PROVE  Progress'
<1>0. PICK n, g, m: n = seed.at /\ g = seed.group /\ m = seed.next
  OBVIOUS
<1>1. /\ seed.pc = "append" /\ seed.pc \in InGroups /\ n \in DOMAIN SeedGroups /\ ~Fails
      /\ g \in GroupIds /\ m \in DOMAIN Joining /\ run \in Run
      /\ seed.loaded \in Loaded
  BY <1>0, SeedFields, NoFailure DEF AppendSeed, InGroups, Undisturbed, SeederTypeOK, Seed, Off, Done
<1>2. DOMAIN seed.loaded = DOMAIN Joining
  <2>1. Len(seed.loaded) = Len(Joining)
    BY <1>1 DEF Undisturbed, SeederTypeOK
  <2> QED
    BY <1>1, <2>1, SeedsTyped DEF Loaded
<1>3. \A k \in DOMAIN Joining:
        /\ seed.loaded[k] # None /\ users[seed.loaded[k].id] # None
        /\ users[seed.loaded[k].id].name = Joining[k]
        /\ seed.loaded[k].id \in UserIds
  BY <1>1, <1>2, Behind DEF AllFound, Loaded
<1>4. groups[g] # None
  BY <1>0, <1>1, Behind DEF GroupKnown
<1>5. /\ members' = members \cup ({g} \X {j.id: j \in Joined})
      /\ seed' = AfterAppend /\ UNCHANGED <<groups, run>>
  BY <1>0, <1>1, <1>3, <1>4 DEF AppendSeed, Fine
<1>6. \A k \in DOMAIN Joining: k <= m => <<g, seed.loaded[k].id>> \in members'
  <2>1. \A k \in DOMAIN Joining: k <= m => seed.loaded[k] \in Joined
    BY <1>0, <1>1, <1>3, SeedsTyped DEF Joined
  <2> QED
    BY <1>5, <2>1
<1>7. \A h \in run.made: h = g \/ Full(h)'
  BY <1>0, <1>1, Behind DEF Filled, Run
<1>8. CASE m < Len(Joining)
  <2>1. seed' = [seed EXCEPT !.next = m + 1]
    BY <1>0, <1>5, <1>8 DEF AfterAppend
  <2>2. /\ seed'.pc = "append" /\ seed'.at = n /\ seed'.loaded = seed.loaded
        /\ seed'.group = g /\ seed'.next = m + 1
    BY <1>0, <1>1, <2>1 DEF Undisturbed, SeederTypeOK, Seed, Off, Done
  <2>3. UsersThere' /\ RoomsThere'
    BY <1>1, <2>2, Behind DEF UsersThere, RoomsThere, InUsers, InGroups
  <2>4. GroupsThere'
    BY <1>0, <1>1, <2>2, Behind DEF GroupsThere, InUsers
  <2>5. AllFound'
    BY <1>1, <2>2, FoundStays DEF AllFound
  <2>6. Filled'
    BY <1>1, <1>5, <1>6, <1>7, <2>2, SeedsTyped DEF Filled
  <2>7. GroupKnown'
    BY <1>4, <1>5, <2>2 DEF GroupKnown, InRooms
  <2> QED
    BY <2>3, <2>4, <2>5, <2>6, <2>7 DEF Progress
<1>9. CASE m = Len(Joining)
  <2>1. seed' = AfterGroup
    BY <1>0, <1>5, <1>9 DEF AfterAppend
  <2>2. \A k \in DOMAIN Joining: \E u \in UserIds:
          users'[u] # None /\ users'[u].name = Joining[k] /\ <<g, u>> \in members'
    BY <1>1, <1>2, <1>3, <1>6, <1>9, FoundStays, SeedsTyped
  <2>3. Full(g)'
    BY <2>2 DEF Full, Named
  <2>4. HasGroup(n)'
    BY <1>0, <1>1, Behind, SeedsTyped DEF GroupsThere, InUsers
  <2> QED
    BY <1>0, <1>1, <1>5, <1>7, <2>1, <2>3, <2>4, PastGroup
<1> QED
  BY <1>1, <1>8, <1>9, SeedsTyped

LEMMA RoomsProgress ==
  ASSUME Undisturbed, LinkGroup \/ LookRoom \/ CreateSeedRoom
  PROVE  Progress'
<1>1. ~Fails
  BY NoFailure
<1>2. CASE LinkGroup
  <2>1. seed.pc = "link" /\ UNCHANGED <<vars, run>>
    BY <1>1, <1>2 DEF LinkGroup, Asks, Fine
  <2>2. /\ seed'.pc = "rooms" /\ seed'.at = 1
        /\ seed'.group = NoGroup \/ (seed'.group \in GroupIds /\ groups[seed'.group] = LinkedGroup)
    BY <1>2 DEF LinkGroup
  <2>3. UsersThere' /\ GroupsThere' /\ RoomsThere' /\ AllFound' /\ Filled'
    BY <2>1, <2>2, Behind, SeedsTyped
       DEF UsersThere, GroupsThere, RoomsThere, AllFound, Filled, InUsers, InGroups, InRooms
  <2>4. GroupKnown'
    BY <2>1, <2>2, SeedsAssumption, MarksAssumption DEF GroupKnown, vars
  <2> QED
    BY <2>3, <2>4 DEF Progress
<1>3. CASE LookRoom \/ CreateSeedRoom
  <2>0. PICK n: n = seed.at
    OBVIOUS
  <2>1. /\ seed.pc \in {"rooms", "createRoom"} /\ seed.pc \in InRooms /\ n \in DOMAIN SeedRooms
        /\ seed.group \in GroupIds \cup {NoGroup} /\ UNCHANGED run
    BY <1>1, <1>3, <2>0, SeedFields DEF LookRoom, CreateSeedRoom, InRooms, Undisturbed, Fine
  <2>2. CASE seed' = AfterRoom /\ HasRoom(n)
    BY <2>0, <2>1, <2>2, Behind, PastRoom
  <2>3. CASE LookRoom /\ seed' = [seed EXCEPT !.pc = "createRoom"]
    <3>1. seed'.pc = "createRoom" /\ seed'.at = seed.at /\ seed'.group = seed.group
      BY <2>3 DEF LookRoom, Undisturbed, SeederTypeOK, Seed, Off, Done
    <3>2. UsersThere' /\ GroupsThere' /\ RoomsThere' /\ AllFound' /\ Filled'
      BY <2>1, <3>1, Behind
         DEF UsersThere, GroupsThere, RoomsThere, AllFound, Filled, InUsers, InGroups, InRooms
    <3>3. GroupKnown'
      BY <2>1, <2>3, <3>1, Behind DEF GroupKnown, LookRoom, Asks, vars
    <3> QED
      BY <3>2, <3>3 DEF Progress
  <2>4. CASE LookRoom
    BY <1>1, <2>0, <2>2, <2>3, <2>4 DEF LookRoom, HasRoom
  <2>5. ASSUME NEW r \in RoomIds, NEW row \in RoomRow, CreateRoom(r, row), row.name = SeedRooms[n].name,
               code' = [code EXCEPT ![r] = SeedRooms[n].code], seed' = AfterRoom
        PROVE  Progress'
    <3>1. code'[r] = SeedRooms[n].code
      BY <2>5 DEF Undisturbed, SeederTypeOK
    <3>2. rooms'[r] = row /\ row # None
      BY <2>5, SeedsAssumption DEF CreateRoom, Undisturbed, TypeOK
    <3>3. HasRoom(n)'
      BY <3>1, <3>2 DEF HasRoom, HasCode
    <3> QED
      BY <2>0, <2>1, <2>5, <3>3, PastRoom
  <2>6. CASE CreateSeedRoom
    <3> DEFINE new == SeedRooms[n]
               group == IF new.linked THEN seed.group ELSE NoGroup
    <3>1. CASE \E r \in RoomIds: rooms[r] # None /\ (rooms[r].name = new.name \/ code[r] = new.code)
      BY <2>0, <2>2, <2>6, <3>1 DEF CreateSeedRoom, HasRoom, HasCode
    <3>2. group = NoGroup \/ groups[group] # None
      BY <2>1, Behind DEF GroupKnown
    <3>3. ASSUME NEW r \in RoomIds, NEW start \in Dates, NEW end \in Dates
          PROVE  [name |-> new.name, group |-> group, start |-> start, end |-> end] \in RoomRow
      BY <2>1, SeedsTyped DEF RoomRow
    <3> HIDE DEF group
    <3>4. CASE \E r \in RoomIds, start \in Dates, end \in Dates:
                 /\ CreateRoom(r, [name |-> new.name, group |-> group, start |-> start, end |-> end])
                 /\ code' = [code EXCEPT ![r] = new.code]
      BY <2>5, <2>6, <3>3, <3>4 DEF CreateSeedRoom
    <3> QED
      BY <1>1, <2>0, <2>6, <3>1, <3>2, <3>4 DEF CreateSeedRoom, group
  <2> QED
    BY <1>3, <2>4, <2>6
<1> QED
  BY <1>2, <1>3

-----------------------------------------------------------------------------
(* The whole run *)

\* Everything that is not a step of the program: nothing that Progress is about
\* changes, or the run is disturbed, or a new one begins.
LEMMA BesideProgress ==
  ASSUME TypeOK, SeederTypeOK, Progress, Start \/ Crash \/ Serve \/ \E s \in Slots: RefuseCode(s)
  PROVE  Progress'
<1>1. CASE Start
  <2>1. seed' = [pc |-> "users", at |-> 1] /\ run'.made = {}
    BY <1>1 DEF Start, SeederTypeOK, Run
  <2> QED
    BY <2>1, SeedsTyped DEF Progress, UsersThere, GroupsThere, RoomsThere, AllFound, Filled, GroupKnown,
       InUsers, InGroups, InRooms
<1>2. CASE Crash
  BY <1>2 DEF Crash, Progress
<1>3. ASSUME Serve \/ \E s \in Slots: RefuseCode(s), run'.clean, seed # Off
      PROVE  Progress'
  <2>1. CASE Serve
    <3>1. run.clean /\ run'.made = run.made /\ UNCHANGED <<users, groups, members, rooms, seed>>
      BY <1>3, <2>1 DEF Serve, SeederTypeOK, Run, Tables
    <3>2. \A r \in RoomIds: rooms[r] # None => code'[r] = code[r]
      BY <2>1 DEF Serve, Unknown
    <3>3. \A i \in DOMAIN SeedRooms: HasRoom(i) => HasRoom(i)'
      BY <3>1, <3>2 DEF HasRoom, HasCode
    <3> QED
      BY <1>3, <3>1, <3>3 DEF Progress, UsersThere, GroupsThere, RoomsThere, AllFound, Filled, GroupKnown,
         HasUser, HasGroup, Full, Named
  <2>2. CASE \E s \in Slots: RefuseCode(s)
    BY <1>3, <2>2 DEF RefuseCode, Progress, UsersThere, GroupsThere, RoomsThere, AllFound, Filled,
       GroupKnown, HasUser, HasGroup, HasRoom, HasCode, Full, Named
  <2> QED
    BY <1>3, <2>1, <2>2
<1>4. ASSUME Serve \/ \E s \in Slots: RefuseCode(s), ~(run'.clean /\ seed # Off)
      PROVE  Progress'
  BY <1>4 DEF Serve, RefuseCode, Progress
<1> QED
  BY <1>1, <1>2, <1>3, <1>4

LEMMA ProgressStep ==
  TypeOK /\ SeederTypeOK /\ SeederNamesKept /\ Progress /\ [SeederNext]_seederVars => Progress'
<1> SUFFICES ASSUME TypeOK, SeederTypeOK, SeederNamesKept, Progress, [SeederNext]_seederVars
             PROVE  Progress'
  OBVIOUS
<1>1. CASE UNCHANGED seederVars
  BY <1>1 DEF seederVars, vars, Progress, UsersThere, GroupsThere, RoomsThere, AllFound, Filled,
     GroupKnown, HasUser, HasGroup, HasRoom, HasCode, Full, Named
<1>2. CASE SeederStep
  <2>1. seed # Off
    BY <1>2 DEF SeederStep, LookUser, CreateSeedUser, FetchUser, LookGroup, CreateSeedGroup, AppendSeed,
       LinkGroup, LookRoom, CreateSeedRoom, Off
  <2>2. ASSUME run'.clean PROVE run.clean
    <3>1. Fine \/ Fails \/ \E g \in GroupIds: run' = [run EXCEPT !.made = run.made \cup {g}]
      BY <1>2 DEF SeederStep, LookUser, CreateSeedUser, FetchUser, LookGroup, CreateSeedGroup, AppendSeed,
         LinkGroup, LookRoom, CreateSeedRoom
    <3>2. run \in Run
      BY DEF SeederTypeOK
    <3> QED
      BY <2>2, <3>1, <3>2 DEF Fine, Fails, Run
  <2>3. CASE run'.clean
    <3>1. Undisturbed
      BY <1>2, <2>1, <2>2, <2>3 DEF Undisturbed, SeederNamesKept
    <3> QED
      BY <1>2, <3>1, UsersProgress, FetchProgress, GroupsProgress, AppendProgress, RoomsProgress
         DEF SeederStep
  <2> QED
    BY <2>3 DEF Progress
<1> QED
  BY <1>1, <1>2, BesideProgress DEF SeederNext

\* A run that nothing has disturbed leaves every account, group and room in place,
\* and the groups it has made with all their members.
THEOREM SeederAlwaysComplete == SeederSpec => []SeedComplete
<1>1. SeederInit => Progress
  BY DEF SeederInit, Progress
<1>2. SeederTypeOK /\ Progress => SeedComplete
  BY DEF Progress, SeedComplete, UsersThere, GroupsThere, RoomsThere, Filled, InUsers, InGroups, InRooms,
     HasUser, HasGroup, HasRoom, Full, Done, Off
<1> QED
  BY <1>1, <1>2, SeederTypeCorrect, SeederAlwaysNamesKept, ProgressStep, PTL DEF SeederSpec
=============================================================================
