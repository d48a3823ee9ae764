-------------------------------- MODULE Seeder --------------------------------
(***************************************************************************)
(* cmd/seeder: the program that fills the tables with a first set of       *)
(* accounts, groups and rooms.  It is shipped with the server and may run  *)
(* again, after it was cut off too, and while the server is used.          *)
(*                                                                         *)
(* For each thing it asks whether it is there and creates it if not, one   *)
(* statement after the other without a transaction; a statement that fails *)
(* is logged and the program goes on.                                      *)
(***************************************************************************)
EXTENDS Directory, Sequences

CONSTANTS
  SeedUsers,    \* the accounts: a sequence of [name, role]
  Joining,      \* the usernames that are put into each group it creates
  SeedGroups,   \* the groups: a sequence of names
  SeedRooms,    \* the rooms: a sequence of [code, name, linked]
  LinkedGroup,  \* the name of the group that a linked room belongs to
  Codes         \* the room codes of SeedRooms

ASSUME SeedsAssumption ==
  /\ SeedUsers \in Seq([name: Usernames, role: {"user", "admin"}]) /\ SeedUsers # <<>>
  /\ Joining \in Seq({SeedUsers[i].name: i \in DOMAIN SeedUsers}) /\ Joining # <<>>
  /\ SeedGroups \in Seq(Names) /\ SeedGroups # <<>>
  /\ SeedRooms \in Seq([code: Codes, name: Names, linked: BOOLEAN]) /\ SeedRooms # <<>>
  /\ LinkedGroup \in Names
  /\ None \notin Codes \cup [id: UserIds, row: Account] \cup RoomRow

VARIABLES
  seed,       \* where the program is
  code,       \* column room_code of rooms; None: one that the server has generated
  run         \* history: what can have disturbed the program

seederVars == <<vars, seed, code, run>>

Off == [pc |-> "off"]
Done == [pc |-> "done"]

Loaded == Seq([id: UserIds, row: Account] \cup {None})

\* at: the thing it is about.  loaded: the rows of Joining, as far as they were read.
\* group, next: the group just created and who is to join it.
Seed ==
  [pc: {"users", "createUser"}, at: DOMAIN SeedUsers]
    \cup [pc: {"fetch"}, loaded: Loaded]
    \cup [pc: {"groups", "createGroup"}, at: DOMAIN SeedGroups, loaded: Loaded]
    \cup [pc: {"append"}, at: DOMAIN SeedGroups, loaded: Loaded, group: GroupIds, next: DOMAIN Joining]
    \cup [pc: {"link"}]
    \cup [pc: {"rooms", "createRoom"}, at: DOMAIN SeedRooms, group: GroupIds \cup {NoGroup}]

\* alone: nobody else has ever written to the tables.  clean: nobody has since the
\* program was started, and no statement of it has failed.  made: the groups that
\* it has created since.
Run == [alone: BOOLEAN, clean: BOOLEAN, made: SUBSET GroupIds]

SeederTypeOK ==
  /\ seed \in Seed \cup {Off, Done}
  /\ seed.pc = "fetch" => Len(seed.loaded) < Len(Joining)
  /\ seed.pc \in {"groups", "createGroup", "append"} => Len(seed.loaded) = Len(Joining)
  /\ code \in [RoomIds -> Codes \cup {None}]
  /\ run \in Run

SeederInit ==
  /\ Init
  /\ seed = Off
  /\ code = [r \in RoomIds |-> None]
  /\ run = [alone |-> \A u \in UserIds: Seeded[u] = None, clean |-> TRUE, made |-> {}]

Tables == <<users, groups, members, rooms>>
Asks == UNCHANGED <<vars, code>>

Fine == UNCHANGED run
Fails == Faults /\ run' = [run EXCEPT !.clean = FALSE]

Start ==
  /\ seed \in {Off, Done}
  /\ seed' = [pc |-> "users", at |-> 1]
  /\ run' = [run EXCEPT !.clean = TRUE, !.made = {}]
  /\ Asks

-----------------------------------------------------------------------------
(* seedUsers *)

AfterUser ==
  IF seed.at < Len(SeedUsers) THEN [pc |-> "users", at |-> seed.at + 1]
                              ELSE [pc |-> "fetch", loaded |-> <<>>]

\* A slip: whatever the query says, the account is created.
LookUserBlind ==
  /\ seed.pc = "users"
  /\ seed' = [seed EXCEPT !.pc = "createUser"]
  /\ Fine /\ Asks

LookUser ==
  /\ seed.pc = "users"
  /\ LET there == \E u \in UserIds: Named(u, SeedUsers[seed.at].name)
     IN \/ there /\ seed' = AfterUser /\ Fine
        \/ ~there /\ seed' = [seed EXCEPT !.pc = "createUser"] /\ Fine
        \/ seed' = AfterUser /\ Fails
  /\ Asks

\* A slip: the accounts are given ids by the program instead of the sequence.
CreateSeedUserNumbered ==
  /\ seed.pc = "createUser"
  /\ LET new == SeedUsers[seed.at]
         id == seed.at
     IN \/ /\ users[id] = None
           /\ users' = [users EXCEPT ![id] = [name |-> new.name, role |-> new.role, password |-> TRUE]]
           /\ owner' = [owner EXCEPT ![id] = new.name]
           /\ UNCHANGED <<groups, members, rooms, task, added>>
        \/ users[id] # None /\ UNCHANGED vars
  /\ seed' = AfterUser
  /\ Fine /\ UNCHANGED code

CreateSeedUser ==
  /\ seed.pc = "createUser"
  /\ LET new == SeedUsers[seed.at]
     IN \/ \E u \in UserIds:
             InsertUser(u, [name |-> new.name, role |-> new.role, password |-> TRUE]) /\ Fine
        \/ Fails /\ UNCHANGED vars
  /\ seed' = AfterUser
  /\ UNCHANGED code

-----------------------------------------------------------------------------
(* seedGroups *)

AfterFetch(loaded) ==
  IF Len(loaded) < Len(Joining) THEN [pc |-> "fetch", loaded |-> loaded]
                                ELSE [pc |-> "groups", at |-> 1, loaded |-> loaded]

\* Who is not found, or not read, stays the zero user, which joins nothing.
FetchUser ==
  /\ seed.pc = "fetch"
  /\ LET name == Joining[Len(seed.loaded) + 1]
     IN \/ \E u \in UserIds:
             /\ FirstNamed(u, name)
             /\ seed' = AfterFetch(Append(seed.loaded, [id |-> u, row |-> users[u]]))
             /\ Fine
        \/ /\ \A u \in UserIds: ~Named(u, name)
           /\ seed' = AfterFetch(Append(seed.loaded, None))
           /\ Fine
        \/ /\ seed' = AfterFetch(Append(seed.loaded, None))
           /\ Fails
  /\ Asks

AfterGroup ==
  IF seed.at < Len(SeedGroups)
    THEN [pc |-> "groups", at |-> seed.at + 1, loaded |-> seed.loaded]
    ELSE [pc |-> "link"]

\* A group that is there is left as it is, whoever has joined it.
LookGroup ==
  /\ seed.pc = "groups"
  /\ LET there == \E g \in GroupIds: groups[g] = SeedGroups[seed.at]
     IN \/ there /\ seed' = AfterGroup /\ Fine
        \/ ~there /\ seed' = [seed EXCEPT !.pc = "createGroup"] /\ Fine
        \/ seed' = AfterGroup /\ Fails
  /\ Asks

\* The unique index refuses a name that has been taken meanwhile.
CreateSeedGroup ==
  /\ seed.pc = "createGroup"
  /\ LET name == SeedGroups[seed.at]
     IN \/ \E g \in GroupIds:
             /\ CreateGroup(g, name)
             /\ seed' = [pc |-> "append", at |-> seed.at, loaded |-> seed.loaded,
                         group |-> g, next |-> 1]
             /\ run' = [run EXCEPT !.made = run.made \cup {g}]
        \/ /\ \E h \in GroupIds: groups[h] = name
           /\ seed' = AfterGroup
           /\ Fine /\ UNCHANGED vars
        \/ /\ seed' = AfterGroup
           /\ Fails /\ UNCHANGED vars
  /\ UNCHANGED code

\* The members of the group in memory: everybody appended so far, written or not.
Joined == {seed.loaded[k]: k \in {i \in 1..seed.next: seed.loaded[i] # None}}

Read(u) == (CHOOSE m \in Joined: m.id = u).row

\* A slip: one user joins and the program goes on to the next group.
AfterAppendFirst == AfterGroup

AfterAppend ==
  IF seed.next < Len(Joining) THEN [seed EXCEPT !.next = seed.next + 1] ELSE AfterGroup

\* A slip: every member is inserted with the row of the user just appended.
AppendSharedRow ==
  /\ seed.pc = "append"
  /\ seed.loaded[seed.next] # None /\ groups[seed.group] # None
  /\ LET ids == {m.id: m \in Joined}
     IN /\ users' = [u \in UserIds |->
             IF users[u] = None /\ u \in ids THEN seed.loaded[seed.next].row ELSE users[u]]
        /\ members' = members \cup ({seed.group} \X ids)
        /\ added' = added \cup ({seed.group} \X ids)
  /\ seed' = AfterAppend
  /\ Fine /\ UNCHANGED <<groups, rooms, task, owner, code>>

\* Association("Members").Append saves all of them: it inserts the accounts, as they
\* were read, and the memberships that are not there.  The foreign key refuses all
\* of it if the group is gone.
AppendSeed ==
  /\ seed.pc = "append"
  /\ \/ /\ seed.loaded[seed.next] # None /\ groups[seed.group] # None
        /\ LET ids == {m.id: m \in Joined}
           IN /\ users' = [u \in UserIds |-> IF users[u] = None /\ u \in ids THEN Read(u) ELSE users[u]]
              /\ members' = members \cup ({seed.group} \X ids)
              /\ added' = added \cup ({seed.group} \X ids)
        /\ Fine /\ UNCHANGED <<groups, rooms, task, owner>>
     \/ /\ seed.loaded[seed.next] = None \/ groups[seed.group] = None
        /\ Fine /\ UNCHANGED vars
     \/ Fails /\ UNCHANGED vars
  /\ seed' = AfterAppend
  /\ UNCHANGED code

-----------------------------------------------------------------------------
(* seedRooms *)

\* A slip: a group that is not there is linked all the same.
LinkGroupUnchecked ==
  /\ seed.pc = "link"
  /\ LET found == {g \in GroupIds: groups[g] = LinkedGroup}
     IN seed' = [pc |-> "rooms", at |-> 1, group |-> IF found = {} THEN None ELSE CHOOSE g \in found: TRUE]
  /\ Fine /\ Asks

LinkGroup ==
  /\ seed.pc = "link"
  /\ \/ \E g \in GroupIds:
          groups[g] = LinkedGroup /\ seed' = [pc |-> "rooms", at |-> 1, group |-> g] /\ Fine
     \/ /\ seed' = [pc |-> "rooms", at |-> 1, group |-> NoGroup]
        /\ \/ (\A g \in GroupIds: groups[g] # LinkedGroup) /\ Fine
           \/ Fails
  /\ Asks

AfterRoom ==
  IF seed.at < Len(SeedRooms)
    THEN [pc |-> "rooms", at |-> seed.at + 1, group |-> seed.group] ELSE Done

HasCode(r, c) == rooms[r] # None /\ code[r] = c

LookRoom ==
  /\ seed.pc = "rooms"
  /\ LET there == \E r \in RoomIds: HasCode(r, SeedRooms[seed.at].code)
     IN \/ there /\ seed' = AfterRoom /\ Fine
        \/ ~there /\ seed' = [seed EXCEPT !.pc = "createRoom"] /\ Fine
        \/ seed' = AfterRoom /\ Fails
  /\ Asks

\* It is refused if another room has the name or the code, or the group is gone.
CreateSeedRoom ==
  /\ seed.pc = "createRoom"
  /\ LET new == SeedRooms[seed.at]
         group == IF new.linked THEN seed.group ELSE NoGroup
         taken == \E r \in RoomIds: rooms[r] # None /\ (rooms[r].name = new.name \/ code[r] = new.code)
     IN \/ /\ ~taken
           /\ \E r \in RoomIds, start \in Dates, end \in Dates:
                /\ CreateRoom(r, [name |-> new.name, group |-> group, start |-> start, end |-> end])
                /\ code' = [code EXCEPT ![r] = new.code]
           /\ Fine
        \/ /\ taken \/ (group # NoGroup /\ groups[group] = None)
           /\ Fine /\ UNCHANGED <<vars, code>>
        \/ Fails /\ UNCHANGED <<vars, code>>
  /\ seed' = AfterRoom

-----------------------------------------------------------------------------
(* Beside the program *)

Crash ==
  /\ Faults
  /\ seed \notin {Off, Done}
  /\ seed' = Off
  /\ UNCHANGED <<vars, code, run>>

\* An id that no row has and no request remembers stands for the next one.
Unknown(r) == rooms[r] = None /\ \A s \in Slots: task[s].op = "room" => task[s].room # r

CodesUnique ==
  \A r, q \in RoomIds: r # q /\ rooms[r] # None /\ HasCode(q, code[r]) => code[r] = None

Remembers(g) == seed.pc \in {"append", "rooms", "createRoom"} /\ seed.group = g

\* The server is used.  room_code is unique, and the id of a group that the program
\* remembers is not given out again.
Serve ==
  /\ Next
  /\ \A g \in GroupIds:
       groups[g] = None /\ groups'[g] # None /\ Remembers(g) =>
         \E s \in Slots: task[s].op = "group" /\ task[s].group = g
  /\ code' = [r \in RoomIds |-> IF Unknown(r) THEN None ELSE code[r]]
  /\ CodesUnique'
  /\ run' = [run EXCEPT !.alone = run.alone /\ UNCHANGED Tables,
                        !.clean = run.clean /\ UNCHANGED Tables]
  /\ UNCHANGED seed

\* A room that was deleted is not inserted again when its code has a new one.
RefuseCode(s) ==
  /\ task[s].op = "room"
  /\ rooms[task[s].room] = None /\ code[task[s].room] # None
  /\ \E r \in RoomIds: HasCode(r, code[task[s].room])
  /\ End(s)
  /\ UNCHANGED <<users, groups, members, rooms, owner, added, seed, code, run>>

SeederStep ==
  \/ LookUser \/ CreateSeedUser
  \/ FetchUser \/ LookGroup \/ CreateSeedGroup \/ AppendSeed
  \/ LinkGroup \/ LookRoom \/ CreateSeedRoom

SeederNext == Start \/ SeederStep \/ Crash \/ Serve \/ \E s \in Slots: RefuseCode(s)

SeederSpec == SeederInit /\ [][SeederNext]_seederVars

-----------------------------------------------------------------------------
(* Properties *)

\* However often the program is cut off, fails in part and is run again, as long as
\* nobody else changes the tables it never makes a second account of a name:
\* nothing in the table users would refuse it, and a login takes the first.
SeedOnce ==
  run.alone => \A u, v \in UserIds:
    users[u] # None /\ users[v] # None /\ users[u].name = users[v].name => u = v

\* A run that nothing has disturbed leaves everything in place: each account and
\* each group by name, each room by code unless its name belongs to another room,
\* and in each group that it has created itself everybody who should be.  (A group
\* it finds is left alone, so one that a run has created before it was cut off
\* stays without its members.)
SeedComplete ==
  seed = Done /\ run.clean =>
    /\ \A i \in DOMAIN SeedUsers: \E u \in UserIds: Named(u, SeedUsers[i].name)
    /\ \A i \in DOMAIN SeedGroups: \E g \in GroupIds: groups[g] = SeedGroups[i]
    /\ \A i \in DOMAIN SeedRooms: \E r \in RoomIds:
         HasCode(r, SeedRooms[i].code) \/ (rooms[r] # None /\ rooms[r].name = SeedRooms[i].name)
    /\ \A g \in run.made, i \in DOMAIN Joining: \E u \in UserIds:
         Named(u, Joining[i]) /\ <<g, u>> \in members

\* An id stands for one username for ever, although the program inserts accounts
\* again that were deleted after it read them.
SeederNamesKept ==
  /\ NamesKept
  /\ seed.pc \in {"fetch", "groups", "createGroup", "append"} =>
       \A k \in DOMAIN seed.loaded:
         seed.loaded[k] # None => Owned(seed.loaded[k].id, seed.loaded[k].row)

\* The program remembers accounts as requests do, for as long as it makes groups.
Carries(z, u) ==
  /\ z.pc \in {"fetch", "groups", "createGroup", "append"}
  /\ \E k \in DOMAIN z.loaded: z.loaded[k] # None /\ z.loaded[k].id = u

\* An account that was deleted stays deleted with the program beside the server,
\* unless a request or the program itself had read it before: a run may put the
\* name back, under a new id, and never the account.
GoneBeside(u) == Gone(u) /\ ~Carries(seed, u)

SeederStaysGone ==
  [][\A u \in UserIds: GoneBeside(u) =>
      GoneBeside(u)' /\ \A g \in GroupIds: <<g, u>> \notin members']_seederVars
=============================================================================
