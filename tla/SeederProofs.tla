----------------------------- MODULE SeederProofs -----------------------------
(***************************************************************************)
(* Proofs about Seeder, for any lists of accounts, groups and rooms.       *)
(***************************************************************************)
EXTENDS Seeder, DirectoryProofs

USE SeedsAssumption

\* Where the program may be: a place of Seed, with as many rows read as belong to it.
Place(z) ==
  /\ z \in Seed \cup {Off, Done}
  /\ z.pc = "fetch" => Len(z.loaded) < Len(Joining)
  /\ z.pc \in {"groups", "createGroup", "append"} => Len(z.loaded) = Len(Joining)

LEMMA SeedFields ==
  ASSUME SeederTypeOK
  PROVE  /\ seed.pc \in {"users", "createUser"} => seed.at \in DOMAIN SeedUsers
         /\ seed.pc = "fetch" => seed.loaded \in Loaded /\ Len(seed.loaded) < Len(Joining)
         /\ seed.pc \in {"groups", "createGroup", "append"} =>
              /\ seed.at \in DOMAIN SeedGroups /\ seed.loaded \in Loaded
              /\ Len(seed.loaded) = Len(Joining)
         /\ seed.pc = "append" => seed.group \in GroupIds /\ seed.next \in DOMAIN Joining
         /\ seed.pc \in {"rooms", "createRoom"} =>
              seed.at \in DOMAIN SeedRooms /\ seed.group \in GroupIds \cup {NoGroup}
<1>1. seed \in Seed \cup {Off, Done}
  BY DEF SeederTypeOK
<1> QED
  BY <1>1 DEF Seed, Off, Done, SeederTypeOK

\* The seeds are there and of their types.
LEMMA SeedsTyped ==
  /\ DOMAIN SeedUsers = 1..Len(SeedUsers) /\ Len(SeedUsers) \in Nat \ {0}
  /\ DOMAIN SeedGroups = 1..Len(SeedGroups) /\ Len(SeedGroups) \in Nat \ {0}
  /\ DOMAIN SeedRooms = 1..Len(SeedRooms) /\ Len(SeedRooms) \in Nat \ {0}
  /\ DOMAIN Joining = 1..Len(Joining) /\ Len(Joining) \in Nat \ {0}
  /\ \A i \in DOMAIN SeedUsers:
       SeedUsers[i].name \in Usernames /\ SeedUsers[i].role \in {"user", "admin"}
  /\ \A i \in DOMAIN SeedGroups: SeedGroups[i] \in Names
  /\ \A i \in DOMAIN SeedRooms:
       /\ SeedRooms[i].code \in Codes /\ SeedRooms[i].name \in Names
       /\ SeedRooms[i].linked \in BOOLEAN
<1>1. Len(SeedUsers) \in Nat \ {0} /\ DOMAIN SeedUsers = 1..Len(SeedUsers)
  OBVIOUS
<1>2. Len(SeedGroups) \in Nat \ {0} /\ DOMAIN SeedGroups = 1..Len(SeedGroups)
  OBVIOUS
<1>3. Len(SeedRooms) \in Nat \ {0} /\ DOMAIN SeedRooms = 1..Len(SeedRooms)
  OBVIOUS
<1>4. Len(Joining) \in Nat \ {0} /\ DOMAIN Joining = 1..Len(Joining)
  OBVIOUS
<1>5. \A i \in DOMAIN SeedUsers: SeedUsers[i] \in [name: Usernames, role: {"user", "admin"}]
  <2> DEFINE S == [name: Usernames, role: {"user", "admin"}]
  <2>1. SeedUsers \in Seq(S)
    OBVIOUS
  <2> HIDE DEF S
  <2>2. \A i \in DOMAIN SeedUsers: SeedUsers[i] \in S
    BY <1>1, <2>1
  <2> QED
    BY <2>2 DEF S
<1>6. \A i \in DOMAIN SeedGroups: SeedGroups[i] \in Names
  BY <1>2
<1>7. \A i \in DOMAIN SeedRooms: SeedRooms[i] \in [code: Codes, name: Names, linked: BOOLEAN]
  <2> DEFINE S == [code: Codes, name: Names, linked: BOOLEAN]
  <2>1. SeedRooms \in Seq(S)
    OBVIOUS
  <2> HIDE DEF S
  <2>2. \A i \in DOMAIN SeedRooms: SeedRooms[i] \in S
    BY <1>3, <2>1
  <2> QED
    BY <2>2 DEF S
<1> QED
  BY <1>1, <1>2, <1>3, <1>4, <1>5, <1>6, <1>7

-----------------------------------------------------------------------------
(* Type correctness *)

LEMMA AfterUserTyped ==
  ASSUME SeederTypeOK, seed.pc \in {"users", "createUser"}
  PROVE  Place(AfterUser)
<1>1. seed.at \in DOMAIN SeedUsers
  BY SeedFields
<1>2. <<>> \in Loaded /\ Len(<<>>) = 0
  BY DEF Loaded
<1> QED
  BY <1>1, <1>2, SeedsTyped DEF AfterUser, Place, Seed

LEMMA AfterFetchTyped ==
  ASSUME NEW loaded \in Loaded, Len(loaded) <= Len(Joining)
  PROVE  Place(AfterFetch(loaded))
<1>1. Len(loaded) \in Nat
  BY DEF Loaded
<1> QED
  BY <1>1, SeedsTyped DEF AfterFetch, Place, Seed

LEMMA AfterGroupTyped ==
  ASSUME SeederTypeOK, seed.pc \in {"groups", "createGroup", "append"}
  PROVE  Place(AfterGroup)
<1>1. seed.at \in DOMAIN SeedGroups /\ seed.loaded \in Loaded /\ Len(seed.loaded) = Len(Joining)
  BY SeedFields
<1> QED
  BY <1>1, SeedsTyped DEF AfterGroup, Place, Seed

LEMMA AfterAppendTyped ==
  ASSUME SeederTypeOK, seed.pc = "append"
  PROVE  Place(AfterAppend)
<1>1. CASE seed.next < Len(Joining)
  <2>1. /\ seed.next + 1 \in DOMAIN Joining
        /\ seed \in [pc: {"append"}, at: DOMAIN SeedGroups, loaded: Loaded, group: GroupIds,
                     next: DOMAIN Joining]
    BY <1>1, SeedFields, SeedsTyped DEF SeederTypeOK, Seed, Off, Done
  <2> QED
    BY <1>1, <2>1, SeedFields DEF AfterAppend, Place, Seed
<1>2. CASE ~(seed.next < Len(Joining))
  BY <1>2, AfterGroupTyped DEF AfterAppend
<1> QED
  BY <1>1, <1>2

LEMMA AfterRoomTyped ==
  ASSUME SeederTypeOK, seed.pc \in {"rooms", "createRoom"}
  PROVE  Place(AfterRoom)
<1>1. seed.at \in DOMAIN SeedRooms /\ seed.group \in GroupIds \cup {NoGroup}
  BY SeedFields
<1> QED
  BY <1>1, SeedsTyped DEF AfterRoom, Place, Seed, Done

\* Who joins a group is an account that was read.
LEMMA JoinedTyped ==
  ASSUME SeederTypeOK, seed.pc = "append"
  PROVE  /\ Joined \subseteq [id: UserIds, row: Account]
         /\ \A u \in {m.id: m \in Joined}: Read(u) \in Account
<1>1. \A k \in 1..seed.next: seed.loaded[k] \in [id: UserIds, row: Account] \cup {None}
  BY SeedFields, SeedsTyped DEF Loaded
<1>2. Joined \subseteq [id: UserIds, row: Account]
  BY <1>1 DEF Joined
<1>3. ASSUME NEW u \in {m.id: m \in Joined} PROVE Read(u) \in Account
  BY <1>2 DEF Read
<1> QED
  BY <1>2, <1>3

\* A place in which only the program counter differs.
LEMMA GoesOn ==
  ASSUME SeederTypeOK
  PROVE  /\ seed.pc = "users" => Place([seed EXCEPT !.pc = "createUser"])
         /\ seed.pc = "groups" => Place([seed EXCEPT !.pc = "createGroup"])
         /\ seed.pc = "rooms" => Place([seed EXCEPT !.pc = "createRoom"])
<1>1. CASE seed.pc = "users"
  <2>1. seed \in [pc: {"users", "createUser"}, at: DOMAIN SeedUsers]
    BY <1>1 DEF SeederTypeOK, Seed, Off, Done
  <2> QED
    BY <1>1, <2>1 DEF Place, Seed
<1>2. CASE seed.pc = "groups"
  <2>1. seed \in [pc: {"groups", "createGroup"}, at: DOMAIN SeedGroups, loaded: Loaded]
    BY <1>2 DEF SeederTypeOK, Seed, Off, Done
  <2> QED
    BY <1>2, <2>1, SeedFields DEF Place, Seed
<1>3. CASE seed.pc = "rooms"
  <2>1. seed \in [pc: {"rooms", "createRoom"}, at: DOMAIN SeedRooms, group: GroupIds \cup {NoGroup}]
    BY <1>3 DEF SeederTypeOK, Seed, Off, Done
  <2> QED
    BY <1>3, <2>1 DEF Place, Seed
<1> QED
  BY <1>1, <1>2, <1>3

\* Every step of the program leads to a place.
LEMMA PlaceStep ==
  ASSUME SeederTypeOK, TypeOK, SeederStep
  PROVE  Place(seed')
<1>1. CASE LookUser
  BY <1>1, AfterUserTyped, GoesOn DEF LookUser
<1>2. CASE CreateSeedUser
  BY <1>2, AfterUserTyped DEF CreateSeedUser
<1>3. CASE FetchUser
  <2>1. seed.loaded \in Loaded /\ Len(seed.loaded) < Len(Joining)
    BY <1>3, SeedFields DEF FetchUser
  <2>2. ASSUME NEW e \in [id: UserIds, row: Account] \cup {None}
        PROVE  Place(AfterFetch(Append(seed.loaded, e)))
    <3>1. Append(seed.loaded, e) \in Loaded /\ Len(Append(seed.loaded, e)) = Len(seed.loaded) + 1
      BY <2>1 DEF Loaded
    <3>2. Len(seed.loaded) \in Nat
      BY <2>1 DEF Loaded
    <3>3. Len(Joining) \in Nat
      BY SeedsTyped
    <3>4. Len(Append(seed.loaded, e)) <= Len(Joining)
      BY <2>1, <3>1, <3>2, <3>3
    <3> QED
      BY <3>1, <3>4, AfterFetchTyped
  <2>3. ASSUME NEW u \in UserIds, FirstNamed(u, Joining[Len(seed.loaded) + 1])
        PROVE  [id |-> u, row |-> users[u]] \in [id: UserIds, row: Account]
    BY <2>3 DEF FirstNamed, Named, TypeOK
  <2> QED
    BY <1>3, <2>2, <2>3 DEF FetchUser
<1>4. CASE LookGroup
  BY <1>4, AfterGroupTyped, GoesOn DEF LookGroup
<1>5. CASE CreateSeedGroup
  <2>1. ASSUME NEW g \in GroupIds
        PROVE  Place([pc |-> "append", at |-> seed.at, loaded |-> seed.loaded, group |-> g, next |-> 1])
    BY <1>5, SeedFields, SeedsTyped DEF CreateSeedGroup, Place, Seed
  <2> QED
    BY <1>5, <2>1, AfterGroupTyped DEF CreateSeedGroup
<1>6. CASE AppendSeed
  BY <1>6, AfterAppendTyped DEF AppendSeed
<1>7. CASE LinkGroup
  <2>1. ASSUME NEW g \in GroupIds \cup {NoGroup}
        PROVE  Place([pc |-> "rooms", at |-> 1, group |-> g])
    BY SeedsTyped DEF Place, Seed
  <2> QED
    BY <1>7, <2>1 DEF LinkGroup
<1>8. CASE LookRoom
  BY <1>8, AfterRoomTyped, GoesOn DEF LookRoom
<1>9. CASE CreateSeedRoom
  BY <1>9, AfterRoomTyped DEF CreateSeedRoom
<1> QED
  BY <1>1, <1>2, <1>3, <1>4, <1>5, <1>6, <1>7, <1>8, <1>9 DEF SeederStep

\* What the history records stays what it is.
LEMMA RunTyped ==
  ASSUME run \in Run, Fine \/ Fails \/ \E g \in GroupIds: run' = [run EXCEPT !.made = run.made \cup {g}]
  PROVE  run' \in Run
BY DEF Run, Fine, Fails

\* Every step of the program keeps the tables, the codes and the history well typed.
LEMMA StepTyped ==
  ASSUME TypeOK, SeederTypeOK, SeederStep
  PROVE  TypeOK' /\ code' \in [RoomIds -> Codes \cup {None}] /\ run' \in Run
<1>1. code \in [RoomIds -> Codes \cup {None}] /\ run \in Run
  BY DEF SeederTypeOK
<1>2. CASE UNCHANGED vars /\ UNCHANGED code /\ (Fine \/ Fails)
  <2>1. TypeOK'
    BY <1>2 DEF vars, TypeOK
  <2> QED
    BY <1>1, <1>2, <2>1, RunTyped
<1>3. CASE CreateSeedUser
  <2>1. ASSUME NEW u \in UserIds, NEW i \in DOMAIN SeedUsers,
               InsertUser(u, [name |-> SeedUsers[i].name, role |-> SeedUsers[i].role, password |-> TRUE])
        PROVE  TypeOK'
    <3>1. [name |-> SeedUsers[i].name, role |-> SeedUsers[i].role, password |-> TRUE] \in Account
      BY SeedsTyped DEF Account, Roles
    <3> QED
      BY <2>1, <3>1, InsertTyped
  <2>2. seed.at \in DOMAIN SeedUsers
    BY <1>3, SeedFields DEF CreateSeedUser
  <2>3. UNCHANGED code /\ (Fine \/ Fails)
    BY <1>3 DEF CreateSeedUser
  <2> QED
    BY <1>1, <1>2, <1>3, <2>1, <2>2, <2>3, RunTyped DEF CreateSeedUser
<1>4. CASE CreateSeedGroup
  <2>1. ASSUME NEW g \in GroupIds, CreateGroup(g, SeedGroups[seed.at]) PROVE TypeOK'
    <3>1. SeedGroups[seed.at] \in Names
      BY <1>4, SeedFields, SeedsTyped DEF CreateSeedGroup
    <3> QED
      BY <2>1, <3>1 DEF CreateGroup, TypeOK
  <2> QED
    BY <1>1, <1>2, <1>4, <2>1, RunTyped DEF CreateSeedGroup
<1>5. CASE AppendSeed
  <2> DEFINE ids == {m.id: m \in Joined}
  <2>1. ASSUME users' = [u \in UserIds |-> IF users[u] = None /\ u \in ids THEN Read(u) ELSE users[u]],
               members' = members \cup ({seed.group} \X ids),
               added' = added \cup ({seed.group} \X ids),
               UNCHANGED <<groups, rooms, task, owner>>
        PROVE  TypeOK'
    <3>1. ids \subseteq UserIds /\ \A u \in ids: Read(u) \in Account
      BY <1>5, JoinedTyped DEF AppendSeed
    <3>2. seed.group \in GroupIds
      BY <1>5, SeedFields DEF AppendSeed
    <3> HIDE DEF ids
    <3>3. users' \in [UserIds -> Account \cup {None}]
      BY <2>1, <3>1 DEF TypeOK
    <3>4. members' \subseteq GroupIds \X UserIds /\ added' \subseteq GroupIds \X UserIds
      BY <2>1, <3>1, <3>2 DEF TypeOK
    <3> QED
      BY <2>1, <3>3, <3>4 DEF TypeOK
  <2>2. UNCHANGED code /\ (Fine \/ Fails)
    BY <1>5 DEF AppendSeed
  <2> QED
    BY <1>1, <1>2, <1>5, <2>1, <2>2, RunTyped DEF AppendSeed
<1>6. CASE CreateSeedRoom
  <2> DEFINE new == SeedRooms[seed.at]
             group == IF new.linked THEN seed.group ELSE NoGroup
  <2>1. /\ new.name \in Names /\ new.code \in Codes
        /\ group \in GroupIds \cup {NoGroup}
    BY <1>6, SeedFields, SeedsTyped DEF CreateSeedRoom
  <2>2. ASSUME NEW r \in RoomIds, NEW start \in Dates, NEW end \in Dates,
               CreateRoom(r, [name |-> new.name, group |-> group, start |-> start, end |-> end]),
               code' = [code EXCEPT ![r] = new.code], Fine
        PROVE  TypeOK' /\ code' \in [RoomIds -> Codes \cup {None}] /\ run' \in Run
    <3> HIDE DEF new, group
    <3>1. [name |-> new.name, group |-> group, start |-> start, end |-> end] \in RoomRow
      BY <2>1 DEF RoomRow
    <3>2. TypeOK'
      BY <2>2, <3>1 DEF CreateRoom, TypeOK
    <3> QED
      BY <1>1, <2>1, <2>2, <3>2, RunTyped
  <2>3. CASE UNCHANGED <<vars, code>> /\ (Fine \/ Fails)
    BY <1>2, <2>3
  <2> QED
    BY <1>6, <2>2, <2>3 DEF CreateSeedRoom
<1>7. CASE LookUser \/ FetchUser \/ LookGroup \/ LinkGroup \/ LookRoom
  BY <1>2, <1>7 DEF LookUser, FetchUser, LookGroup, LinkGroup, LookRoom, Asks
<1> QED
  BY <1>3, <1>4, <1>5, <1>6, <1>7 DEF SeederStep

\* What may happen beside the program, as one of Directory's steps or none.
LEMMA BesideTyped ==
  ASSUME TypeOK, SeederTypeOK, Start \/ Crash \/ Serve \/ \E s \in Slots: RefuseCode(s)
  PROVE  TypeOK' /\ SeederTypeOK'
<1>1. CASE Start
  <2>1. Place(seed')
    BY <1>1, SeedsTyped DEF Start, Place, Seed
  <2>2. run' \in Run
    BY <1>1 DEF Start, SeederTypeOK, Run
  <2> QED
    BY <1>1, <2>1, <2>2 DEF Start, Asks, vars, TypeOK, SeederTypeOK, Place
<1>2. CASE Crash
  BY <1>2 DEF Crash, vars, TypeOK, SeederTypeOK, Off
<1>3. CASE Serve
  <2>1. TypeOK'
    BY <1>3, TypeStep DEF Serve
  <2>2. run' \in Run
    BY <1>3 DEF Serve, SeederTypeOK, Run
  <2>3. code' \in [RoomIds -> Codes \cup {None}]
    BY <1>3 DEF Serve, SeederTypeOK
  <2> QED
    BY <1>3, <2>1, <2>2, <2>3 DEF Serve, SeederTypeOK
<1>4. ASSUME NEW s \in Slots, RefuseCode(s) PROVE TypeOK' /\ SeederTypeOK'
  <2>1. task' \in [Slots -> Task \cup {Idle}]
    BY <1>4, SlotTyped DEF RefuseCode, End, TypeOK
  <2> QED
    BY <1>4, <2>1 DEF RefuseCode, TypeOK, SeederTypeOK
<1> QED
  BY <1>1, <1>2, <1>3, <1>4

LEMMA SeederTypeStep ==
  TypeOK /\ SeederTypeOK /\ [SeederNext]_seederVars => TypeOK' /\ SeederTypeOK'
<1> SUFFICES ASSUME TypeOK, SeederTypeOK, [SeederNext]_seederVars
             PROVE  TypeOK' /\ SeederTypeOK'
  OBVIOUS
<1>1. CASE UNCHANGED seederVars
  BY <1>1 DEF seederVars, vars, TypeOK, SeederTypeOK
<1>2. CASE SeederStep
  BY <1>2, PlaceStep, StepTyped DEF Place, SeederTypeOK
<1> QED
  BY <1>1, <1>2, BesideTyped DEF SeederNext

LEMMA SeederInitTyped == SeederInit => TypeOK /\ SeederTypeOK
BY InitTyped DEF SeederInit, SeederTypeOK, Off, Run

\* The program is always at a place of its own, with the rows that belong to it, and
\* the tables stay well typed beside it.
THEOREM SeederTypeCorrect == SeederSpec => [](TypeOK /\ SeederTypeOK)
BY SeederInitTyped, SeederTypeStep, PTL DEF SeederSpec

-----------------------------------------------------------------------------
(* Usernames *)

\* The rows that were read keep standing for the names of their ids.
RowsOwned(z) ==
  z.pc \in {"fetch", "groups", "createGroup", "append"} =>
    \A k \in DOMAIN z.loaded: z.loaded[k] # None => Owned(z.loaded[k].id, z.loaded[k].row)

LEMMA AfterRowsOwned ==
  ASSUME SeederTypeOK, RowsOwned(seed)
  PROVE  /\ RowsOwned(AfterUser)
         /\ seed.pc \in {"groups", "createGroup", "append"} => RowsOwned(AfterGroup)
         /\ seed.pc = "append" => RowsOwned(AfterAppend)
         /\ RowsOwned(AfterRoom)
<1>1. RowsOwned(AfterUser)
  BY DEF RowsOwned, AfterUser
<1>2. seed.pc \in {"groups", "createGroup", "append"} => RowsOwned(AfterGroup)
  BY DEF RowsOwned, AfterGroup
<1>3. ASSUME seed.pc = "append" PROVE RowsOwned(AfterAppend)
  <2>1. seed \in [pc: {"append"}, at: DOMAIN SeedGroups, loaded: Loaded, group: GroupIds,
                  next: DOMAIN Joining]
    BY <1>3 DEF SeederTypeOK, Seed, Off, Done
  <2> QED
    BY <1>2, <1>3, <2>1 DEF RowsOwned, AfterAppend
<1>4. RowsOwned(AfterRoom)
  BY DEF RowsOwned, AfterRoom, Done
<1> QED
  BY <1>1, <1>2, <1>3, <1>4

\* The rows carried along are those read before, or one just read.
LEMMA RowsStep ==
  ASSUME TypeOK, SeederTypeOK, NamesKept, RowsOwned(seed), SeederStep
  PROVE  RowsOwned(seed')
<1>1. CASE seed' \in {AfterUser, AfterRoom} /\ ~AppendSeed /\ ~FetchUser
  BY <1>1, AfterRowsOwned
<1>2. CASE LookUser \/ CreateSeedUser
  BY <1>2, AfterRowsOwned DEF LookUser, CreateSeedUser, RowsOwned, SeederTypeOK, Seed, Off, Done
<1>3. CASE FetchUser
  <2>1. seed.loaded \in Loaded /\ seed.pc = "fetch"
    BY <1>3, SeedFields DEF FetchUser
  <2>2. ASSUME NEW e, e # None => Owned(e.id, e.row), e \in [id: UserIds, row: Account] \cup {None}
        PROVE  RowsOwned(AfterFetch(Append(seed.loaded, e)))
    <3> DEFINE grown == Append(seed.loaded, e)
    <3>1. \A k \in DOMAIN grown: grown[k] # None => Owned(grown[k].id, grown[k].row)
      BY <2>1, <2>2 DEF Loaded, RowsOwned
    <3> HIDE DEF grown
    <3>2. RowsOwned(AfterFetch(grown))
      BY <3>1 DEF AfterFetch, RowsOwned
    <3> QED
      BY <3>2 DEF grown
  <2>3. ASSUME NEW u \in UserIds, FirstNamed(u, Joining[Len(seed.loaded) + 1])
        PROVE  Owned(u, users[u]) /\ users[u] \in Account
    BY <2>3 DEF FirstNamed, Named, NamesKept, TypeOK
  <2> QED
    BY <1>3, <2>2, <2>3 DEF FetchUser
<1>4. CASE LookGroup
  <2>1. CASE seed' = AfterGroup
    BY <1>4, <2>1, AfterRowsOwned DEF LookGroup
  <2>2. CASE seed' = [seed EXCEPT !.pc = "createGroup"]
    <3>1. seed \in [pc: {"groups", "createGroup"}, at: DOMAIN SeedGroups, loaded: Loaded]
      BY <1>4 DEF LookGroup, SeederTypeOK, Seed, Off, Done
    <3> QED
      BY <1>4, <2>2, <3>1 DEF LookGroup, RowsOwned
  <2> QED
    BY <1>4, <2>1, <2>2 DEF LookGroup
<1>5. CASE CreateSeedGroup
  BY <1>5, AfterRowsOwned DEF CreateSeedGroup, RowsOwned
<1>6. CASE AppendSeed
  BY <1>6, AfterRowsOwned DEF AppendSeed
<1>7. CASE LinkGroup
  BY <1>7 DEF LinkGroup, RowsOwned
<1>8. CASE LookRoom \/ CreateSeedRoom
  BY <1>8, AfterRowsOwned DEF LookRoom, CreateSeedRoom, RowsOwned, SeederTypeOK, Seed, Off, Done
<1> QED
  BY <1>2, <1>3, <1>4, <1>5, <1>6, <1>7, <1>8 DEF SeederStep

\* Statements of the program give no id another name.
LEMMA ProgramKeepsNames ==
  ASSUME TypeOK, SeederTypeOK, NamesKept, RowsOwned(seed), SeederStep
  PROVE  /\ NamesKept'
         /\ \A v \in UserIds: owner[v] # None => owner'[v] = owner[v]
<1>1. CASE UNCHANGED <<users, task, owner>>
  BY <1>1 DEF NamesKept, Remembered, Owned
<1>2. CASE CreateSeedUser
  <2>1. seed.at \in DOMAIN SeedUsers
    BY <1>2, SeedFields DEF CreateSeedUser
  <2> DEFINE row == [name |-> SeedUsers[seed.at].name, role |-> SeedUsers[seed.at].role,
                     password |-> TRUE]
  <2>2. row \in Account
    BY <2>1, SeedsTyped DEF Account, Roles
  <2>3. (\E u \in UserIds: InsertUser(u, row)) \/ UNCHANGED vars
    BY <1>2 DEF CreateSeedUser
  <2> HIDE DEF row
  <2>4. ASSUME NEW u \in UserIds, InsertUser(u, row)
        PROVE  NamesKept' /\ \A v \in UserIds: owner[v] # None => owner'[v] = owner[v]
    <3>1. owner[u] = None
      BY <2>4, FreshId
    <3> QED
      BY <2>2, <2>4, <3>1, InsertKeepsNames DEF InsertUser, TypeOK
  <2> QED
    BY <1>1, <2>3, <2>4 DEF vars
<1>3. CASE AppendSeed
  <2> DEFINE ids == {m.id: m \in Joined}
  <2>1. CASE UNCHANGED vars
    BY <1>1, <2>1 DEF vars
  <2>2. CASE users' = [u \in UserIds |-> IF users[u] = None /\ u \in ids THEN Read(u) ELSE users[u]]
             /\ UNCHANGED <<task, owner>>
    <3>1. ASSUME NEW u \in ids PROVE Owned(u, Read(u))
      <4>1. PICK m \in Joined: m.id = u /\ m.row = Read(u)
        BY <3>1 DEF Read
      <4>2. PICK k \in 1..seed.next: seed.loaded[k] # None /\ m = seed.loaded[k]
        BY <4>1 DEF Joined
      <4>3. k \in DOMAIN seed.loaded /\ seed.pc = "append"
        BY <1>3, SeedFields, SeedsTyped DEF AppendSeed, Loaded
      <4> QED
        BY <4>1, <4>2, <4>3 DEF RowsOwned
    <3>2. ids \subseteq UserIds
      BY <1>3, JoinedTyped DEF AppendSeed
    <3> HIDE DEF ids
    <3>3. \A u \in UserIds: users'[u] # None => Owned(u, users'[u])
      BY <2>2, <3>1 DEF NamesKept
    <3> QED
      BY <2>2, <3>3 DEF NamesKept, Remembered, Owned
  <2> QED
    BY <1>3, <2>1, <2>2 DEF AppendSeed
<1>4. CASE CreateSeedGroup \/ CreateSeedRoom
  BY <1>1, <1>4 DEF CreateSeedGroup, CreateSeedRoom, CreateGroup, CreateRoom, vars
<1>5. CASE LookUser \/ FetchUser \/ LookGroup \/ LinkGroup \/ LookRoom
  BY <1>1, <1>5 DEF LookUser, FetchUser, LookGroup, LinkGroup, LookRoom, Asks, vars
<1> QED
  BY <1>2, <1>3, <1>4, <1>5 DEF SeederStep

\* What happens beside the program gives no id another name either.
LEMMA BesideKeepsNames ==
  ASSUME TypeOK, SeederTypeOK, NamesKept, Start \/ Crash \/ Serve \/ \E s \in Slots: RefuseCode(s)
  PROVE  /\ NamesKept'
         /\ \A v \in UserIds: owner[v] # None => owner'[v] = owner[v]
<1>1. CASE Serve
  BY <1>1, NamesStep, OwnerKept DEF Serve
<1>2. CASE Start \/ Crash
  BY <1>2 DEF Start, Crash, Asks, vars, NamesKept, Remembered, Owned
<1>3. ASSUME NEW s \in Slots, RefuseCode(s)
      PROVE  /\ NamesKept'
             /\ \A v \in UserIds: owner[v] # None => owner'[v] = owner[v]
  <2>1. \A z \in Slots: task'[z] = task[z] \/ task'[z] = Idle
    BY <1>3 DEF RefuseCode, End, TypeOK
  <2>2. ASSUME NEW z \in Slots PROVE Remembered(task[z])'
    <3>1. CASE task'[z] = task[z]
      BY <1>3, <3>1 DEF RefuseCode, NamesKept, Remembered, Owned
    <3>2. CASE task'[z] = Idle
      BY <3>2 DEF Remembered, Idle
    <3> QED
      BY <2>1, <3>1, <3>2
  <2> QED
    BY <1>3, <2>2 DEF RefuseCode, NamesKept, Remembered, Owned
<1> QED
  BY <1>1, <1>2, <1>3

LEMMA SeederNamesStep ==
  TypeOK /\ SeederTypeOK /\ SeederNamesKept /\ [SeederNext]_seederVars => SeederNamesKept'
<1> SUFFICES ASSUME TypeOK, SeederTypeOK, SeederNamesKept, [SeederNext]_seederVars
             PROVE  SeederNamesKept'
  OBVIOUS
<1>1. NamesKept /\ RowsOwned(seed)
  BY DEF SeederNamesKept, RowsOwned
<1>2. CASE UNCHANGED seederVars
  BY <1>2 DEF seederVars, vars, SeederNamesKept, NamesKept, Remembered, Owned
<1>3. ASSUME NamesKept', RowsOwned(seed'), \A v \in UserIds: owner[v] # None => owner'[v] = owner[v],
             SeederTypeOK'
      PROVE  SeederNamesKept'
  <2>1. ASSUME seed'.pc \in {"fetch", "groups", "createGroup", "append"},
               NEW k \in DOMAIN seed'.loaded, seed'.loaded[k] # None
        PROVE  Owned(seed.loaded[k].id, seed.loaded[k].row)'
    <3>1. Owned(seed'.loaded[k].id, seed'.loaded[k].row)
      BY <1>3, <2>1 DEF RowsOwned
    <3>2. seed' \in Seed
      BY <1>3, <2>1 DEF SeederTypeOK, Off, Done
    <3>3. seed'.loaded \in Loaded
      BY <2>1, <3>2 DEF Seed
    <3>4. seed'.loaded[k] \in [id: UserIds, row: Account]
      BY <2>1, <3>3 DEF Loaded
    <3> QED
      BY <1>3, <3>1, <3>4 DEF Owned
  <2> QED
    BY <1>3, <2>1 DEF SeederNamesKept
<1>4. SeederTypeOK'
  BY SeederTypeStep
<1>5. CASE SeederStep
  BY <1>1, <1>3, <1>4, <1>5, RowsStep, ProgramKeepsNames
<1>6. CASE Start \/ Crash \/ Serve \/ \E s \in Slots: RefuseCode(s)
  <2>1. RowsOwned(seed')
    BY <1>1, <1>6 DEF Start, Crash, Serve, RefuseCode, RowsOwned, Off
  <2> QED
    BY <1>1, <1>3, <1>4, <1>6, <2>1, BesideKeepsNames
<1> QED
  BY <1>2, <1>5, <1>6 DEF SeederNext

\* An id stands for one username for ever, with the program running beside the
\* server and inserting accounts from rows it read before.
THEOREM SeederAlwaysNamesKept == SeederSpec => []SeederNamesKept
<1>1. SeederInit => SeederNamesKept
  BY InitNamesKept DEF SeederInit, SeederNamesKept, Off
<1> QED
  BY <1>1, SeederTypeCorrect, SeederNamesStep, PTL DEF SeederSpec

-----------------------------------------------------------------------------
(* One account of a name *)

\* What makes SeedOnce inductive: the program creates an account only of a name that
\* still has none, and the accounts of the rows it carries along are still there.
NameFree == seed.pc = "createUser" => \A u \in UserIds: ~Named(u, SeedUsers[seed.at].name)

RowsThere ==
  seed.pc \in {"fetch", "groups", "createGroup", "append"} =>
    \A k \in DOMAIN seed.loaded: seed.loaded[k] # None => users[seed.loaded[k].id] # None

OnceInv == SeedOnce /\ (run.alone => NameFree /\ RowsThere)

\* The history of the program says "alone" only if it did before.
LEMMA AloneBefore ==
  ASSUME SeederTypeOK, SeederNext, run'.alone
  PROVE  run.alone
<1>1. run \in Run
  BY DEF SeederTypeOK
<1>2. CASE SeederStep
  BY <1>1, <1>2 DEF SeederStep, LookUser, CreateSeedUser, FetchUser, LookGroup, CreateSeedGroup,
     AppendSeed, LinkGroup, LookRoom, CreateSeedRoom, Fine, Fails, Run
<1>3. CASE Start \/ Crash \/ Serve \/ \E s \in Slots: RefuseCode(s)
  BY <1>1, <1>3 DEF Start, Crash, Serve, RefuseCode, Run
<1> QED
  BY <1>2, <1>3 DEF SeederNext

\* While nobody else writes, no statement but the insertion changes the accounts.
LEMMA AppendsNobody ==
  ASSUME TypeOK, SeederTypeOK, RowsThere, AppendSeed
  PROVE  users' = users
<1> DEFINE ids == {m.id: m \in Joined}
<1>1. ASSUME NEW u \in ids PROVE users[u] # None
  <2>1. PICK k \in 1..seed.next: seed.loaded[k] # None /\ u = seed.loaded[k].id
    BY <1>1 DEF Joined
  <2>2. k \in DOMAIN seed.loaded /\ seed.pc = "append"
    BY SeedFields, SeedsTyped DEF AppendSeed, Loaded
  <2> QED
    BY <2>1, <2>2 DEF RowsThere
<1>2. CASE UNCHANGED vars
  BY <1>2 DEF vars
<1>3. CASE users' = [u \in UserIds |-> IF users[u] = None /\ u \in ids THEN Read(u) ELSE users[u]]
  <2> HIDE DEF ids
  <2>1. users' = [u \in UserIds |-> users[u]]
    BY <1>1, <1>3
  <2> QED
    BY <2>1 DEF TypeOK
<1> QED
  BY <1>2, <1>3 DEF AppendSeed

\* The program's own statements.
LEMMA ProgramOnce ==
  ASSUME TypeOK, SeederTypeOK, OnceInv, run.alone, SeederStep
  PROVE  SeedOnce' /\ NameFree' /\ RowsThere'
<1>1. \A u, v \in UserIds:
        users[u] # None /\ users[v] # None /\ users[u].name = users[v].name => u = v
  BY DEF OnceInv, SeedOnce
<1>2. NameFree /\ RowsThere
  BY DEF OnceInv
<1>3. CASE LookUser
  BY <1>1, <1>2, <1>3 DEF LookUser, AfterUser, Asks, vars, SeedOnce, NameFree, RowsThere, Named,
     SeederTypeOK, Seed, Off, Done
<1>4. CASE CreateSeedUser
  <2> DEFINE name == SeedUsers[seed.at].name
             row == [name |-> name, role |-> SeedUsers[seed.at].role, password |-> TRUE]
  <2>1. seed'.pc = "users" \/ (seed'.pc = "fetch" /\ seed'.loaded = <<>>)
    BY <1>4 DEF CreateSeedUser, AfterUser
  <2>2. NameFree' /\ RowsThere'
    BY <2>1 DEF NameFree, RowsThere
  <2>3. CASE UNCHANGED vars
    BY <1>1, <2>2, <2>3 DEF vars, SeedOnce
  <2>4. ASSUME NEW w \in UserIds, InsertUser(w, row) PROVE SeedOnce'
    <3>1. \A u \in UserIds: users[u] # None => users[u].name # name
      BY <1>2, <1>4 DEF CreateSeedUser, NameFree, Named
    <3>2. row.name = name
      OBVIOUS
    <3> HIDE DEF row, name
    <3>3. \A u \in UserIds: users'[u] = IF u = w THEN row ELSE users[u]
      BY <2>4 DEF InsertUser, TypeOK
    <3> QED
      BY <1>1, <3>1, <3>2, <3>3 DEF SeedOnce
  <2> QED
    BY <1>4, <2>2, <2>3, <2>4 DEF CreateSeedUser
<1>5. CASE FetchUser
  <2>1. seed.loaded \in Loaded /\ seed.pc = "fetch" /\ UNCHANGED users
    BY <1>5, SeedFields DEF FetchUser, Asks, vars
  <2>2. PICK e \in [id: UserIds, row: Account] \cup {None}:
          seed' = AfterFetch(Append(seed.loaded, e)) /\ (e # None => users[e.id] # None)
    <3>1. CASE seed' = AfterFetch(Append(seed.loaded, None))
      BY <3>1
    <3>2. ASSUME NEW u \in UserIds, FirstNamed(u, Joining[Len(seed.loaded) + 1]),
                 seed' = AfterFetch(Append(seed.loaded, [id |-> u, row |-> users[u]]))
          PROVE  \E e \in [id: UserIds, row: Account] \cup {None}:
                   seed' = AfterFetch(Append(seed.loaded, e)) /\ (e # None => users[e.id] # None)
      <4> DEFINE e == [id |-> u, row |-> users[u]]
      <4>1. users[u] # None /\ users[u] \in Account
        BY <3>2 DEF FirstNamed, Named, TypeOK
      <4>2. e \in [id: UserIds, row: Account] /\ e.id = u
        BY <4>1
      <4>3. seed' = AfterFetch(Append(seed.loaded, e))
        BY <3>2
      <4> HIDE DEF e
      <4> QED
        BY <4>1, <4>2, <4>3
    <3> QED
      BY <1>5, <3>1, <3>2 DEF FetchUser
  <2>3. \A k \in DOMAIN Append(seed.loaded, e):
          Append(seed.loaded, e)[k] # None => users[Append(seed.loaded, e)[k].id] # None
    <3>1. \A k \in DOMAIN seed.loaded: seed.loaded[k] # None => users[seed.loaded[k].id] # None
      BY <1>2, <2>1 DEF RowsThere
    <3>2. seed.loaded \in Seq([id: UserIds, row: Account] \cup {None})
      BY <2>1 DEF Loaded
    <3>3. ASSUME NEW k \in DOMAIN Append(seed.loaded, e)
          PROVE  Append(seed.loaded, e)[k] = e
                   \/ (k \in DOMAIN seed.loaded /\ Append(seed.loaded, e)[k] = seed.loaded[k])
      BY <3>2, <3>3
    <3> QED
      BY <2>2, <3>1, <3>3
  <2>4. seed'.loaded = Append(seed.loaded, e) /\ seed'.pc # "createUser"
    BY <2>2 DEF AfterFetch
  <2>5. NameFree' /\ RowsThere'
    BY <2>1, <2>3, <2>4 DEF NameFree, RowsThere
  <2> QED
    BY <1>1, <2>1, <2>5 DEF SeedOnce
<1>6. CASE LookGroup \/ CreateSeedGroup \/ AppendSeed
  <2>1. UNCHANGED users
    BY <1>2, <1>6, AppendsNobody DEF LookGroup, CreateSeedGroup, CreateGroup, Asks, vars
  <2>2. seed.pc \in {"groups", "createGroup", "append"} /\ seed \in Seed
    BY <1>6 DEF LookGroup, CreateSeedGroup, AppendSeed, SeederTypeOK, Off, Done
  <2>3. seed'.pc # "createUser" /\ (seed'.pc = "link" \/ seed'.loaded = seed.loaded)
    BY <1>6, <2>2 DEF LookGroup, CreateSeedGroup, AppendSeed, AfterGroup, AfterAppend, Seed
  <2> QED
    BY <1>1, <1>2, <2>1, <2>2, <2>3 DEF SeedOnce, NameFree, RowsThere
<1>7. CASE LinkGroup \/ LookRoom \/ CreateSeedRoom
  <2>1. UNCHANGED users
    BY <1>7 DEF LinkGroup, LookRoom, CreateSeedRoom, CreateRoom, Asks, vars
  <2>2. seed'.pc \in {"rooms", "createRoom", "done"}
    BY <1>7 DEF LinkGroup, LookRoom, CreateSeedRoom, AfterRoom, Done, SeederTypeOK, Seed, Off
  <2> QED
    BY <1>1, <2>1, <2>2 DEF SeedOnce, NameFree, RowsThere
<1> QED
  BY <1>3, <1>4, <1>5, <1>6, <1>7 DEF SeederStep

LEMMA OnceStep ==
  TypeOK /\ SeederTypeOK /\ OnceInv /\ [SeederNext]_seederVars => OnceInv'
<1> SUFFICES ASSUME TypeOK, SeederTypeOK, OnceInv, [SeederNext]_seederVars, run'.alone
             PROVE  SeedOnce' /\ NameFree' /\ RowsThere'
  BY DEF OnceInv, SeedOnce
<1>1. CASE UNCHANGED seederVars
  BY <1>1 DEF seederVars, vars, OnceInv, SeedOnce, NameFree, RowsThere, Named
<1>2. CASE SeederStep
  BY <1>2, AloneBefore, ProgramOnce DEF SeederNext
<1>3. ASSUME Start \/ Crash \/ Serve \/ \E s \in Slots: RefuseCode(s)
      PROVE  SeedOnce' /\ NameFree' /\ RowsThere'
  <2>1. run.alone
    BY <1>3, AloneBefore DEF SeederNext
  <2>2. UNCHANGED users
    BY <1>3, <2>1 DEF Start, Crash, Serve, RefuseCode, Asks, vars, Tables, SeederTypeOK, Run
  <2>3. UNCHANGED seed \/ seed'.pc \in {"users", "off"}
    BY <1>3 DEF Start, Crash, Serve, RefuseCode, Off
  <2> QED
    BY <2>1, <2>2, <2>3 DEF OnceInv, SeedOnce, NameFree, RowsThere, Named
<1> QED
  BY <1>1, <1>2, <1>3 DEF SeederNext

\* As long as nobody but the program writes, it makes at most one account of a name,
\* wherever its runs are cut off.
THEOREM SeederAlwaysOnce == SeederSpec => []SeedOnce
<1>1. SeederInit => OnceInv
  BY DEF SeederInit, Init, OnceInv, SeedOnce, NameFree, RowsThere, Off
<1>2. OnceInv => SeedOnce
  BY DEF OnceInv
<1> QED
  BY <1>1, <1>2, SeederTypeCorrect, OnceStep, PTL DEF SeederSpec
-----------------------------------------------------------------------------
(* What the directory promises, with the program beside it *)

\* The statements of the program only add.
LEMMA OnlyAdds ==
  ASSUME TypeOK, SeederTypeOK, NamesKept, SeederStep
  PROVE  /\ \A u \in UserIds: users[u] # None => users'[u] = users[u]
         /\ \A g \in GroupIds: groups[g] # None => groups'[g] = groups[g]
         /\ members \subseteq members'
         /\ \A r \in RoomIds: rooms[r] # None => rooms'[r] = rooms[r] /\ code'[r] = code[r]
<1>1. CASE UNCHANGED <<vars, code>>
  BY <1>1 DEF vars
<1>2. CASE CreateSeedUser
  <2> DEFINE row == [name |-> SeedUsers[seed.at].name, role |-> SeedUsers[seed.at].role,
                     password |-> TRUE]
  <2>1. (\E u \in UserIds: InsertUser(u, row)) \/ UNCHANGED vars
    BY <1>2 DEF CreateSeedUser
  <2> HIDE DEF row
  <2>2. ASSUME NEW u \in UserIds, InsertUser(u, row)
        PROVE  \A v \in UserIds: users[v] # None => users'[v] = users[v]
    <3>1. users[u] = None
      BY <2>2, FreshId DEF InsertUser, NamesKept, Owned
    <3> QED
      BY <2>2, <3>1 DEF InsertUser, TypeOK
  <2>3. UNCHANGED code
    BY <1>2 DEF CreateSeedUser
  <2> QED
    BY <1>1, <2>1, <2>2, <2>3 DEF InsertUser, vars
<1>3. CASE CreateSeedGroup
  <2> DEFINE name == SeedGroups[seed.at]
  <2>1. (\E g \in GroupIds: CreateGroup(g, name)) \/ UNCHANGED vars
    BY <1>3 DEF CreateSeedGroup
  <2> HIDE DEF name
  <2>2. UNCHANGED code
    BY <1>3 DEF CreateSeedGroup
  <2>3. ASSUME NEW g \in GroupIds, CreateGroup(g, name)
        PROVE  /\ \A h \in GroupIds: groups[h] # None => groups'[h] = groups[h]
               /\ UNCHANGED <<users, members, rooms>>
    BY <2>3 DEF CreateGroup, FreshGroup, TypeOK
  <2> QED
    BY <1>1, <2>1, <2>2, <2>3 DEF vars
<1>4. CASE AppendSeed
  <2>1. UNCHANGED <<groups, rooms, code>> /\ members \subseteq members'
    BY <1>4 DEF AppendSeed, vars
  <2>2. \A u \in UserIds: users[u] # None => users'[u] = users[u]
    BY <1>4 DEF AppendSeed, vars
  <2> QED
    BY <2>1, <2>2
<1>5. CASE CreateSeedRoom
  <2>1. ASSUME NEW r \in RoomIds, NEW row, CreateRoom(r, row),
               code' = [code EXCEPT ![r] = SeedRooms[seed.at].code]
        PROVE  /\ \A q \in RoomIds: rooms[q] # None => rooms'[q] = rooms[q] /\ code'[q] = code[q]
               /\ UNCHANGED <<users, groups, members>>
    BY <2>1 DEF CreateRoom, FreshRoom, TypeOK, SeederTypeOK
  <2> QED
    BY <1>1, <1>5, <2>1 DEF CreateSeedRoom
<1>6. CASE LookUser \/ FetchUser \/ LookGroup \/ LinkGroup \/ LookRoom
  BY <1>1, <1>6 DEF LookUser, FetchUser, LookGroup, LinkGroup, LookRoom, Asks
<1> QED
  BY <1>2, <1>3, <1>4, <1>5, <1>6 DEF SeederStep

\* Each of the program's statements writes one row of rooms, with its dates in order,
\* or memberships, all in a group and of accounts that are there.
LEMMA SeederWrites ==
  ASSUME TypeOK, SeederTypeOK, SeederStep
  PROVE  /\ task' = task
         /\ \/ members' = members /\ added' = added
            \/ \E g \in GroupIds, ids \in SUBSET UserIds:
                 /\ groups'[g] # None /\ \A u \in ids: users'[u] # None
                 /\ members' = members \cup ({g} \X ids) /\ added' = added \cup ({g} \X ids)
                 /\ rooms' = rooms
         /\ \/ rooms' = rooms
            \/ \E r \in RoomIds, row \in RoomRow:
                 /\ Ordered(row) /\ (row.group # NoGroup => groups'[row.group] # None)
                 /\ rooms' = [rooms EXCEPT ![r] = row]
                 /\ members' = members
<1>1. CASE UNCHANGED vars
  BY <1>1 DEF vars
<1>2. CASE CreateSeedUser \/ CreateSeedGroup
  BY <1>1, <1>2 DEF CreateSeedUser, InsertUser, CreateSeedGroup, CreateGroup
<1>3. CASE AppendSeed
  <2> DEFINE ids == {m.id: m \in Joined}
  <2>1. ASSUME groups[seed.group] # None,
               users' = [u \in UserIds |-> IF users[u] = None /\ u \in ids THEN Read(u) ELSE users[u]],
               members' = members \cup ({seed.group} \X ids),
               added' = added \cup ({seed.group} \X ids),
               UNCHANGED <<groups, rooms, task, owner>>
        PROVE  \E g \in GroupIds, is \in SUBSET UserIds:
                 /\ groups'[g] # None /\ \A u \in is: users'[u] # None
                 /\ members' = members \cup ({g} \X is) /\ added' = added \cup ({g} \X is)
                 /\ rooms' = rooms
    <3>1. ids \subseteq UserIds /\ \A u \in ids: Read(u) \in Account
      BY <1>3, JoinedTyped DEF AppendSeed
    <3>2. seed.group \in GroupIds
      BY <1>3, SeedFields DEF AppendSeed
    <3> HIDE DEF ids
    <3>3. ASSUME NEW u \in ids PROVE users'[u] # None
      <4>1. Read(u) \in Account
        BY <3>1
      <4>2. Read(u) # None
        <5>1. None \notin Account
          BY MarksAssumption, Zenon
        <5> QED
          BY <4>1, <5>1, Zenon
      <4>3. users'[u] = IF users[u] = None THEN Read(u) ELSE users[u]
        BY <2>1, <3>1
      <4> QED
        BY <4>2, <4>3
    <3> QED
      BY <2>1, <3>1, <3>2, <3>3
  <2> QED
    BY <1>1, <1>3, <2>1 DEF AppendSeed
<1>4. CASE CreateSeedRoom
  <2> DEFINE new == SeedRooms[seed.at]
             group == IF new.linked THEN seed.group ELSE NoGroup
  <2>1. new.name \in Names /\ group \in GroupIds \cup {NoGroup}
    BY <1>4, SeedFields, SeedsTyped DEF CreateSeedRoom
  <2>2. ASSUME NEW r \in RoomIds, NEW start \in Dates, NEW end \in Dates,
               CreateRoom(r, [name |-> new.name, group |-> group, start |-> start, end |-> end])
        PROVE  /\ task' = task /\ members' = members /\ added' = added
               /\ \E q \in RoomIds, row \in RoomRow:
                    /\ Ordered(row) /\ (row.group # NoGroup => groups'[row.group] # None)
                    /\ rooms' = [rooms EXCEPT ![q] = row]
                    /\ members' = members
    <3> DEFINE row == [name |-> new.name, group |-> group, start |-> start, end |-> end]
    <3>1. CreateRoom(r, row)
      BY <2>2
    <3> HIDE DEF new, group
    <3>2. row \in RoomRow
      BY <2>1 DEF RoomRow
    <3> HIDE DEF row
    <3> QED
      BY <3>1, <3>2 DEF CreateRoom, Storable
  <2> QED
    BY <1>1, <1>4, <2>2 DEF CreateSeedRoom
<1>5. CASE LookUser \/ FetchUser \/ LookGroup \/ LinkGroup \/ LookRoom
  BY <1>1, <1>5 DEF LookUser, FetchUser, LookGroup, LinkGroup, LookRoom, Asks
<1> QED
  BY <1>2, <1>3, <1>4, <1>5 DEF SeederStep

\* What is neither a step of the directory nor one of the program leaves the tables
\* alone and at most ends a request.
LEMMA BesideWrites ==
  ASSUME TypeOK, Start \/ Crash \/ \E s \in Slots: RefuseCode(s)
  PROVE  /\ UNCHANGED <<users, groups, members, rooms, owner, added>>
         /\ \A z \in Slots: task'[z] \in {task[z], Idle}
<1>1. ASSUME NEW s \in Slots, RefuseCode(s)
      PROVE  \A z \in Slots: task'[z] \in {task[z], Idle}
  BY <1>1 DEF RefuseCode, End, TypeOK
<1> QED
  BY <1>1 DEF Start, Crash, RefuseCode, Asks, vars

LEMMA SeederTablesStep ==
  TypeOK /\ TypeOK' /\ SeederTypeOK /\ [SeederNext]_seederVars => [Edits!TablesNext]_(Edits!tableVars)
<1> SUFFICES ASSUME TypeOK, TypeOK', SeederTypeOK, [SeederNext]_seederVars,
                    ~UNCHANGED <<rooms, members>>
             PROVE  Edits!TablesNext
  BY DEF Edits!tableVars
<1>1. CASE Serve
  BY <1>1, TablesStep DEF Serve, Edits!tableVars
<1>2. CASE SeederStep
  <2>1. CASE rooms' = rooms
    BY <2>1 DEF TypeOK, Edits!TablesNext, Edits!EditMembers
  <2>2. ASSUME NEW r \in RoomIds, NEW row, rooms' = [rooms EXCEPT ![r] = row], members' = members
        PROVE  Edits!TablesNext
    BY <2>2 DEF TypeOK, Edits!TablesNext, Edits!EditOneRoom
  <2> QED
    BY <1>2, <2>1, <2>2, SeederWrites
<1> QED
  BY <1>1, <1>2, BesideWrites DEF SeederNext, seederVars, vars

\* The program, too, only changes one row of rooms, or memberships, in a statement:
\* admission may rely on it while the program runs.
THEOREM SeederKeepsTables == SeederSpec => KeepsTables
<1>1. SeederInit => Edits!TablesInit
  BY DEF SeederInit, Init, Edits!TablesInit
<1> QED
  BY <1>1, SeederTypeCorrect, SeederTablesStep, PTL DEF SeederSpec, KeepsTables, Edits!TablesSpec

\* The invariants of the directory, as one.
DirectoryKept == WindowsOrdered /\ MembershipsAdded /\ ReferencesHold

LEMMA ProgramKeepsDirectory ==
  ASSUME TypeOK, SeederTypeOK, NamesKept, DirectoryKept, SeederStep
  PROVE  DirectoryKept'
<1>1. task' = task
  BY SeederWrites
<1>2. WindowsOrdered'
  BY <1>1, SeederWrites DEF DirectoryKept, WindowsOrdered, TypeOK
<1>3. MembershipsAdded'
  <2>1. members' \subseteq added' /\ added \subseteq added'
    BY SeederWrites DEF DirectoryKept, MembershipsAdded
  <2> QED
    BY <1>1, <2>1 DEF DirectoryKept, MembershipsAdded
<1>4. MembershipsRefer'
  <2> SUFFICES ASSUME NEW g \in GroupIds, NEW u \in UserIds, <<g, u>> \in members'
               PROVE  groups'[g] # None /\ users'[u] # None
    BY DEF MembershipsRefer
  <2>1. CASE <<g, u>> \in members
    <3>1. groups[g] # None /\ users[u] # None
      BY <2>1 DEF DirectoryKept, ReferencesHold, MembershipsRefer
    <3> QED
      BY <3>1, OnlyAdds
  <2>2. CASE <<g, u>> \notin members
    BY <2>2, SeederWrites
  <2> QED
    BY <2>1, <2>2
<1>5. RoomsRefer'
  <2> SUFFICES ASSUME NEW r \in RoomIds, rooms'[r] # None, rooms'[r].group # NoGroup
               PROVE  groups'[rooms'[r].group] # None
    BY DEF RoomsRefer
  <2>1. CASE rooms'[r] = rooms[r]
    <3>1. rooms[r].group \in GroupIds /\ groups[rooms[r].group] # None
      BY <2>1 DEF DirectoryKept, ReferencesHold, RoomsRefer, TypeOK, RoomRow
    <3> QED
      BY <2>1, <3>1, OnlyAdds
  <2>2. CASE rooms'[r] # rooms[r]
    BY <2>2, SeederWrites DEF TypeOK
  <2> QED
    BY <2>1, <2>2
<1> QED
  BY <1>2, <1>3, <1>4, <1>5 DEF DirectoryKept, ReferencesHold

LEMMA SeederDirectoryStep ==
  TypeOK /\ SeederTypeOK /\ NamesKept /\ DirectoryKept /\ [SeederNext]_seederVars => DirectoryKept'
<1> SUFFICES ASSUME TypeOK, SeederTypeOK, NamesKept, DirectoryKept, [SeederNext]_seederVars
             PROVE  DirectoryKept'
  OBVIOUS
<1>1. CASE Serve
  BY <1>1, WindowsStep, MembershipsStep, ReferencesStep DEF Serve, DirectoryKept
<1>2. ASSUME UNCHANGED <<users, groups, members, rooms, owner, added>>,
             \A z \in Slots: task'[z] \in {task[z], Idle}
      PROVE  DirectoryKept'
  <2>1. WindowsOrdered'
    BY <1>2 DEF DirectoryKept, WindowsOrdered, Idle
  <2>2. MembershipsAdded'
    <3>1. ASSUME NEW z \in Slots, task'[z].op = "group" PROVE task'[z] = task[z]
      BY <1>2, <3>1 DEF Idle
    <3> QED
      BY <1>2, <3>1 DEF DirectoryKept, MembershipsAdded
  <2> QED
    BY <1>2, <2>1, <2>2 DEF DirectoryKept, ReferencesHold, MembershipsRefer, RoomsRefer
<1> QED
  BY <1>1, <1>2, ProgramKeepsDirectory, BesideWrites DEF SeederNext, seederVars, vars

\* What holds of rooms and memberships when administrators edit them still does when
\* the program runs beside them: dates in order, nobody in a group by themselves,
\* nothing that refers to a row which is not there.
THEOREM SeederKeepsDirectory == SeederSpec => [](WindowsOrdered /\ MembershipsAdded /\ ReferencesHold)
<1>1. SeederInit => DirectoryKept
  BY InitReferences DEF SeederInit, Init, DirectoryKept, WindowsOrdered, MembershipsAdded, Idle
<1>2. SeederNamesKept => NamesKept
  BY DEF SeederNamesKept
<1>3. DirectoryKept => WindowsOrdered /\ MembershipsAdded /\ ReferencesHold
  BY DEF DirectoryKept
<1> QED
  BY <1>1, <1>2, <1>3, SeederTypeCorrect, SeederAlwaysNamesKept, SeederDirectoryStep, PTL DEF SeederSpec

-----------------------------------------------------------------------------
(* Accounts that are gone *)

LEMMA AfterCarries ==
  ASSUME SeederTypeOK, NEW u, ~Carries(seed, u)
  PROVE  /\ ~Carries(AfterUser, u) /\ ~Carries(AfterRoom, u)
         /\ seed.pc \in {"groups", "createGroup", "append"} => ~Carries(AfterGroup, u)
         /\ seed.pc = "append" => ~Carries(AfterAppend, u)
<1>1. ~Carries(AfterUser, u)
  BY DEF Carries, AfterUser
<1>2. seed.pc \in {"groups", "createGroup", "append"} => ~Carries(AfterGroup, u)
  BY DEF Carries, AfterGroup
<1>3. ASSUME seed.pc = "append" PROVE ~Carries(AfterAppend, u)
  <2>1. seed \in [pc: {"append"}, at: DOMAIN SeedGroups, loaded: Loaded, group: GroupIds,
                  next: DOMAIN Joining]
    BY <1>3 DEF SeederTypeOK, Seed, Off, Done
  <2> QED
    BY <1>2, <1>3, <2>1 DEF Carries, AfterAppend
<1>4. ~Carries(AfterRoom, u)
  BY DEF Carries, AfterRoom, Done
<1> QED
  BY <1>1, <1>2, <1>3, <1>4

\* The program comes to carry only accounts that are there.
LEMMA CarriesStep ==
  ASSUME TypeOK, SeederTypeOK, SeederStep, NEW u \in UserIds, users[u] = None, ~Carries(seed, u)
  PROVE  ~Carries(seed', u)
<1>1. CASE LookUser \/ CreateSeedUser
  BY <1>1, AfterCarries DEF LookUser, CreateSeedUser, Carries, SeederTypeOK, Seed, Off, Done
<1>2. CASE FetchUser
  <2>1. seed.loaded \in Loaded /\ seed.pc = "fetch"
    BY <1>2, SeedFields DEF FetchUser
  <2>2. ASSUME NEW e, e # None => e.id # u, e \in [id: UserIds, row: Account] \cup {None}
        PROVE  ~Carries(AfterFetch(Append(seed.loaded, e)), u)
    <3> DEFINE grown == Append(seed.loaded, e)
    <3>1. \A k \in DOMAIN grown: grown[k] # None => grown[k].id # u
      BY <2>1, <2>2 DEF Loaded, Carries
    <3> HIDE DEF grown
    <3>2. ~Carries(AfterFetch(grown), u)
      BY <3>1 DEF AfterFetch, Carries
    <3> QED
      BY <3>2 DEF grown
  <2>3. ASSUME NEW v \in UserIds, FirstNamed(v, Joining[Len(seed.loaded) + 1])
        PROVE  v # u /\ users[v] \in Account
    BY <2>3 DEF FirstNamed, Named, TypeOK
  <2> QED
    BY <1>2, <2>2, <2>3 DEF FetchUser
<1>3. CASE LookGroup
  <2>1. CASE seed' = AfterGroup
    BY <1>3, <2>1, AfterCarries DEF LookGroup
  <2>2. CASE seed' = [seed EXCEPT !.pc = "createGroup"]
    <3>1. seed \in [pc: {"groups", "createGroup"}, at: DOMAIN SeedGroups, loaded: Loaded]
      BY <1>3 DEF LookGroup, SeederTypeOK, Seed, Off, Done
    <3> QED
      BY <1>3, <2>2, <3>1 DEF LookGroup, Carries
  <2> QED
    BY <1>3, <2>1, <2>2 DEF LookGroup
<1>4. CASE CreateSeedGroup
  <2>1. CASE seed' = AfterGroup
    BY <1>4, <2>1, AfterCarries DEF CreateSeedGroup
  <2>2. ASSUME NEW g \in GroupIds,
               seed' = [pc |-> "append", at |-> seed.at, loaded |-> seed.loaded, group |-> g, next |-> 1]
        PROVE  ~Carries(seed', u)
    <3>1. seed.pc = "createGroup" /\ seed'.loaded = seed.loaded
      BY <1>4, <2>2 DEF CreateSeedGroup
    <3> QED
      BY <3>1 DEF Carries
  <2> QED
    BY <1>4, <2>1, <2>2 DEF CreateSeedGroup
<1>5. CASE AppendSeed
  BY <1>5, AfterCarries DEF AppendSeed
<1>6. CASE LinkGroup
  BY <1>6 DEF LinkGroup, Carries
<1>7. CASE LookRoom \/ CreateSeedRoom
  BY <1>7, AfterCarries DEF LookRoom, CreateSeedRoom, Carries, SeederTypeOK, Seed, Off, Done
<1> QED
  BY <1>1, <1>2, <1>3, <1>4, <1>5, <1>6, <1>7 DEF SeederStep

LEMMA ProgramKeepsGone ==
  ASSUME TypeOK, SeederTypeOK, SeederNamesKept, SeederStep, NEW u \in UserIds, GoneBeside(u)
  PROVE  GoneBeside(u)'
<1>1. owner[u] # None /\ users[u] = None /\ ~Carries(seed, u)
  BY DEF GoneBeside, Gone
<1>2. owner'[u] # None
  BY <1>1, ProgramKeepsNames DEF SeederNamesKept, RowsOwned
<1>3. users'[u] = None
  <2>1. ASSUME NEW v \in UserIds, NEW row, InsertUser(v, row) PROVE users'[u] = None
    BY <1>1, <2>1, FreshId DEF InsertUser, TypeOK
  <2>2. CASE UNCHANGED users
    BY <1>1, <2>2
  <2>3. CASE CreateSeedUser
    BY <2>1, <2>2, <2>3 DEF CreateSeedUser, vars
  <2>4. CASE AppendSeed
    <3> DEFINE ids == {m.id: m \in Joined}
    <3>1. u \notin ids
      <4> SUFFICES ASSUME NEW m \in Joined, m.id = u PROVE FALSE
        OBVIOUS
      <4>1. PICK k \in 1..seed.next: seed.loaded[k] # None /\ m = seed.loaded[k]
        BY DEF Joined
      <4>2. k \in DOMAIN seed.loaded /\ seed.pc = "append"
        BY <2>4, SeedFields, SeedsTyped DEF AppendSeed, Loaded
      <4> QED
        BY <1>1, <4>1, <4>2 DEF Carries
    <3>2. CASE users' = [v \in UserIds |-> IF users[v] = None /\ v \in ids THEN Read(v) ELSE users[v]]
      BY <1>1, <3>1, <3>2
    <3> QED
      BY <2>2, <2>4, <3>2 DEF AppendSeed, vars
  <2>5. CASE \/ LookUser \/ FetchUser \/ LookGroup \/ CreateSeedGroup \/ LinkGroup \/ LookRoom
             \/ CreateSeedRoom
    BY <2>2, <2>5 DEF LookUser, FetchUser, LookGroup, CreateSeedGroup, CreateGroup, LinkGroup, LookRoom,
       CreateSeedRoom, CreateRoom, Asks, vars
  <2> QED
    BY <2>3, <2>4, <2>5 DEF SeederStep
<1>4. task' = task
  BY SeederWrites
<1>5. ~Carries(seed', u)
  BY <1>1, CarriesStep
<1> QED
  BY <1>2, <1>3, <1>4, <1>5 DEF GoneBeside, Gone, Carries

LEMMA BesideKeepsGone ==
  ASSUME TypeOK, SeederTypeOK, Start \/ Crash \/ Serve \/ \E s \in Slots: RefuseCode(s),
         NEW u \in UserIds, GoneBeside(u)
  PROVE  GoneBeside(u)'
<1>1. ~Carries(seed', u)
  BY DEF Start, Crash, Serve, RefuseCode, GoneBeside, Carries, Off
<1>2. CASE Serve
  BY <1>1, <1>2, GoneStep DEF Serve, GoneBeside, Carries
<1>3. CASE Start \/ Crash \/ \E s \in Slots: RefuseCode(s)
  <2>1. ASSUME NEW z \in Slots PROVE ~Recalls(task'[z], u)
    BY <1>3, BesideWrites DEF GoneBeside, Gone, Recalls, Idle
  <2> QED
    BY <1>1, <1>3, <2>1, BesideWrites DEF GoneBeside, Gone, Carries
<1> QED
  BY <1>2, <1>3

\* What is deleted stays deleted, with the seeder beside the server: of the rows it
\* carries it inserts none but those it had read while they were there.
THEOREM SeederDeletedAlwaysGone == SeederSpec => SeederStaysGone
<1>1. TypeOK /\ SeederTypeOK /\ SeederNamesKept /\ ReferencesHold' /\ [SeederNext]_seederVars =>
        [\A u \in UserIds: GoneBeside(u) =>
           GoneBeside(u)' /\ \A g \in GroupIds: <<g, u>> \notin members']_seederVars
  <2> SUFFICES ASSUME TypeOK, SeederTypeOK, SeederNamesKept, ReferencesHold', SeederNext,
                      NEW u \in UserIds, GoneBeside(u)
               PROVE  GoneBeside(u)' /\ \A g \in GroupIds: <<g, u>> \notin members'
    OBVIOUS
  <2>1. GoneBeside(u)'
    BY ProgramKeepsGone, BesideKeepsGone DEF SeederNext
  <2>2. users'[u] = None
    BY <2>1 DEF GoneBeside, Gone
  <2> QED
    BY <2>1, <2>2 DEF ReferencesHold, MembershipsRefer
<1> QED
  BY <1>1, SeederTypeCorrect, SeederAlwaysNamesKept, SeederKeepsDirectory, PTL DEF SeederSpec, SeederStaysGone
=============================================================================
