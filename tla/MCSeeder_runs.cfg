\* Two accounts to be made, a group that both join and a room of the group, run any
\* number of times; one request at a time beside it; statements fail.
SPECIFICATION SeederSpec
CONSTANTS
  UserIds = {1, 2}
  Usernames = {amy, bob}
  GroupIds = {g1}
  RoomIds = {r1, r2}
  Names = {team}
  Blank = Blank
  Dates = {1}
  NoGroup = NoGroup
  Keep = Keep
  None = None
  Seeded <- NoAccounts
  Slots = {s1}
  Faults = TRUE
  amy = amy
  bob = bob
  team = team
  daily = daily
  SeedUsers <- TwoUsers
  Joining <- Both
  SeedGroups <- OneGroup
  SeedRooms <- OneRoom
  LinkedGroup = team
  Codes = {daily}
SYMMETRY Symmetry
CONSTRAINTS
  FewRoles
  FewRooms
INVARIANTS
  SeederTypeOK
  SeedOnce
  SeedComplete
  SeederNamesKept
PROPERTY
  SeederStaysGone
