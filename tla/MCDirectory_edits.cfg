\* One account, one group and two rooms that share a name, two dates, and two
\* requests at a time; statements fail.
SPECIFICATION Spec
CONSTANTS
  UserIds = {1}
  Usernames = {bob}
  GroupIds = {g1}
  RoomIds = {r1, r2}
  Names = {a}
  Blank = Blank
  Dates = {1, 2}
  NoGroup = NoGroup
  Keep = Keep
  None = None
  Seeded <- NoAccounts
  Slots = {s1, s2}
  Faults = TRUE
SYMMETRY Symmetry
CONSTRAINT FewRooms
INVARIANTS
  TypeOK
  WindowsOrdered
  MembershipsAdded
PROPERTIES
  KeepsTables
  DeletedStaysGone
