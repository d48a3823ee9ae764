\* An account is deleted while it is added to a group.
SPECIFICATION Spec
CONSTANTS
  UserIds = {1}
  Usernames = {bob}
  GroupIds = {g1}
  RoomIds = {}
  Names = {a}
  Blank = Blank
  Dates = {}
  NoGroup = NoGroup
  Keep = Keep
  None = None
  Seeded <- NoAccounts
  Slots = {s1, s2}
  Faults = FALSE
INVARIANT
  DeletionUnhindered
