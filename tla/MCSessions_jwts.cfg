\* Two accounts of two names, the first an admin's at the start; one room; one JWT
\* at a time, good for two ticks; two requests at a time.
SPECIFICATION SessionsSpec
CONSTANTS
  UserIds = {1, 2}
  Usernames = {amy, bob}
  GroupIds = {}
  RoomIds = {r1}
  Names = {a}
  Blank = Blank
  Dates = {1}
  NoGroup = NoGroup
  Keep = Keep
  None = None
  Seeded <- OneAdmin
  Slots = {s1, s2}
  Faults = TRUE
  TTL = 2
  MaxSessions = 1
SYMMETRY Symmetry
CONSTRAINT FewSessions
INVARIANTS
  SessionsTypeOK
  AdminRecently
  CreatorKicks
