\* One user, two rooms of a group, one token request and one kick at a time; faults,
\* crashes, lost and repeated webhooks, and events of another sender; the memberships
\* change at any time and the windows open once.  No symmetry: a property is temporal.
SPECIFICATION LiveSpec
CONSTANTS
  alice = alice
  g1 = g1
  r2 = r2
  Users = {alice}
  Names = {alice}
  Groups = {g1}
  Rooms = {r1, r2}
  Rows <- MemberRows
  Requests = {q1}
  Kicks = {k1}
  NoGroup = NoGroup
  NoRow = NoRow
  CreatorOf <- Creators
  Admins = {}
  PendingTTL = 1
  JoinedTTL = 2
  Faults = TRUE
  Times = {0, 1}
  Posted <- OneRoomEvents
  LossyHooks = TRUE
PROPERTIES
  StalePresenceClears
  KeepsLedger
