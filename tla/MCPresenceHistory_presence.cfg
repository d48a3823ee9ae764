\* One user, two rooms, two token requests at a time; faults, crashes, lost and
\* repeated webhooks, and events of another sender; time that is counted from the
\* causes of a presence key.  Requests are interchangeable.
SPECIFICATION PSpec
CONSTANTS
  alice = alice
  g1 = g1
  r2 = r2
  Users = {alice}
  Names = {alice}
  Groups = {}
  Rooms = {r1, r2}
  Rows <- PublicRows
  Requests = {q1, q2}
  Kicks = {}
  NoGroup = NoGroup
  NoRow = NoRow
  CreatorOf <- Creators
  Admins = {}
  PendingTTL = 1
  JoinedTTL = 2
  Faults = TRUE
  Times = {0}
  Posted <- OneRoomEvents
  LossyHooks = TRUE
SYMMETRY SlotSymmetry
INVARIANTS
  TypeOK
  Traced
  PresenceDue
