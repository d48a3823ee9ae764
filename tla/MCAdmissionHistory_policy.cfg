\* One user, one room and every row that decides differently; the room, its window
\* and the group are edited while a token request is in progress.
SPECIFICATION HSpec
CONSTANTS
  alice = alice
  guest = guest
  g1 = g1
  g2 = g2
  Users = {alice}
  Names = {alice, guest}
  Groups = {g1, g2}
  Rooms = {r1}
  Rows <- AllRows
  Requests = {q1}
  Kicks = {}
  NoGroup = NoGroup
  NoRow = NoRow
  CreatorOf <- Creators
  Admins = {}
  PendingTTL = 1
  JoinedTTL = 2
  Faults = TRUE
  Times = {0, 1, 2}
  Posted <- NoEvents
  LossyHooks = FALSE
INVARIANTS
  EnterableIsListed
  GrantEntitled
