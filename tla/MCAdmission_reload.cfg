\* A participant who reloads: no fault, no lost webhook, and a day much longer
\* than two minutes.
SPECIFICATION ReloadSpec
CONSTANTS
  alice = alice
  g1 = g1
  r2 = r2
  Users = {alice}
  Names = {alice}
  Groups = {}
  Rooms = {r1, r2}
  Rows <- PublicRows
  Requests = {q1}
  Kicks = {}
  NoGroup = NoGroup
  NoRow = NoRow
  CreatorOf <- Creators
  Admins = {}
  PendingTTL = 1
  JoinedTTL = 12
  Faults = FALSE
  Times = {0}
  Posted <- NoEvents
  LossyHooks = FALSE
PROPERTY
  ElsewhereDetected
CHECK_DEADLOCK FALSE
