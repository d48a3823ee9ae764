\* One room, a default key and a key below recordings/; two egresses, two stop
\* requests, one sync and one rename at a time; faults and crashes.
SPECIFICATION Spec
CONSTANTS
  roomKey = roomKey
  Rooms = {r1}
  NoPrefix = NoPrefix
  None = None
  DefaultKey <- DefaultKeys
  Keys = {roomKey, k1}
  Synced = {k1}
  Takes = {t1, t2}
  Ids = {i1, i2}
  Stops = {s1, s2}
  Syncs = {y1}
  Renames = {n1}
  Faults = TRUE
SYMMETRY Symmetry
INVARIANTS
  TypeOK
  StorageInv
  StopMakesProgress
PROPERTY
  KeepsCatalogue
