\* One sync at a time, nothing else that adds rows; two keys below recordings/.
SPECIFICATION HLiveSpec
CONSTANTS
  roomKey = roomKey
  Rooms = {r1}
  NoPrefix = NoPrefix
  None = None
  DefaultKey <- DefaultKeys
  Keys = {roomKey, k1, k2}
  Synced = {k1, k2}
  Takes = {t1}
  Ids = {i1, i2}
  Stops = {}
  Syncs = {y1}
  Renames = {}
  Faults = FALSE
INVARIANT
  UniqueLinks
PROPERTIES
  SyncImports
  SyncCovers
