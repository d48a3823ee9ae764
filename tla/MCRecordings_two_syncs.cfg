\* Two syncs at a time.
SPECIFICATION Spec
CONSTANTS
  roomKey = roomKey
  Rooms = {r1}
  NoPrefix = NoPrefix
  None = None
  DefaultKey <- DefaultKeys
  Keys = {roomKey, k1}
  Synced = {k1}
  Takes = {t1}
  Ids = {i1, i2}
  Stops = {}
  Syncs = {y1, y2}
  Renames = {}
  Faults = FALSE
INVARIANT
  UniqueLinks
