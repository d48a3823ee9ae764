\* Two recordings of one room and one stop request.
SPECIFICATION Spec
CONSTANTS
  roomKey = roomKey
  Rooms = {r1}
  NoPrefix = NoPrefix
  None = None
  DefaultKey <- DefaultKeys
  Keys = {roomKey}
  Synced = {}
  Takes = {t1, t2}
  Ids = {i1}
  Stops = {s1}
  Syncs = {}
  Renames = {}
  Faults = FALSE
INVARIANT
  StopEndsRecording
