\* Two clients of one room that come and go; no connection fails and the log is
\* never full.
SPECIFICATION Spec
CONSTANTS
  c1 = c1
  c2 = c2
  e1 = e1
  e2 = e2
  a = a
  b = b
  Clients = {c1, c2}
  Edits = {e1}
  RoomNames = {a}
  MaxConns = 4
  MaxRooms = 1
  LogMax = 20
  PendingMax = 4
  Faults = {"leave"}
PROPERTY SnapshotsHarmless
CHECK_DEADLOCK FALSE
