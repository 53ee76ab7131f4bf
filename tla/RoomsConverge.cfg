\* Two clients of one room; connections drop and the hub restarts.  Liveness, without
\* symmetry.
SPECIFICATION FairSpec
CONSTANTS
  c1 = c1
  c2 = c2
  e1 = e1
  e2 = e2
  a = a
  b = b
  Clients = {c1, c2}
  Edits = {e1}
  RoomNames = {a}
  MaxConns = 3
  MaxRooms = 1
  LogMax = 2
  PendingMax = 1
  Faults = {"drop", "restart"}
PROPERTY Converges
CHECK_DEADLOCK FALSE
