\* Two clients and two rooms on a hub that keeps one; connections drop, clients
\* leave and come back to either room, the hub restarts.  Safety.
SPECIFICATION Spec
CONSTANTS
  c1 = c1
  c2 = c2
  e1 = e1
  e2 = e2
  a = a
  b = b
  Clients = {c1, c2}
  Edits = {e1, e2}
  RoomNames = {a, b}
  MaxConns = 3
  MaxRooms = 1
  LogMax = 2
  PendingMax = 1
  Faults = {"drop", "restart", "leave"}
INVARIANTS TypeOK NoGap Seated
SYMMETRY Symmetry
CHECK_DEADLOCK FALSE
