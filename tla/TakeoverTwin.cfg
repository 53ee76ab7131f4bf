\* A taker with two desktops and a second taker; nothing fails.
CONSTANTS
  bob = bob
  carol = carol
  dave = dave
  bobDesk = bobDesk
  carolDesk = carolDesk
  carolDesk2 = carolDesk2
  daveDesk = daveDesk
  r1 = r1
  r2 = r2
  r3 = r3
  NoReq = NoReq
  Reqs = {r1, r2}
  Desks = {bobDesk, carolDesk, carolDesk2, daveDesk}
  People = {bob, carol, dave}
  Owner = bob
  Home = bobDesk
  PersonOf <- MCPersonOf
  SentFrom <- MCSentFrom
  AskMs = 1
  PendingMs = 2
  Faults = {}
SPECIFICATION Spec
CHECK_DEADLOCK FALSE
INVARIANT OneTurn
