\* A taker who asks twice, one desk each; handlers of any slowness, a hub that forgets,
\* lost calls and answers, apps that die.
CONSTANTS
  bob = bob
  carol = carol
  dave = dave
  bobDesk = bobDesk
  carolDesk = carolDesk
  carolDesk2 = carolDesk2
  daveDesk = daveDesk
  r1 = r1
  r2 = r2
  r3 = r3
  NoReq = NoReq
  Reqs = {r1, r3}
  Desks = {bobDesk, carolDesk}
  People = {bob, carol}
  Owner = bob
  Home = bobDesk
  PersonOf <- MCPersonOf
  SentFrom <- MCSentFrom
  AskMs = 1
  PendingMs = 2
  Faults = {"slow", "evict", "lose", "crash"}
SPECIFICATION Spec
INVARIANTS TypeOK HaltOnlyAfterBaton TurnHasConsent
SYMMETRY SameTaker
CHECK_DEADLOCK FALSE
