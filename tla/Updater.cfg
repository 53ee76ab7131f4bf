\* Two updaters; fetches and renames fail, calls hang, processes die, the machine sleeps.
SPECIFICATION FairSpec
CONSTANTS
  u1 = u1
  u2 = u2
  f1 = f1
  f2 = f2
  a = a
  b = b
  c = c
  Updaters = {u1, u2}
  Files = {f1, f2}
  Last = 3
  Contents = {a, b, c}
  Build <- MCBuild
  Torn = torn
  NoFile = nofile
  Faults = {"sleep", "net", "hang", "rename", "crash"}
  MaxTrouble = 2
INVARIANTS TypeOK OneUpdater FilesVerified CurrentIsInstalled
PROPERTIES Converges
CHECK_DEADLOCK FALSE
