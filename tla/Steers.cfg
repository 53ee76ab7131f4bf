\* A steer and two spawns, two desktops, two frames in all: one request at both
\* desktops, or two at one or at one each.  MaxRunning 1: the second spawn of a
\* desktop meets the cap; PendingMax 1: the hub turns one away.
SPECIFICATION FairSpec
CONSTANTS
    steer = steer
    spawn1 = spawn1
    spawn2 = spawn2
    desk1 = desk1
    desk2 = desk2
    Requests = {steer, spawn1, spawn2}
    Spawns = {spawn1, spawn2}
    Desktops = {desk1, desk2}
    MaxRunning = 1
    PendingMax = 1
    MaxFrames = 2
    MaxFaults = 1
INVARIANTS TypeOK OnlyConsented SenderTold EndingReported
PROPERTIES EveryHandlerEnds
CHECK_DEADLOCK FALSE
