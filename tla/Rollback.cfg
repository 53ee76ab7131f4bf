\* Four versions: the third crashes before its verdict, the fourth hangs; three troubles,
\* so that the second may be withdrawn for being slow, and a rollback may fail to start.
SPECIFICATION FairSpec
CONSTANTS
    Last = 4
    Healthy = {1, 2}
    Crashing = {3}
    MaxTrouble = 3
INVARIANTS TypeOK
PROPERTIES InstallsWell HungLeft
CHECK_DEADLOCK FALSE
