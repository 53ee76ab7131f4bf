\* Two runs, so that one may be owed a report while the other is offered; one trouble, a
\* death of the app or a write that fails, at any step.
SPECIFICATION FairSpec
CONSTANTS
    r1 = r1
    r2 = r2
    Runs = {r1, r2}
    NoRun = none
    MaxTrouble = 1
INVARIANTS RunsOnce OneAtATime
PROPERTIES RunsEnd
CHECK_DEADLOCK FALSE
