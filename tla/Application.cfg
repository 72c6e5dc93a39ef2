\* Two connections, a detector that may panic once, one signal; Run makes three
\* calls to the detector.
CONSTANTS
    r1 = r1
    r2 = r2
    Request <- MCRequest
    MaxCalls = 3
    MaxPanics = 1
SPECIFICATION FairSpec
INVARIANTS TypeOK CleanShutdownHasTheLastWord LifeIsRecorded
PROPERTY EveryRunEnds
CHECK_DEADLOCK FALSE
