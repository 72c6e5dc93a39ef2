\* Two samples, two streams, channels of one event; one failing sample or save,
\* one crash, one event of another publisher.
CONSTANTS
    k1 = k1
    k2 = k2
    s1 = s1
    s2 = s2
    Kinds <- MCKinds
    Stream <- MCStream
    Queue = 1
    Histories <- MCHistories
    MaxSamples = 2
    MaxFaults = 1
    MaxCrashes = 1
    MaxStreams = 2
    MaxOthers = 1
SPECIFICATION Spec
INVARIANTS TypeOK OneActiveAttackPerKind HistoryMatchesStatus LogTellsTheStatus StreamsMissNothing
PROPERTIES SavedHistoryStands
SYMMETRY Symmetry
CHECK_DEADLOCK FALSE
