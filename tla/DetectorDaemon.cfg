\* Five calls of two users, which may begin a second loop while the first ends.
CONSTANTS
    u1 = u1
    u2 = u2
    User <- MCUser
    MaxCalls = 5
    MaxPanics = 1
SPECIFICATION FairSpec
INVARIANTS TypeOK FlagsTellTheTruth
PROPERTIES ShutdownIsQuiet StoppingEnds
CHECK_DEADLOCK FALSE
