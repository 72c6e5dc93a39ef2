\* One user who starts a daemon that is still stopping.
CONSTANTS
    u1 = u1
    u2 = u2
    User <- MCUser
    MaxCalls = 3
    MaxPanics = 0
SPECIFICATION Spec
INVARIANT StartedIsRunning
SYMMETRY Symmetry
CHECK_DEADLOCK FALSE
