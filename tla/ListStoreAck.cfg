SPECIFICATION Spec
CONSTANTS
    c1 = c1
    c2 = c2
    a1 = a1
    a2 = a2
    Client <- MCClient
    Addr <- MCAddr
    Boot = boot
    NoThread = nothread
    MaxCalls = 2
    MaxFaults = 1
    MaxCrashes = 1
SYMMETRY Symmetry
INVARIANTS
    AcknowledgedIsDurable
CHECK_DEADLOCK FALSE
