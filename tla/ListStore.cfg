SPECIFICATION Spec
CONSTANTS
    c1 = c1
    c2 = c2
    a1 = a1
    a2 = a2
    Client <- MCClient
    Addr <- MCAddr
    Boot = boot
    NoThread = nothread
    MaxCalls = 3
    MaxFaults = 2
    MaxCrashes = 2
SYMMETRY Symmetry
INVARIANTS
    TypeOK
    RestartNeverRefused
    AcknowledgedIsDurableWhenSettled
PROPERTIES
    ImplementsDurableLists
CHECK_DEADLOCK FALSE
