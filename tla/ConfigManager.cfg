\* Two callers, three operations; a rejected and a refused candidate; one
\* failing read or write, one crash and one edit of the file.
CONSTANTS
    c1 = c1
    c2 = c2
    k1 = k1
    k2 = k2
    k3 = k3
    k4 = k4
    Caller <- MCCaller
    Config <- MCConfig
    Listener <- MCListener
    Undeliverable <- MCUndeliverable
    Updates <- MCConfig
    NoCaller = NoCaller
    Damaged = Damaged
    MaxCalls = 3
    MaxFaults = 1
    MaxCrashes = 1
    MaxEdits = 1
SPECIFICATION Spec
INVARIANTS TypeOK ReportsWhatRuns AcknowledgedIsInForce
PROPERTIES RollbackFindsTheVersion
SYMMETRY Symmetry
CHECK_DEADLOCK FALSE
