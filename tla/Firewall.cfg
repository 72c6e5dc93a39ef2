\* Every interleaving of two operations of two callers, two failing commands,
\* one crash, one run of the cleanup script; half-second ticks.
CONSTANTS
    a1 = a1
    a2 = a2
    c1 = c1
    c2 = c2
    NoCaller = NoCaller
    Addr = {a1, a2}
    Caller = {c1, c2}
    Second = 2
    Enabled = TRUE
    Selection = "auto"
    Detected = {"nftables", "iptables"}
    Requests <- MCRequests
    MaxCalls = 2
    MaxFaults = 2
    MaxCrashes = 1
    MaxWipes = 1
    MaxTime = 5
SPECIFICATION Spec
INVARIANTS TypeOK TableMatchesPolicy NoGapNoLockout RollbackSurvivesCancellation
PROPERTIES OnlyExplainedErrors
SYMMETRY Symmetry
CHECK_DEADLOCK FALSE
