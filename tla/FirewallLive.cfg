\* The same callers with fairness: fewer ticks, no cleanup script, no symmetry.
CONSTANTS
    a1 = a1
    a2 = a2
    c1 = c1
    c2 = c2
    NoCaller = NoCaller
    Addr = {a1, a2}
    Caller = {c1, c2}
    Second = 2
    Enabled = TRUE
    Selection = "auto"
    Detected = {"nftables", "iptables"}
    Requests <- MCRequests
    MaxCalls = 2
    MaxFaults = 1
    MaxCrashes = 1
    MaxWipes = 0
    MaxTime = 2
SPECIFICATION FairSpec
PROPERTY EveryCallReturns
CHECK_DEADLOCK FALSE
