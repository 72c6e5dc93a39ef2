\* One update whose backup cannot be written after the runtime has taken the
\* candidate over.
CONSTANTS
    c1 = c1
    c2 = c2
    k1 = k1
    k2 = k2
    k3 = k3
    k4 = k4
    Caller <- MCCaller
    Config <- MCConfig
    Listener <- MCListener
    Undeliverable <- MCUndeliverable
    Updates <- MCConfig
    NoCaller = NoCaller
    Damaged = Damaged
    MaxCalls = 1
    MaxFaults = 1
    MaxCrashes = 0
    MaxEdits = 0
SPECIFICATION Spec
INVARIANTS RolledBackIsRestored
SYMMETRY Symmetry
CHECK_DEADLOCK FALSE
