\* One request in flight when the API stops serving.
CONSTANTS
    r1 = r1
    r2 = r2
    Request <- MCRequest
    MaxCalls = 3
    MaxPanics = 0
SPECIFICATION Spec
INVARIANT RequestsAreDrained
CHECK_DEADLOCK FALSE
