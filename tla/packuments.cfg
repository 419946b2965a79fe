SPECIFICATION LiveSpec
CONSTANTS
    k1 = k1
    k2 = k2
    c1 = c1
    c2 = c2
    Procs = {k1, k2}
    Callers = {c1, c2}
    MaxVersion = 2
    MaxAttempts = 2
    MaxRuns = 1
INVARIANTS
    TypeOK
    FreshAlone
    TagNotAhead
PROPERTY
    CallsEnd
CHECK_DEADLOCK FALSE
