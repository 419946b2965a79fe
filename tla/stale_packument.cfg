SPECIFICATION Spec
CONSTANTS
    k1 = k1
    k2 = k2
    c1 = c1
    c2 = c2
    Procs = {k1, k2}
    Callers = {c1}
    MaxVersion = 2
    MaxAttempts = 2
    MaxRuns = 3
INVARIANT
    Fresh
CHECK_DEADLOCK FALSE
