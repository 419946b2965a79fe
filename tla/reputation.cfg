SPECIFICATION Spec
CONSTANTS
    k1 = k1
    k2 = k2
    a = a
    b = b
    c = c
    Procs = {k1, k2}
    People = {a, b, c}
    MaxRuns = 3
    Days <- MCDays
    Window = 3
    Letters <- MCLetters
    Popular <- MCPopular
    Names <- MCNames
INVARIANTS
    ChangesTold
    DatesAgree
    SquatsSeen
CHECK_DEADLOCK FALSE
