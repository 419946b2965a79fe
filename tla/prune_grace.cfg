SPECIFICATION Spec
CONSTANTS
    k1 = k1
    k2 = k2
    p1 = p1
    p2 = p2
    p3 = p3
    p4 = p4
    t1 = t1
    t2 = t2
    tx = tx
    h1 = h1
    h2 = h2
    h3 = h3
    None = None
    Malformed = Malformed
    Tarballs = {t1, t2, tx}
    Content <- SmallContent
    Wants <- MCWants
    Grace = 1
    Concurrency = 2
    Procs = {k1, k2}
    Pkgs = {p1, p2}
    Hashes = {h1, h2}
    Meta <- MCMeta
    MaxClock = 2
    MaxRuns = 2
    MaxPrunes = 1
PROPERTY
    JustWrittenSurvives
CHECK_DEADLOCK FALSE
