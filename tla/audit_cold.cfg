SPECIFICATION Spec
CONSTANTS
    k1 = k1
    k2 = k2
    p1 = p1
    Procs = {k1, k2}
    Pkgs = {p1}
    Wants <- MCWants
    Malicious = {}
    AbortOnCritical = TRUE
    TTL = 1
    MaxLag = 1
    MaxRuns = 3
    t1 = t1
    t2 = t2
    Tarballs = {t1, t2}
    Malformed = Malformed
    ScriptNames = {"preinstall", "install", "postinstall", "test"}
    BlockNeedles = {"eval("}
    WarnNeedles = {"process.env"}
    Metas <- MCMetas
    Versions <- MCVersions
    Ids <- MCIds
    Batches <- MCBatches
    Advisories <- MCAdvisories
    Blocking <- MCBlocking
INVARIANT
    ErrorsStayCold
CHECK_DEADLOCK FALSE
