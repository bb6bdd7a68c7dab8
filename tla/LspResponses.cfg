CONSTANTS
    Uris = {u1}
    PathUris = {u1}
    SourceUris = {u1}
    Packages = {p}
    Texts = {t}
    MaxGeneration = 4
    MaxBumps = 3
    NoProject = NoProject
    Closed = Closed
    MaxPackageCacheEntries = 1
    MaxPending = 2
    MaxPendingPerKey = 2
    Nothing = Nothing
    Ids = {r1, r2}
    Queries = {q1, q2}
    Flags = {f1, f2, f3}
    NoFlag = NoFlag
    NoJob = NoJob
    Kinds = {"references", "rename"}
    ClientSaves = FALSE
    ClientReopens = TRUE
    ResponseWorkers = 2
    MaxPendingPackageJobs = 1
    MaxPendingViewJobs = 1
SYMMETRY Symmetry
SPECIFICATION Spec
INVARIANTS WaitersAreOwed
PROPERTY PoolAnswersMatch
CHECK_DEADLOCK FALSE
