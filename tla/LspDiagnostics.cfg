CONSTANTS
    Uris = {u1, u2}
    PathUris = {u1, u2}
    SourceUris = {u1, u2}
    Packages = {p}
    Texts = {t}
    MaxGeneration = 4
    MaxBumps = 5
    NoProject = NoProject
    Closed = Closed
    MaxPackageCacheEntries = 1
    MaxPending = 2
    MaxPendingPerKey = 2
    Nothing = Nothing
    Ids = {r1}
    Queries = {q1}
    Flags = {f1}
    NoFlag = NoFlag
    NoJob = NoJob
    Kinds = {}
    ClientSaves = TRUE
    ClientReopens = FALSE
    ResponseWorkers = 2
    MaxPendingPackageJobs = 1
    MaxPendingViewJobs = 1
SYMMETRY Symmetry
SPECIFICATION Spec
INVARIANTS CachesAreCurrent InFlightIsOwed 
CHECK_DEADLOCK FALSE
