CONSTANTS
    Uris = {u1}
    PathUris = {u1}
    SourceUris = {u1}
    Packages = {p}
    Texts = {t}
    MaxGeneration = 4
    MaxBumps = 3
    NoProject = NoProject
    Closed = Closed
    MaxPackageCacheEntries = 1
    MaxPending = 2
    MaxPendingPerKey = 2
    Nothing = Nothing
    Ids = {r1}
    Queries = {q1}
    Flags = {f1}
    NoFlag = NoFlag
    NoJob = NoJob
    Kinds = {}
    ClientSaves = TRUE
    ClientReopens = TRUE
    ResponseWorkers = 2
    MaxPendingPackageJobs = 1
    MaxPendingViewJobs = 1
SPECIFICATION Spec
PROPERTY UntrustedUntilTrustedText
CHECK_DEADLOCK FALSE
