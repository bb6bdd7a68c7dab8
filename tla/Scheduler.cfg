CONSTANTS
    Buckets = {b1, b2}
    Views = {v1}
    MaxJobs = 3
    MaxPendingPackageJobs = 1
    MaxPendingViewJobs = 1
    NoJob = NoJob
SPECIFICATION Spec
INVARIANTS TypeOK NoLostWakeup JobsAccountedFor
PROPERTIES NoDegradedResult EveryJobIsReported ShutdownTerminates
