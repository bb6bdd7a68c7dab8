\* Two file URIs and one package: managed siblings, moves between the
\* package and the URI-local buckets, close and reopen.
CONSTANTS
    Uris = {u1, u2}
    PathUris = {u1, u2}
    SourceUris = {u1, u2}
    Packages = {p}
    Texts = {t1, t2}
    MaxGeneration = 4
    NoProject = NoProject
    Closed = Closed
SYMMETRY Symmetry
SPECIFICATION Spec
INVARIANTS TypeOK CurrentKeyMeansCurrentInputs KeysDetermineInputs
PROPERTY CancellationIsPermanent
CHECK_DEADLOCK FALSE
