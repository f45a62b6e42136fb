SPECIFICATION MCSpec
CONSTANTS
    Connexon = {c1, c2, c3}
    NoFile = NoFile
    Careful = TRUE
    User = {u, v}
    MaxJobs = 4
    MaxSessions = 3
    None = None
CHECK_DEADLOCK FALSE
INVARIANT StartedIsReachable
PROPERTY RefusedOnlyIfRunning
PROPERTY CallsEnd
