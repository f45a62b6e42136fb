SPECIFICATION FairSpec
CONSTANTS
    User = {u}
    MaxJobs = 3
    MaxSessions = 2
    Drops = TRUE
    SpawnFails = FALSE
    None = None
CHECK_DEADLOCK FALSE
PROPERTY CallsEnd
