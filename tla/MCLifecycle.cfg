SPECIFICATION MCSpec
CONSTANTS
    User = {u}
    MaxJobs = 4
    MaxSessions = 2
    Drops = TRUE
    SpawnFails = TRUE
    None = None
    Json <- MCJson
    CallType <- MCCallTypes
    Given <- MCGiven
    EventType <- MCEventTypes
    EventWrites <- MCEventWrites
    EventReads <- MCEventReads
    Null = Null
    Number = Number
    unit = unit
    Huge = Huge
    float = float
    option = option
    Absent = Absent
    NoSchema = NoSchema
    Signal = Signal
CHECK_DEADLOCK FALSE
INVARIANT LifecycleInv
INVARIANT TypedCallsInv
INVARIANT TypedEventsInv
