SPECIFICATION MCSpec
CONSTANTS
    Node = {1, 2}
    Slot = {1, 2}
    NoLink = NoLink
    Stops = {1, 2}
    Faults = TRUE
    Connection = {c1, c2, c3}
    None = None
INVARIANT TableMatchesEnds
INVARIANT PeerEventsInv
PROPERTY HealthyKept
PROPERTY StopTerminates
PROPERTY WriterlessLeaves
