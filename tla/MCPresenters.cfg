SPECIFICATION MCSpec
CONSTANTS
    b = b
    s2 = s2
    Id = {self, a, b}
    Self = self
    Signature = {s1, s2}
    None = None
    Interval = 2
    FullTicks = 5
    Expiry = 6
    Cleanup = 2
    WriteTimeout = 10
    MaxDelay = 1
    MaxInFlight = 2
    MaxLost = 1
INVARIANT EventsFit
INVARIANT ViewIsRight
INVARIANT PresenceInv
PROPERTY SilentNodesLeave
PROPERTY StaysPresent
