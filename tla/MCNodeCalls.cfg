SPECIFICATION FairSpec
CONSTANTS
    c1 = c1
    c2 = c2
    Call = {c1, c2}
    Local <- MCLocal
    Timed <- MCTimed
    Capacity = 1
INVARIANT PendingOwned
INVARIANT StopReleases
PROPERTY ImplementsContract
PROPERTY TimedCallsReturn
PROPERTY StopFreesWaiters
