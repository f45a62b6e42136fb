SPECIFICATION MCSpec
CONSTANTS
    a = a
    b = b
    q1 = q1
    q2 = q2
    q3 = q3
    g = g
    Query = {q1, q2, q3}
    Client = {a, b}
    Owner <- MCOwner
    MaxHandlers = 2
    Handler = {g, h}
    Capacity = 2
    MaxEvents = 3
    MaxSessions = 2
    None = None
CHECK_DEADLOCK FALSE
INVARIANT PermitsConserved
INVARIANT FewAreServed
INVARIANT EventsInv
PROPERTY StoppedGiveBack
PROPERTY WaitingIsHandled
