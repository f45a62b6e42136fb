SPECIFICATION MCSpec
CONSTANTS
    t = t
    u = u
    p = p
    q = q
    Thread = {t, u}
    Field = {f}
    Peer = {p, q}
    FullTicks = 2
    TooLong <- MCTooLong
    None = None
INVARIANT NothingForgotten
PROPERTY TakenIdsRefused
PROPERTY BeaconsAreSnapshots
PROPERTY FieldsBecomeKnown
