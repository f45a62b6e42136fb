SPECIFICATION Spec
CONSTANTS
    Connexon = {c1, c2}
    NoFile = NoFile
    Careful = FALSE
CHECK_DEADLOCK FALSE
INVARIANT StartedIsReachable
