SPECIFICATION MCSpec
CONSTANTS
    Node = {1, 2}
    Slot = {1, 2}
    NoLink = NoLink
    Stops = {1, 2}
    Faults = FALSE
    MaxNodes = 2
INVARIANT ListedIsHeard
PROPERTY MeshConverges
PROPERTY EachPairMeets
