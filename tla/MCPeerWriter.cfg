SPECIFICATION Spec
CONSTANTS
    Peer = {p1, p2}
    Sender = {s1, s2}
    Broadcaster = {s2}
SYMMETRY PeerSymmetry
CHECK_DEADLOCK FALSE
INVARIANT AnswersTruthful
INVARIANT CarriesPrefix
INVARIANT BroadcastReaches
