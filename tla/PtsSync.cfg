CONSTANTS
    n1 = n1
    n2 = n2
    n3 = n3
    NoPeer = NoPeer
    Garbage <- NoGarbage
    Directed <- TwoDirected
    Node <- MCNode
    Peers <- MCPeersAsym
    UNSYNC <- MCUnsync
INIT Init
NEXT Next
CONSTRAINT InFlightBound
VIEW View
INVARIANT TypeOK
INVARIANT FollowerFollowsKnownPeer
PROPERTY LevelOnlyImproves
