CONSTANTS
    n1 = n1
    n2 = n2
    n3 = n3
    NoPeer = NoPeer
    Garbage <- NoGarbage
    Directed <- TwoDirected
    Node <- MCNode
    Peers <- MCPeersAsym
    UNSYNC <- MCUnsync
SPECIFICATION Spec
CONSTRAINT InFlightBound
PROPERTY HandshakeEnds
