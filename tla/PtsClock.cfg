CONSTANTS
    n1 = n1
    n2 = n2
    NoPeer = NoPeer
    Node <- MCNode
    NatStart <- MCNatStart
    MaxTime = 6
    MaxDirectives = 3
    MaxRounds = 2

SPECIFICATION Spec

INVARIANT TypeOK ClockNeverClamped

PROPERTY SyncAccuracy
SYMMETRY MCSymmetry
CHECK_DEADLOCK FALSE
