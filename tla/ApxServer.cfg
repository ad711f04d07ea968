CONSTANTS
    a1 = a1
    a2 = a2
    i1 = i1
    i2 = i2
    UNKNOWN = UNKNOWN
    Fd <- MCFd
    Addr <- MCAddr
    Id <- MCId
    Conn <- MCConn
    M <- MCM
    Lines <- MCLines
    MaxPenalty <- MCMaxPenalty
SPECIFICATION Spec
SYMMETRY Symmetry
INVARIANT TypeOK
INVARIANT TotalIsSum
INVARIANT GameEndsAtM
INVARIANT NoLockout
