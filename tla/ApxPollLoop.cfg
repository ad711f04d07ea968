CONSTANTS
  ClientFd <- MCClientFd
INIT Init
NEXT Next
INVARIANT TypeOK
INVARIANT PollFdsMatchPlayers
INVARIANT NoReadySlotSkipped
PROPERTY ImplementsClientTable
