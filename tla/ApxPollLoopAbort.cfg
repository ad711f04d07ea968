CONSTANTS
  ClientFd <- MCClientFd
INIT Init
NEXT Next
INVARIANT ServerSurvivesBadClient
