CONSTANTS
  n1 = n1
  n2 = n2
  n3 = n3
  n4 = n4
  NoPeer = NoPeer
  Node <- MCNode
  KnownPeer <- StarPeers
  MAX_CAPACITY = 2
  MAX_REPLY_COUNT = 1
SPECIFICATION Spec
CONSTRAINT InFlightBound
CHECK_DEADLOCK FALSE
INVARIANT TypeOK PeeringSymmetricOrPending
