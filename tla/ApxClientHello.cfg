CONSTANTS
  M <- MCM
  MaxPuts <- MCMaxPuts
  AutoStrategy <- ManualOnly
INIT Init
NEXT Next
INVARIANT HelloBeforePut
