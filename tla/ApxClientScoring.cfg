CONSTANTS
  M <- MCM
  MaxPuts <- MCMaxPuts
  AutoStrategy <- AutoOnly
INIT Init
NEXT Next
INVARIANT ScoredClientExitsCleanly
