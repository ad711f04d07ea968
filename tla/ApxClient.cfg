CONSTANTS
  M <- MCM
  MaxPuts <- MCMaxPuts
  AutoStrategy <- BothStrategies
SPECIFICATION FairSpec
INVARIANT TypeOK CreditMatchesOutstanding
PROPERTY AutoClientTerminates
