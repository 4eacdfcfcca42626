SPECIFICATION FairSpec
CONSTANTS
  Pages = 2
  SentenceCount <- MCSentenceCount
  MaxCached = 1
  MaxMoves = 3
  MaxFaults = 1
INVARIANT TypeOK
INVARIANT Accompanied
INVARIANT QuietWhenStopped
PROPERTY WaitsEnd
CHECK_DEADLOCK FALSE
