SPECIFICATION Spec
CONSTANTS
  Pages = 2
  SentenceCount <- MCSentenceCount
  MaxCached = 1
  MaxMoves = 3
  MaxFaults = 0
INVARIANT ResultInHand
CHECK_DEADLOCK FALSE
