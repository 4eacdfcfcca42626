SPECIFICATION FairSpec
CONSTANTS
  Missing = 0
  Torn = 2
  Copies = {1, 2, 3}
  MaxPlaces = 1
  MaxMoves = 2
  MaxFaults = 1
INVARIANT TypeOK
INVARIANT SnapshotSound
PROPERTY NeverStolen
PROPERTY CatchesUp
CHECK_DEADLOCK FALSE
