SPECIFICATION FairSpec
CONSTANTS
  Docs = {d1, d2, d3}
  NoDoc = none
  Queries = {q1, q2}
  NoQuery = empty
  Invalid = {q2}
  Unsearchable = {d3}
  PageCount <- MCPageCount
  Text <- MCText
  Notes <- MCNotes
  MaxHits = 20
  ChunkHits = 10
  FirstChunk = 1
  MaxChunk = 2
  MaxInFlight = 2
  MaxMoves = 3
  MaxFaults = 1
  d1 = d1
  q1 = q1
INVARIANT TypeOK
INVARIANT HitsRight
INVARIANT OwedOnce
PROPERTY ScanEnds
CHECK_DEADLOCK FALSE
