SPECIFICATION FairSpec
CONSTANTS
  JobCount = 1
  Generation <- MCGeneration
  Priority <- MCPriority
  Bytes <- MCBytes
  InlineFrame = 2
  InlineCap = 4
  Depth = 2
  PoolSize = 1
  MaxRestarts = 1
  Docs = {d1}
  Questions = {q1}
  Topic <- MCOwnTopic
  MaxSlots = 4
  MaxEpochs = 5
  MaxFaults = 3
  MaxFloor = 0
  MaxOpens = 2
  Budget = 3
INVARIANT SaidOnce
INVARIANT OneHome
INVARIANT WorkersKeepUp
PROPERTY NoInnocentKill
PROPERTY AsksEnd
PROPERTY WaitEnds
