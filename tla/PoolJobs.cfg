SPECIFICATION Spec
CONSTANTS
  JobCount = 3
  Generation <- MCGeneration
  Priority <- MCPriority
  Bytes <- MCBytes
  InlineFrame = 2
  InlineCap = 4
  Depth = 2
  PoolSize = 2
  MaxRestarts = 1
  Docs = {}
  Questions = {}
  Topic <- MCOwnTopic
  MaxSlots = 3
  MaxEpochs = 4
  MaxFaults = 1
  MaxFloor = 1
  MaxOpens = 1
  Budget = 5
INVARIANT TypeOK
INVARIANT PictureOwn
INVARIANT Accounted
