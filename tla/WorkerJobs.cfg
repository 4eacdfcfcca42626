SPECIFICATION FairSpec
CONSTANTS
  JobCount = 2
  Priority <- MCPriority
  Urgent = 1
  DocOf <- MCDocOf
  Docs = {d1}
  Questions = {q1}
  MaxFloor = 1
  MaxCancels = 2
  Elsewhere = {8, 9}
  Budget = 5
INVARIANT TypeOK
INVARIANT OrdersHeeded
PROPERTY KeepsContract
PROPERTY RepliesEnd
CHECK_DEADLOCK FALSE
