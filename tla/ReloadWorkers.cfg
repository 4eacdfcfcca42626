SPECIFICATION Spec
CONSTANTS
  Files = {f1}
  NoFile = none
  Folders = {}
  Archives = {}
  Contents = {"good", "bad"}
  Workers = {w1, w2}
  WatchDocument = TRUE
  ReportAfter = 2
  MaxAttempts = 1
  MaxOpens = 3
  MaxWrites = 1
  MaxFaults = 1
SYMMETRY Alike
PROPERTY NothingStranded
PROPERTY PromotesWanted
CHECK_DEADLOCK FALSE
