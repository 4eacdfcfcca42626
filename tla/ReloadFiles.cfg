SPECIFICATION FairSpec
CONSTANTS
  Files = {f1, f2, f3}
  NoFile = none
  Folders = {f1}
  Archives = {f2}
  Contents = {"good", "gone"}
  Workers = {w1}
  WatchDocument = TRUE
  ReportAfter = 2
  MaxAttempts = 2
  MaxOpens = 2
  MaxWrites = 2
  MaxFaults = 0
INVARIANT TypeOK
INVARIANT ScreenHeld
INVARIANT RightFile
PROPERTY ComesUpToDate
CHECK_DEADLOCK FALSE
