SPECIFICATION Spec
CONSTANTS
  Overlays = {1}
  Embedded = {}
  PageOf <- MCPageOf
  Pages = {1, 2}
  Runtimes <- MCRuntimes
  Slots = 2
  MaxRestarts = 1
  MaxParked = 1
  MaxOpens = 3
  FrameCount <- MCFrameCount
  MaxMoves = 1
  MaxFaults = 0
INVARIANT ReplacedByComplete
CHECK_DEADLOCK FALSE
