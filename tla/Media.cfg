SPECIFICATION FairSpec
CONSTANTS
  Overlays = {1, 2}
  Embedded = {2}
  PageOf <- MCPageOf
  Pages = {1, 2}
  Runtimes <- MCRuntimes
  Slots = 2
  MaxRestarts = 1
  MaxParked = 1
  MaxOpens = 3
  FrameCount <- MCFrameCount
  MaxMoves = 2
  MaxFaults = 1
INVARIANT TypeOK
INVARIANT RingSound
INVARIANT FollowsAudience
PROPERTY OpenEnds
CHECK_DEADLOCK FALSE
