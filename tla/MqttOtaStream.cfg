CONSTANTS
  Sizes = {3, 4}
  Block = 2
  Capacity = 1
  Total = 4
  Idle = 2
  MaxNow = 6
  MaxOps = 2
  Tags = {t1, t2}
  NoFrame = NoFrame
SPECIFICATION FairSpec
INVARIANTS InOrder SelectionIsComplete TimeoutIsReal NoStall DataRequestLives
PROPERTIES TransferEnds
CHECK_DEADLOCK FALSE
