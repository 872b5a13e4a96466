SPECIFICATION MCSpec
CONSTANTS
  Fn <- All
  Text <- MCText
  Table <- MCTable
  Kept <- MCKept
  Start <- MCStart
  Limit = 26
  Junk = "junk"
  Lanes = 2
  Out = 8
  MaxBlocks = 5
INVARIANTS Unwound ReturnOK FollowsDiscipline StoreInFrame FrameOK Result
CHECK_DEADLOCK FALSE
