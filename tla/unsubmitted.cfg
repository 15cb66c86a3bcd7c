SPECIFICATION FairSpec
CONSTANTS
  h1 = h1
  h2 = h2
  good = good
  bad = bad
  Handlers = {h1}
  Puts = {h1}
  ListLength = 3
  MaxIoDepth = 2
  Events = 2
  MaxAttempts = 1
  Offsets = {good, bad}
  RefusedOffsets = {bad}
  Length = 2
  Results <- MCTwoResults
  SpuriousWakeups = FALSE
  ReapMax = 2
  FsyncMayFail = FALSE
  PutStreamMax = 2
  GetStreamMax = 0
PROPERTIES UnsubmittedAnswered
CHECK_DEADLOCK FALSE
