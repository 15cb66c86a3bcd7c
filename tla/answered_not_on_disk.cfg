SPECIFICATION Spec
CONSTANTS
  h1 = h1
  h2 = h2
  good = good
  bad = bad
  Handlers = {h1}
  Puts = {h1}
  ListLength = 3
  MaxIoDepth = 2
  Events = 2
  MaxAttempts = 1
  Offsets = {good}
  RefusedOffsets = {}
  Length = 2
  Results <- MCTwoResults
  SpuriousWakeups = TRUE
  ReapMax = 2
  FsyncMayFail = TRUE
  PutStreamMax = 2
  GetStreamMax = 0
INVARIANTS AnsweredDataOnDisk
CHECK_DEADLOCK FALSE
