SPECIFICATION FairSpec
CONSTANTS
  h1 = h1
  h2 = h2
  good = good
  bad = bad
  Handlers = {h1, h2}
  Puts = {h1}
  ListLength = 2
  MaxIoDepth = 2
  Events = 2
  MaxAttempts = 1
  Offsets = {good, bad}
  RefusedOffsets = {bad}
  Length = 2
  Results <- MCTwoResults
  SpuriousWakeups = TRUE
  ReapMax = 2
  FsyncMayFail = TRUE
  PutStreamMax = 1
  GetStreamMax = 3
INVARIANTS WaitCoversBatch ContextOutlivesIO Inv
PROPERTIES SubmissionEnds SleeperAnswered SleeperKept ImplementsBatchIO
CHECK_DEADLOCK FALSE
