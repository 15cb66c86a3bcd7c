SPECIFICATION Spec
CONSTANTS
  h1 = h1
  h2 = h2
  good = good
  bad = bad
  Handlers = {h1, h2}
  Puts = {h1, h2}
  ListLength = 3
  MaxIoDepth = 2
  Events = 2
  MaxAttempts = 2
  Offsets = {good, bad}
  RefusedOffsets = {bad}
  Length = 2
  Results <- MCResults
  SpuriousWakeups = FALSE
  ReapMax = 2
  FsyncMayFail = TRUE
  PutStreamMax = 2
  GetStreamMax = 0
SYMMETRY Symmetry
INVARIANTS TypeOK SubmittedPrefix SleepBounded AnsweredWritesDurable SoleRequestExact
PROPERTIES SubmissionAdvances
CHECK_DEADLOCK FALSE
