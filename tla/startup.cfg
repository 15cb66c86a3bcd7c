SPECIFICATION FairSpec
CONSTANTS
  Ios = {1, 2, 3}
  KernelEvents = 2
  StackEvents = 2
  MayStop = TRUE
  default = default
  other = other
  DefaultConf = default
  Disks <- MCDisks
  CommandLines <- MCCommandLines
  NotGiven = NotGiven
  Unreadable = Unreadable
  IntHalf = 4
INVARIANTS TypeOK ServingIsReady Inv
PROPERTIES InFlightCounted
CHECK_DEADLOCK FALSE
