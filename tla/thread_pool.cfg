SPECIFICATION FairSpec
CONSTANTS
  t1 = t1
  t2 = t2
  t3 = t3
  NoTid = NoTid
  Undefined = Undefined
  thread_num = 3
  Tids = {t1, t2, t3}
INVARIANTS TypeOK OwnArgument DistinctArguments Inv
PROPERTIES WorkersEnd WorkersWindDown
CHECK_DEADLOCK FALSE
