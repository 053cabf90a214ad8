SPECIFICATION WQSpec
CONSTANTS
  t1 = t1
  t2 = t2
  t3 = t3
  t4 = t4
  NULL = NULL
  Threads <- FourThreads
  WAITQ_CAP = 4
INVARIANT RingShape
PROPERTY ImplementsReaderQueue
