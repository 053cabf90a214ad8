SPECIFICATION Spec
CONSTANTS
  NUM_PROCESSES = 2
  THREADS_PER_PROC = 2
  RX_CAP = 2
  FIFO_DEPTH = 2
  MAX_READ = 2
  KillPids = {0, 1, 2}
  NULL = NULL
  Calls <- AnyProgram
INVARIANTS
  TypeOK
  WaitqHoldsSleepers
  WakeupConsumed
  ParkedThreadsResumable
  WhoRunsUserCode
  HandlerPaths
  FaultRetiresProcess
  FaultFramesBounded
  StrandedBytesAreSurplus
PROPERTIES
  DeadOffCpuStaysDead
