SPECIFICATION FairSpec
CONSTANTS
  NUM_PROCESSES = 2
  THREADS_PER_PROC = 1
  RX_CAP = 1
  FIFO_DEPTH = 1
  MAX_READ = 1
  KillPids = {}
  NULL = NULL
  Calls <- Readers
PROPERTIES
  BusyWaitEndsWithInput
