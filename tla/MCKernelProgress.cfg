SPECIFICATION FairSpec
CONSTANTS
  NUM_PROCESSES = 3
  THREADS_PER_PROC = 1
  RX_CAP = 2
  FIFO_DEPTH = 2
  MAX_READ = 1
  KillPids = {1, 2}
  NULL = NULL
  Calls <- OneNeverSleeps
PROPERTIES
  ReadyRuns
  OldestReaderServed
