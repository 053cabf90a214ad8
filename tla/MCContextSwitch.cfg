SPECIFICATION Spec
CONSTANTS
  NUM_THREADS = 3
  THREADS_PER_PROC = 2
  Values = {0, 1}
  BOOT = BOOT
INVARIANTS
  UserContextIntact
  AddressSpaceOwn
  KernelStackOwn
