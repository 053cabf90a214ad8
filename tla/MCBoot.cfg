SPECIFICATION BootSpec
CONSTANTS
  PGD_ENTRIES = 12
  Peripherals <- OneDevice
  USER_VIRT_BASE = 3
  RAM_BASE = 5
  RAM_SIZE = 3
  KERNEL_PHYS_BASE = 5
  USER_PHYS_BASE = 6
  USER_PHYS_STRIDE = 1
  VA_KERNEL_BASE = 9
  NUM_PROCESSES = 2
  OFF = OFF
  BOOT_PGD = BOOT_PGD
INVARIANTS
  KernelReachable
  UserIsolated
  ImagesIntact
  StrayPointersFault
