SPECIFICATION Spec
CONSTANTS
  WORD = 8
  DELAYS = {0, 2, 5}
  POLL_GAP = 2
  UINT = 128
  RADIX = 10
  DEC_DIGITS = 3
  NIBBLE = 4
  NIBBLES = 4
  ULIB_LINE_MAX = 5
  USER_VIRT_BASE = 32
  USER_REGION_SIZE = 42
  THREADS_PER_PROC = 2
  PS_NAME_W = 2
  RX_BYTES = 3
  Names <- TwoNames
  Lengths <- SomeLengths
  Buffers <- SomeBuffers
  Snapshots <- ByTid
  NumArgs = {0, 1, 2, 7, 8, 127}
  Formats <- SomeFormats
  Numbers <- SomeNumbers
  Strings <- SomeStrings
  Char = "z"
INVARIANTS
  DelayNeverEarly
  DelayOnTime
  PointersConfined
  ResultTruthful
  PsShowsListing
  NumeralsExact
  PrintfsAgree
PROPERTIES
  DelayEnds
