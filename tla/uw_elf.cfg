SPECIFICATION Spec
CONSTANTS
  WordBits = 12
  U64 = 8192
  SizeMod = 16
  MaxCalls = 3
  Elfs <- MCElfs
INVARIANTS
  CallerRestored
  NamesRight
  FramesUsed
  MemoryAgrees
CHECK_DEADLOCK FALSE
