SPECIFICATION MDSpec
CONSTANTS
  t1 = t1
  t2 = t2
  t3 = t3
  b1 = b1
  b2 = b2
  Thread = {t1, t2}
  NoThread = NoThread
  Caller <- MCCaller
  NoCaller = NoCaller
  Backtrace = {b1}
  NoTrace = NoTrace
  Depth <- MCDepth
  UINTPTR_MAX = 4
  PointerMaxSize = 1
  Pointer = {0, 1, 2, 3, 4}
  Size = {1}
  Types = {"HOST", "MMAP"}
  UnwindResults = {"ok"}
  Options = {"BACKTRACE", "TRACK_ALLOCS", "BACKTRACE_SPECIFIC_SIZES", "RECORD_MEMORY_PEAK"}
  MinSizeBytes = 0
  MaxSizeBytes = 3
  DumpPeakVal = 0
  MaxUsed = 20
  MaxIndex = 7
  ANDROID_API = 21
  Ops = {"malloc", "exit"}
  FailOps = {}
  SignalsStrikeTracker = FALSE
  MaxSignals = 0
CHECK_DEADLOCK FALSE
INVARIANTS
  FinalizeExclusive
