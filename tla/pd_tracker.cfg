SPECIFICATION Spec
CONSTANTS
  c1 = c1
  c2 = c2
  c3 = c3
  b1 = b1
  b2 = b2
  Caller = {c1, c2}
  NoCaller = NoCaller
  Backtrace = {b1, b2}
  NoTrace = NoTrace
  Depth <- MCDepth
  UINTPTR_MAX = 3
  PointerMaxSize = 3
  Pointer = {1, 2}
  Size = {1}
  Types = {"HOST", "DMA"}
  UnwindResults = {"ok", "failed", "exit"}
  Options = {"BACKTRACE", "TRACK_ALLOCS", "BACKTRACE_SPECIFIC_SIZES", "RECORD_MEMORY_PEAK"}
  MinSizeBytes = 0
  MaxSizeBytes = 3
  DumpPeakVal = 0
  MaxUsed = 2
  MaxIndex = 3
SYMMETRY CallerSymmetry
INVARIANTS
  FramesPresent
  ReferencesCover
  CountersCover
PROPERTIES
  PeakListFresh
