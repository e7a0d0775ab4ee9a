SPECIFICATION Spec
CONSTANTS
  Requester = {1, 2}
  Target = {7}
  EntryId = {11, 12}
  MaxRequests = 4
  MaxMoves = 2
  MayFail = {"maps", "sigaction", "tgkill", "exit"}
  SlowThreads = FALSE
INVARIANTS
  EntryAlive
  PausedForUnwind
  NeverDefault
PROPERTIES
  RequestsReturn
CHECK_DEADLOCK FALSE
