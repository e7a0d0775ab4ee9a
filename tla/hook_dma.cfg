SPECIFICATION Spec
CONSTANTS
  Thread = {t1, t2}
  Addr = {100, 101}
  Fd = {3, 4}
  Inode = {7, 8}
  SizeOf <- MCSizeOf
  Unset = Unset
  NotANumber = NotANumber
  SIZE_MAX = 15
  LONG_MAX = 7
  MB = 4
  MinDefault = 1
  Envs <- MCEnvs
  Calls <- MCCalls
  MaxCalls = 5
INVARIANTS
  ResolvedBeforeUse
  EntriesExist
  FirstBufsTracked
  OneMappingPerRequest
PROPERTIES
  HooksReturn
CHECK_DEADLOCK FALSE
