SPECIFICATION Spec
CONSTANTS
  PacBit = 100000
  Worlds <- MCWorlds
  Regions <- MCRegions
  Funcs <- MCFuncs
  Astray <- MCAstray
  SkipMaps = {"liballoc_hook.so"}
  StopMaps = {"odex"}
  ExitFunctions = {"exit"}
  OtherErrors = {}
  Archs = {"X86_64", "ARM64"}
  Frames = {2, 5}
  Depths = {1, 2}
INVARIANTS
  CallersRight
  NoGuessLeft
  ErrorTells
PROPERTIES
  Terminates
CHECK_DEADLOCK FALSE
