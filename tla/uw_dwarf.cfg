SPECIFICATION Spec
CONSTANTS
  W2 = 1
  W4 = 1
  W8 = 2
  Arm64 = TRUE
  MaxIterations = 5
  MaxCalls = 2
  SP = 2
  PC = 3
  Images <- MCImages
  InitRegs <- MCRegs
  ProcessMemory <- MCMemory
INVARIANTS
  RowIsDeclared
  EveryFunctionFound
  RegistersOfCaller
  StackDiscipline
PROPERTY
  StepReturns
