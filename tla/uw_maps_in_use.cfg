SPECIFICATION Spec
CONSTANTS
  Thread = {1, 2}
  Files <- MCFiles
  Layouts <- MCLayouts
  FirstLayouts <- MCFirst
  Pcs = {3, 4, 7, 9}
  SearchLibs = {"lib"}
  ParseResults = {TRUE}
  MaxCalls = 3
  MaxRemaps = 1
INVARIANTS
  MapsInUseStay
CHECK_DEADLOCK FALSE
