CONSTANTS
  Programs <- MCPrograms
  Files <- MCFiles
  Inputs <- MCInputs
  Starts <- MCStarts
  default_vars <- MCDefaults
  VarNames <- MCVarNames
  ArgIndex <- MCArgIndex
  DEFAULT_DEPTH_CAP = 4
  DEFAULT_ITER_CAP = 4
  Inf = 10
  RecursionLimit = 6
  Calls = 2
  Alphabets <- MCAlphabets
  MaxLexemes = 6
  Values <- MCValues
  MaxNodes = 5
SPECIFICATION MCSpec
INVARIANTS CallsAreAlike ParsersAgree LexKeepsValue RangeIsOne
PROPERTIES ExitsReachTheirBlock ForeachRestores CallsEnd
CHECK_DEADLOCK FALSE
