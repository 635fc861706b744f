CONSTANTS
  Programs <- MCPrograms
  Files <- MCFiles
  Inputs <- MCInputs
  Starts <- MCStarts
  default_vars <- MCDefaults
  VarNames <- MCVarNames
  ArgIndex <- MCArgIndex
  DEFAULT_DEPTH_CAP = 4
  DEFAULT_ITER_CAP = 4
  Inf = 10
  RecursionLimit = 6
  Calls = 2
  Alphabets <- MCAlphabets
  MaxLexemes = 1
  Values <- MCValues
  MaxNodes = 1
SPECIFICATION MCSpec
PROPERTY ForeachAlwaysRestores
CHECK_DEADLOCK FALSE
