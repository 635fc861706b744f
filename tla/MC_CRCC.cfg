CONSTANTS
  Parts = {"compiler", "batch", "cache", "matrix"}
  None = None
  Junk = Junk
  ByteBits = 2
  DataLen = 2
  Systems <- MCSystems
  Options <- MCOptions
  Targets <- MCTargets
  Datas <- MCDatas
  Search <- FindBest
  MaxPresses = 3
  Batches <- MCBatches
  RealPath <- MCRealPath
  AutoPath <- MCAutoPath
  Defaults <- MCDefaults
  Bad = Bad
  Types <- MCTypes
  Procs = {1, 2}
  Flags <- MCFlags
  CacheBatches <- MCCacheBatches
  Lengths = {2, 3}
  Byte = 2
  Jobs <- MCJobs
SPECIFICATION MCSpec
INVARIANTS SameEquations ResultIsOrdered InterruptKeepsResult RoutineComputes
  LossesAreReported FailureIsContained ParametersAreTheCurves
  GraphIsForTheJob EntriesAreWhole MatrixIsChecksum
PROPERTIES RoundPays CompilerFinishes Refines
CHECK_DEADLOCK FALSE
