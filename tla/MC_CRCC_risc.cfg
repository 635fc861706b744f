CONSTANTS
  Parts = {"compiler"}
  None = None
  Junk = Junk
  ByteBits = 2
  DataLen = 2
  Systems <- MCSystems
  Options <- MCOptions
  Targets <- RiscTargets
  Datas <- MCDatas
  Search <- FindBest
  MaxPresses = 0
  Batches <- MCBatches
  RealPath <- MCRealPath
  AutoPath <- MCAutoPath
  Defaults <- MCDefaults
  Bad = Bad
  Types <- MCTypes
  Procs = {1, 2}
  Flags <- MCFlags
  CacheBatches <- MCCacheBatches
  Lengths = {2, 3}
  Byte = 2
  Jobs <- MCJobs
SPECIFICATION MCSpec
INVARIANT RoutineIsRight
CHECK_DEADLOCK FALSE
