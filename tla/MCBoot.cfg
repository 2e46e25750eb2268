CONSTANTS
  Cpus = {c1, c2, c3}
  Bsp = c1
  MaxCpu = 3
  MaxId = 3
  Platforms <- AnyLapicId
SPECIFICATION FairSpec
INVARIANTS
  HandlersReady
  PerCpuReady
  OwnTss
PROPERTY BootCompletes
