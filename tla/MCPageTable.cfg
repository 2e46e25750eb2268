CONSTANTS
  Cpus = {c1, c2}
  Depth = 2
  Index = {1, 2}
  NFrames = 3
  Address <- ThreePages
  Apart = TRUE
SPECIFICATION FairSpec
INVARIANT FramesOnce
PROPERTIES
  MappingSpec
  FaultResolved
