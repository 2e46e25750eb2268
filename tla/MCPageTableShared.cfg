CONSTANTS
  Cpus = {c1, c2}
  Depth = 2
  Index = {1, 2}
  NFrames = 3
  Address <- ThreePages
  Apart = FALSE
SPECIFICATION Spec
INVARIANT DemandIsUnmapped
