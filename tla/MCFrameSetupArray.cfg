CONSTANTS
  PageSize = 5
  SizeFrame = 1
  SizeFrameInfo = 3
  Pages = 5
  MemoryMaps <- MCMemoryMaps
SPECIFICATION SetupSpec
INVARIANT ArrayMarkedUsed
