CONSTANTS
  PageSize = 5
  SizeFrame = 1
  SizeFrameInfo = 3
  Pages = 5
  MemoryMaps <- MapsOfN
  N = 5
  Handles = {p, q}
  Boot = Boot
  MaxCount = 2
  MaxRange = 2
SPECIFICATION MemorySpec
INVARIANTS
  SetupContract
  FreeIsUsable
  PanicOnlyWithoutRoom
  RefCountExact
  FreeExact
PROPERTIES
  StatsFollow
  PoolSpec
