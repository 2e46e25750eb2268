CONSTANTS
  Cpus = {bsp}
  Bsp = bsp
  Pages = 4
  PageSize = 2
  Word = 16
  Sizes = {2}
  Frames = {f1}
  NoFrame = NoFrame
  MaxPhys = 3
  MaxSize = 3
  Regions <- AllRegions
  Lapic <- TheLapic
SPECIFICATION AcpiSpec
INVARIANTS
  RegionSeen
  NothingLeft
  UnwrapsHold
