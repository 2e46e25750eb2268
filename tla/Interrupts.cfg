CONSTANTS
  Cpus = {c1, c2}
  Bsp = c1
  Lines = {0, 1, 2}
  Word = 2
SPECIFICATION Spec
INVARIANTS
  InService
  IgnoredOnce
PROPERTIES
  TicksGoOn
  TickReachesAll
