CONSTANTS
  Cpus = {c1, c2}
  Bsp = c1
  Nobody = Nobody
SPECIFICATION Spec
CHECK_DEADLOCK FALSE
INVARIANTS
  NoWaitCycle
  HaltCovers
PROPERTIES
  PanicStops
  MessageOut
