CONSTANTS
  Cpus = {c1, c2}
  Bsp = c1
  Pages = {p1}
  Entries = {e1, e2}
  Absent = Absent
SPECIFICATION FairSpec
INVARIANTS
  StaleCovered
PROPERTY StaleGoes
