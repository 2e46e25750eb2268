CONSTANTS
  Cpus = {c1, c2}
  Bsp = c1
  Early = {"heap", "vmalloc"}
  Later = {"later"}
  NFrames = 7
SPECIFICATION Spec
INVARIANT Cr3Alive
