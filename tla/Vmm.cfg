CONSTANTS
  Cpus = {c1, c2}
  Pages = 3
  PageSize = 2
  Word = 16
  Sizes = {1, 3, 4, 8}
  Frames = {f1, f2}
  NoFrame = NoFrame
SPECIFICATION Spec
INVARIANTS
  Tiling
  FrameAccounted
  FreshIsUnmapped
  OwnersDontPanic
PROPERTY SpaceSpec
