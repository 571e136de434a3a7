SPECIFICATION Safety
CONSTANTS
  Surface = {s1, s2}
  View = {v1}
  Item = {v1}
  Buffer = {b1, b2}
  Planar = {}
  UploadsShm = TRUE
  NoSurface = NoSurface
  NoBuffer = NoBuffer
SYMMETRY Symmetry
CONSTRAINT OneView
INVARIANTS
  NoDanglingRef UnusedIsReleased DestroyedIsFreed ViewsMatch
CHECK_DEADLOCK FALSE
