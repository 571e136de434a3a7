SPECIFICATION Safety
CONSTANTS
  Surface = {s1}
  View = {v1, v2}
  Item = {v2}
  Buffer = {b1, b2}
  Planar = {}
  UploadsShm = FALSE
  NoSurface = NoSurface
  NoBuffer = NoBuffer
SYMMETRY Symmetry
CONSTRAINT TwoViews
PROPERTIES
  DiscardFreesBuffer
CHECK_DEADLOCK FALSE
