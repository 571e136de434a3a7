SPECIFICATION Spec
CONSTANTS
  Surface = {s1}
  View = {v1}
  Item = {v1}
  Buffer = {b1, p1}
  Planar = {p1}
  UploadsShm = FALSE
  NoSurface = NoSurface
  NoBuffer = NoBuffer
PROPERTIES
  CommitReachesView SupersededIsReleased
CHECK_DEADLOCK FALSE
