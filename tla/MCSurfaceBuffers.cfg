SPECIFICATION Safety
CONSTANTS
  Surface = {s1}
  View = {v1, v2}
  Item = {v1}
  Buffer = {b1, b2}
  Planar = {}
  UploadsShm = FALSE
  NoSurface = NoSurface
  NoBuffer = NoBuffer
SYMMETRY Symmetry
VIEW WithoutTextureDirty
CONSTRAINT TwoViews
INVARIANTS
  TypeOK NextMirrorsCommit Settled HeldIsOwned
PROPERTIES
  LockedBufferKept ImplementsOwnership
CHECK_DEADLOCK FALSE
