SPECIFICATION Safety
CONSTANTS
  Surface = {s1}
  View = {v1}
  Item = {v1}
  Buffer = {b1, b2}
  Planar = {}
  UploadsShm = TRUE
  NoSurface = NoSurface
  NoBuffer = NoBuffer
PROPERTIES
  UploadReadsOwned
CHECK_DEADLOCK FALSE
