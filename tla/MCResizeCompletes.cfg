SPECIFICATION Spec
CONSTANTS
  Toplevel = {t1}
  Misbehaving = {}
  NoToplevel = NoToplevel
  MaxSerial = 5
PROPERTIES
  ResizeCompletes
CHECK_DEADLOCK FALSE
