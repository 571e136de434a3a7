SPECIFICATION Spec
CONSTANTS
  Toplevel = {t1}
  Misbehaving = {}
  NoToplevel = NoToplevel
  MaxSerial = 5
INVARIANTS
  WindowedSizeIsRemembered
CHECK_DEADLOCK FALSE
