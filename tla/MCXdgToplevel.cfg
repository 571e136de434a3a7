SPECIFICATION Spec
CONSTANTS
  Toplevel = {t1, t2}
  Misbehaving = {t2}
  NoToplevel = NoToplevel
  MaxSerial = 5
CONSTRAINT OneBusyWindow
INVARIANTS
  TypeOK FocusIsConfigured ModesExclude WindowedIsBack
PROPERTIES
  ChangesAnnounced PlacedFromWindowed ImplementsConfigureAck FocusReachesWindow
CHECK_DEADLOCK FALSE
