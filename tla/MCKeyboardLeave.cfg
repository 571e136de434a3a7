SPECIFICATION Spec
CONSTANTS
  c1 = c1 c2 = c2 s1 = s1 s2 = s2 s3 = s3 k1 = k1 k2 = k2 k3 = k3 p1 = p1 p2 = p2 p3 = p3 d1 = d1 d2 = d2
  Clients = {c1, c2}
  Surfaces = {s1, s2, s3}
  Owner <- MCOwner
  Keyboards = {k1, k2, k3}
  Holder <- MCHolder
  Keys = {x}
  Sources = {d1, d2}
  Pipes = {f1, f2}
  Compositor = Compositor
  Times = {1, 2}
  MaxMimes = 2
  Retain = TRUE
  Items = {i1, i2}
  Pointers = {p1, p2, p3}
  PointerHolder <- MCPointerHolder
  Buttons = {b1}
  None = None
CONSTRAINT KeyboardPart
INVARIANT LeaveIsSent
CHECK_DEADLOCK FALSE
