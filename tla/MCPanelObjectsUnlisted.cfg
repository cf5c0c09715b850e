SPECIFICATION Spec
CONSTANTS
  o1 = o1
  o2 = o2
  o3 = o3
  Objects = {o1, o2, o3}
  Toplevels = {t1, t2}
  Offscreen = {}
  Kind <- OneOfEach
  Frames = {1, 2, 3}
  MaxEdits = 3
  EarlyReuse = TRUE
  NoToplevel = NoToplevel
  NoObject = NoObject
  Gone = Gone
INVARIANTS
  RegisteredInLayout
CHECK_DEADLOCK FALSE
