SPECIFICATION Spec
CONSTANTS
  o1 = o1
  o2 = o2
  o3 = o3
  Objects = {o1, o2, o3}
  Toplevels = {t1, t2, t3}
  Offscreen = {t3}
  Kind <- OneOfEach
  Frames = {1, 2, 3}
  MaxEdits = 3
  EarlyReuse = TRUE
  NoToplevel = NoToplevel
  NoObject = NoObject
  Gone = Gone
INVARIANTS
  TypeOK
  LoaderProgresses
  NoPanelLeftHidden
  QueuedOnce
  SavesPending
PROPERTIES
  LoadedStaysLoaded
SYMMETRY PanelSymmetry
CHECK_DEADLOCK FALSE
