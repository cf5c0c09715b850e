SPECIFICATION LiveSpec
CONSTANTS
  o1 = o1
  o2 = o2
  o3 = o3
  Objects = {o1, o2}
  Toplevels = {t1, t2}
  Offscreen = {}
  Kind <- AppletAndLauncher
  Frames = {1, 2, 3}
  MaxEdits = 3
  EarlyReuse = FALSE
  NoToplevel = NoToplevel
  NoObject = NoObject
  Gone = Gone
PROPERTIES
  PanelsUnhide
  LayoutShown
CHECK_DEADLOCK FALSE
