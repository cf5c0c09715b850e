SPECIFICATION PartsSpec
CONSTANTS
  top = top
  clock = clock
  NoName = NoName
  Invalid = Invalid
  Files <- MCFiles
  Displays <- MCDisplays
  MaxNumber = 2
  MaxEdits = 4
  NoValue = NoValue
  p1 = p1
  p2 = p2
  i1 = i1
  i2 = i2
  i3 = i3
  f1 = f1
  f2 = f2
  f3 = f3
  a1 = a1
  a2 = a2
  t1 = t1
  n1 = n1
  n2 = n2
  c1 = c1
  c2 = c2
  d1 = d1
  v1 = v1
  v2 = v2
  m1 = m1
  m2 = m2
  m3 = m3
  m4 = m4
  Panels = {p1, p2}
  Objects = {"o1", "o2"}
  KindOf <- MCKindOf
  Nowhere = Nowhere
  MaxMenuOps = 5
  Images = {i1, i2, i3}
  ClearImages = {i2}
  BrokenImages = {i3}
  Regions <- MCRegions
  None = NoValue
  MaxBgChanges = 6
  Apps = {a1, a2}
  OtherTexts = {t1}
  Empty = NoValue
  MaxHistory = 2
  MaxRunSteps = 7
  Drives = {d1}
  Volumes = {v1, v2}
  Mounts = {m1, m2, m3, m4}
  PolledDrives = {d1}
  RemoteMounts = {m3}
  DriveOf <- MCDriveOf
  VolumeOf <- MCVolumeOf
  ShadowOf <- MCShadowOf
  BookmarkFiles <- MCBookmarkFiles
  NativeUris = {"n"}
  MaxBookmarks = 3
  MaxInline = 2
  NoPlace = NoValue
  MenuPaths = {"", "/x", "/y"}
  MenuRoots = {"applications", "gnomecc"}
  MaxMenuSteps = 5
  MenuImages = {i1, i2, i3}
  FileOf <- MCFileOf
  BrokenFiles = {f2}
  NoFile = NoValue
  Themed = t1
  MaxIconSteps = 6
  MonitorRects <- MCMonitorRects
  ScreenSize <- MCScreenSize
  Length = 6
  Sizes = {1, 2}
  Snap = 1
  Points <- MCPoints
  MaxMoveSteps = 4
  LauncherNames = {n1, n2}
  Commands = {c1, c2}
  Icons = {i1, i2, i3}
  DefaultIcon = i2
  Guess <- MCGuess
  Nothing = NoValue
  SystemKey <- MCSystemKey
  MaxFiles = 2
  MaxChangesMade = 5
  DropPanels = {p1, p2}
  FirstObjects <- MCFirstObjects
  SystemFile = t1
  UriLists <- MCUriLists
  NoDrag = NoValue
  MaxDropSteps = 3
CHECK_DEADLOCK FALSE
INVARIANTS
  PartsTypeOK
  NoIdTwice
  ObjectsOnPanels
  SpaceIsShared
  KeptAsShown
  ShownAsWanted
  MenusHoldThePanel
PROPERTIES
  PanelOnEveryScreen
  UserGetsBack
