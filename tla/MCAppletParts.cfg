SPECIFICATION AppletsSpec
CONSTANTS
  Frames = {f1, f2, f3}
  Objects = {o1, o2, o3}
  NoObject = NoObject
  Wrap = 8
  MaxChanges = 1
  Orients = {"up", "left"}
  Widths = {1, 2}
  Flags = {0, 1}
  MaxInTransit = 2
  MaxSets = 3
  NoValue = NoValue
  s1 = s1
  s2 = s2
  t1 = t1
  a1 = a1
  b1 = b1
  k1 = k1
  z1 = z1
  z2 = z2
  w1 = w1
  w2 = w2
  w3 = w3
  Sources = {s1, s2, t1}
  Tasks = {t1}
  Entries = {a1, b1, k1}
  SourceOf <- MCSourceOf
  MonthOf <- MCMonthOf
  UidPrefix <- MCUidPrefix
  Months = {1, 2}
  NoMonth = NoValue
  NoView = NoValue
  MaxEdits = 2
  MaxFaults = 1
  Places = {"p1", "p2", "p3"}
  FirstPlaces <- MCFirstPlaces
  Zones = {z1, z2}
  ZoneOf <- MCZoneOf
  Twin <- MCTwin
  ConfFiles <- MCConfFiles
  Unwatched = {"rc"}
  NoPlace = NoValue
  NoZone = NoValue
  BadZone = "bad"
  Utc = z1
  MaxRetry = 3
  MaxOps = 2
  Trays = {tray1, tray2}
  Windows = {w1, w2, w3}
  RolePosition <- MCRolePosition
  Paddings = {0, 1}
  MaxTraySteps = 5
CHECK_DEADLOCK FALSE
INVARIANTS
  AppletsTypeOK
  CountExact
  OneFactory
  AppletAndPanelAgree
  BothSidesAgree
PROPERTIES
  DeadIsReplaced
